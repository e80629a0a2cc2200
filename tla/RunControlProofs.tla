-------------------------- MODULE RunControlProofs --------------------------
(***************************************************************************)
(* Type correctness of RunControl, and the agreement of the three records  *)
(* of which EventSet is running, for any threads, sets, timers, bounds and *)
(* choice of failing system calls.                                         *)
(***************************************************************************)
EXTENDS RunControl, TLAPS

StartLabels == {"start_signal", "start_timer", "hwd_start", "start_state"}
StopLabels == {"stop_timer", "stop_signal", "hwd_stop", "stop_state"}

\* A thread in a call works on a set of its own; what it runs is its own.
Ownership ==
  \A t \in Threads :
    /\ pc[t] # "idle" => cur[t] \in Sets /\ master[cur[t]] = t
    /\ running_eventset[t] # NoSet => master[running_eventset[t]] = t

\* Where the running_eventset of a thread in a call points.
CallInv ==
  \A t \in Threads :
    /\ pc[t] \in StartLabels \cup {"start_running"} => running_eventset[t] = NoSet
    /\ pc[t] \in StopLabels \cup {"stop_running"} => running_eventset[t] = cur[t]

\* The state bits of a set, at every point of a call of its master.
BitsInv ==
  \A e \in Sets, t \in Threads : master[e] = t =>
    /\ stoppedBit[e] = ~runningBit[e]
    /\ runningBit[e] <=>
         \/ running_eventset[t] = e /\ pc[t] # "stop_running"
         \/ pc[t] = "start_running" /\ cur[t] = e

\* The counters of a thread are on the set it runs, or on the one whose start
\* has got past vperfctr_control; they are free while a start has not.
CountersInv ==
  \A t \in Threads : ctx[t] # NoSet =>
    /\ pc[t] \notin {"start_signal", "start_timer", "hwd_start"}
    /\ pc[t] \notin {"stop_state", "stop_running"}
    /\ IF pc[t] \in {"start_state", "start_running"}
       THEN ctx[t] = cur[t]
       ELSE ctx[t] = running_eventset[t]

RunInv == TypeOK /\ Ownership /\ CallInv /\ BitsInv /\ CountersInv

USE RunControlAssumption

\* A library nobody has called yet satisfies the invariant.
LEMMA InitRunInv == Init => RunInv
<1> SUFFICES ASSUME Init PROVE RunInv
  OBVIOUS
<1> USE DEF Init
<1>1. TypeOK
  <2>1. /\ master \in [Sets -> Threads \cup {NoThread}]
        /\ hasEvent \in [Sets -> BOOLEAN]
        /\ stoppedBit \in [Sets -> BOOLEAN]
        /\ runningBit \in [Sets -> BOOLEAN]
        /\ overflowing \in [Sets -> BOOLEAN]
        /\ entry \in [Sets -> {"none", "sw", "hw"}]
        /\ intEnable \in [Sets -> BOOLEAN]
    OBVIOUS
  <2>2. /\ deadline \in [Sets -> Nat]
        /\ count \in [Sets -> Nat]
        /\ using_signal \in Int
    OBVIOUS
  <2>3. /\ running_eventset \in [Threads -> Sets \cup {NoSet}]
        /\ ctx \in [Threads -> Sets \cup {NoSet}]
        /\ live \in [Threads -> BOOLEAN]
        /\ cur \in [Threads -> Sets \cup {NoSet}]
        /\ pc \in [Threads -> Labels]
    BY DEF Labels
  <2>4. handler \in BOOLEAN /\ ovalue \in BOOLEAN /\ armed \in [Timers -> BOOLEAN]
    OBVIOUS
  <2> QED
    BY <2>1, <2>2, <2>3, <2>4 DEF TypeOK
<1>2. Ownership /\ CallInv
  BY DEF Ownership, CallInv, StartLabels, StopLabels
<1>3. BitsInv /\ CountersInv
  BY DEF BitsInv, CountersInv
<1> QED
  BY <1>1, <1>2, <1>3 DEF RunInv

\* A step of a start or a stop, failing or not, keeps every record's type: the
\* set it works on exists.
LEMMA CallStepType ==
  ASSUME TypeOK, Ownership, NEW t \in Threads, CallStep(t)
  PROVE  TypeOK'
<1> USE DEF TypeOK, Ownership, Labels, esiVars, hwVars, signalVars, timerVars,
            pcVars, Goto, Return
<1>1. CASE StartSignalStep(t)
  BY <1>1 DEF StartSignalStep, StartSignal
<1>2. CASE StartTimerStep(t)
  BY <1>2 DEF StartTimerStep, StartTimer
<1>3. CASE StartTimerFails(t)
  BY <1>3 DEF StartTimerFails, StopSignal
<1>4. CASE HwdStart(t)
  BY <1>4 DEF HwdStart, Program
<1>5. CASE HwdStartFails(t)
  BY <1>5 DEF HwdStartFails
<1>6. CASE StartState(t)
  BY <1>6 DEF StartState
<1>7. CASE StartRunning(t)
  BY <1>7 DEF StartRunning
<1>8. CASE StopTimerStep(t)
  BY <1>8 DEF StopTimerStep, StopTimer
<1>9. CASE StopSignalStep(t)
  BY <1>9 DEF StopSignalStep, StopSignal
<1>10. CASE HwdStop(t)
  BY <1>10 DEF HwdStop
<1>11. CASE HwdStopFails(t)
  BY <1>11 DEF HwdStopFails
<1>12. CASE StopState(t)
  BY <1>12 DEF StopState
<1>13. CASE StopRunning(t)
  BY <1>13 DEF StopRunning
<1>14. CASE StopTimerFails(t)
  BY <1>14 DEF StopTimerFails
<1> QED
  BY <1>1, <1>2, <1>3, <1>4, <1>5, <1>6, <1>7, <1>8, <1>9, <1>10, <1>11,
     <1>12, <1>13, <1>14 DEF CallStep

\* A step of a start or a stop keeps the records of what runs in agreement.
LEMMA CallStepRecords ==
  ASSUME RunInv, NEW t \in Threads, CallStep(t)
  PROVE  Ownership' /\ CallInv' /\ BitsInv' /\ CountersInv'
<1> USE DEF RunInv, TypeOK, Ownership, CallInv, BitsInv, CountersInv,
            StartLabels, StopLabels, Labels, esiVars, hwVars, pcVars, Goto,
            Return
<1>1. CASE StartSignalStep(t)
  BY <1>1 DEF StartSignalStep
<1>2. CASE StartTimerStep(t)
  BY <1>2 DEF StartTimerStep
<1>3. CASE StartTimerFails(t)
  BY <1>3 DEF StartTimerFails
<1>4. CASE HwdStart(t)
  BY <1>4 DEF HwdStart, Program
<1>5. CASE HwdStartFails(t)
  BY <1>5 DEF HwdStartFails
<1>6. CASE StartState(t)
  BY <1>6 DEF StartState
<1>7. CASE StartRunning(t)
  BY <1>7 DEF StartRunning
<1>8. CASE StopTimerStep(t)
  BY <1>8 DEF StopTimerStep
<1>9. CASE StopSignalStep(t)
  BY <1>9 DEF StopSignalStep
<1>10. CASE HwdStop(t)
  BY <1>10 DEF HwdStop
<1>11. CASE HwdStopFails(t)
  BY <1>11 DEF HwdStopFails
<1>12. CASE StopState(t)
  <2> USE <1>12 DEF StopState
  <2>1. Ownership' /\ CallInv' /\ CountersInv'
    OBVIOUS
  <2>2. cur[t] \in Sets /\ master[cur[t]] = t /\ running_eventset[t] = cur[t]
    OBVIOUS
  <2>3. runningBit[cur[t]] /\ ~runningBit'[cur[t]] /\ stoppedBit'[cur[t]]
    BY <2>2
  <2>4. ASSUME NEW e \in Sets, master[e] \in Threads, e # cur[t]
        PROVE  runningBit'[e] = runningBit[e] /\ stoppedBit'[e] = stoppedBit[e]
    BY <2>4
  <2>5. BitsInv'
    <3> SUFFICES ASSUME NEW e \in Sets, NEW s \in Threads, master[e] = s
                 PROVE  /\ stoppedBit'[e] = ~runningBit'[e]
                        /\ runningBit'[e] <=>
                             \/ running_eventset'[s] = e /\ pc'[s] # "stop_running"
                             \/ pc'[s] = "start_running" /\ cur'[s] = e
      OBVIOUS
    <3>1. CASE e = cur[t]
      <4>1. s = t /\ pc'[s] = "stop_running"
        BY <2>2, <3>1
      <4> QED
        BY <2>3, <3>1, <4>1
    <3>2. CASE e # cur[t]
      BY <2>2, <2>4, <3>2
    <3> QED
      BY <3>1, <3>2
  <2> QED
    BY <2>1, <2>5
<1>13. CASE StopRunning(t)
  BY <1>13 DEF StopRunning
<1>14. CASE StopTimerFails(t)
  BY <1>14 DEF StopTimerFails
<1> QED
  BY <1>1, <1>2, <1>3, <1>4, <1>5, <1>6, <1>7, <1>8, <1>9, <1>10, <1>11,
     <1>12, <1>13, <1>14 DEF CallStep

\* Counting the signal up or down keeps the count an integer.
LEMMA SignalType ==
  ASSUME using_signal \in Int, handler \in BOOLEAN,
         StartSignal \/ StopSignal \/ UNCHANGED signalVars
  PROVE  using_signal' \in Int /\ handler' \in BOOLEAN
<1>1. using_signal' \in Int
  BY DEF StartSignal, StopSignal, signalVars
<1>2. handler' \in BOOLEAN
  BY Zenon DEF StartSignal, StopSignal, signalVars
<1> QED
  BY <1>1, <1>2

\* A call on a set keeps every record's type.
LEMMA CallType ==
  ASSUME TypeOK, NEW t \in Threads, NEW e \in Sets, Call(t, e)
  PROVE  TypeOK'
<1> USE DEF TypeOK, Labels, Owns, esiVars, hwVars, signalVars, timerVars, pcVars
<1>1. CASE Create(t, e)
  BY <1>1 DEF Create
<1>2. CASE AddEvent(t, e)
  BY <1>2 DEF AddEvent
<1>3. CASE SetOverflow(t, e, "hw")
  <2>1. using_signal' \in Int /\ handler' \in BOOLEAN
    BY <1>3, SignalType DEF SetOverflow
  <2> QED
    BY <1>3, <2>1 DEF SetOverflow
<1>4. CASE SetOverflow(t, e, "sw")
  BY <1>4 DEF SetOverflow
<1>5. CASE ClearOverflow(t, e)
  <2>1. using_signal' \in Int /\ handler' \in BOOLEAN
    BY <1>5, SignalType DEF ClearOverflow, DropOverflow
  <2> QED
    BY <1>5, <2>1 DEF ClearOverflow, DropOverflow
<1>6. CASE RemoveEvent(t, e)
  <2>1. using_signal' \in Int /\ handler' \in BOOLEAN
    BY <1>6, SignalType DEF RemoveEvent, DropOverflow
  <2>2. /\ entry' \in [Sets -> {"none", "sw", "hw"}]
        /\ deadline' \in [Sets -> Nat]
        /\ overflowing' \in [Sets -> BOOLEAN]
    <3>1. CASE overflowing[e] /\ entry[e] # "none"
      <4>1. DropOverflow(e)
        BY <1>6, <3>1 DEF RemoveEvent
      <4> QED
        BY <4>1 DEF DropOverflow
    <3>2. CASE ~(overflowing[e] /\ entry[e] # "none")
      BY <1>6, <3>2 DEF RemoveEvent
    <3> QED
      BY <3>1, <3>2
  <2> QED
    BY <1>6, <2>1, <2>2 DEF RemoveEvent
<1>7. CASE Destroy(t, e)
  BY <1>7 DEF Destroy
<1>8. CASE PAPI_start(t, e)
  BY <1>8 DEF PAPI_start
<1>9. CASE PAPI_stop(t, e)
  BY <1>9 DEF PAPI_stop
<1>10. CASE PAPI_reset(t, e)
  <2>1. /\ ctx' \in [Threads -> Sets \cup {NoSet}]
        /\ live' \in [Threads -> BOOLEAN]
        /\ count' \in [Sets -> Nat]
    <3>1. CASE Program(t, e)
      BY <3>1 DEF Program
    <3>2. CASE ~Program(t, e)
      <4>1. UNCHANGED <<live, count>>
        BY <1>10, <3>2 DEF PAPI_reset
      <4>2. UNCHANGED ctx \/ ctx' = [ctx EXCEPT ![t] = NoSet]
        BY <1>10, <3>2 DEF PAPI_reset
      <4> QED
        BY <4>1, <4>2
    <3> QED
      BY <3>1, <3>2
  <2> QED
    BY <1>10, <2>1 DEF PAPI_reset
<1> QED
  BY <1>1, <1>2, <1>3, <1>4, <1>5, <1>6, <1>7, <1>8, <1>9, <1>10 DEF Call

\* A call on a set keeps the records of what runs in agreement: none of them
\* frees or reuses a slot that a thread runs or works on.
LEMMA CallRecords ==
  ASSUME RunInv, NEW t \in Threads, NEW e \in Sets, Call(t, e)
  PROVE  Ownership' /\ CallInv' /\ BitsInv' /\ CountersInv'
<1> USE DEF RunInv, TypeOK, Ownership, CallInv, BitsInv, CountersInv,
            StartLabels, StopLabels, Labels, Owns, esiVars, hwVars, pcVars
<1>1. CASE Create(t, e)
  <2> USE <1>1 DEF Create
  <2>1. \A s \in Threads : running_eventset[s] # e /\ (pc[s] # "idle" => cur[s] # e)
    OBVIOUS
  <2>2. Ownership' /\ CallInv' /\ CountersInv'
    BY <2>1
  <2>3. BitsInv'
    <3> SUFFICES ASSUME NEW d \in Sets, NEW s \in Threads, master'[d] = s
                 PROVE  /\ stoppedBit'[d] = ~runningBit'[d]
                        /\ runningBit'[d] <=>
                             \/ running_eventset[s] = d /\ pc[s] # "stop_running"
                             \/ pc[s] = "start_running" /\ cur[s] = d
      OBVIOUS
    <3>1. CASE d = e
      <4>1. pc[s] = "idle" /\ running_eventset[s] # d
        BY <2>1, <3>1
      <4>2. stoppedBit'[d] /\ ~runningBit'[d]
        BY <3>1
      <4> QED
        BY <4>1, <4>2
    <3>2. CASE d # e
      BY <3>2
    <3> QED
      BY <3>1, <3>2
  <2> QED
    BY <2>2, <2>3
<1>2. CASE AddEvent(t, e)
  BY <1>2 DEF AddEvent
<1>3. CASE SetOverflow(t, e, "hw")
  BY <1>3 DEF SetOverflow
<1>4. CASE SetOverflow(t, e, "sw")
  BY <1>4 DEF SetOverflow
<1>5. CASE ClearOverflow(t, e)
  BY <1>5 DEF ClearOverflow, DropOverflow
<1>6. CASE RemoveEvent(t, e)
  BY <1>6 DEF RemoveEvent, DropOverflow
<1>7. CASE Destroy(t, e)
  BY <1>7 DEF Destroy
<1>8. CASE PAPI_start(t, e)
  BY <1>8 DEF PAPI_start
<1>9. CASE PAPI_stop(t, e)
  BY <1>9 DEF PAPI_stop
<1>10. CASE PAPI_reset(t, e)
  BY <1>10 DEF PAPI_reset, Program
<1> QED
  BY <1>1, <1>2, <1>3, <1>4, <1>5, <1>6, <1>7, <1>8, <1>9, <1>10 DEF Call

\* Events and signals: they touch counts, deadlines and the suspension only.
LEMMA HardwareStep ==
  ASSUME RunInv, NEW t \in Threads,
         CountEvent(t) \/ TimerTick(t) \/ PmcOverflow(t)
  PROVE  RunInv'
<1> USE DEF RunInv, TypeOK
<1>1. CASE CountEvent(t)
  <2>1. TypeOK'
    BY <1>1 DEF CountEvent, esiVars, signalVars, timerVars, pcVars
  <2>2. Ownership' /\ CallInv' /\ BitsInv' /\ CountersInv'
    BY <1>1 DEF CountEvent, esiVars, pcVars, Ownership, CallInv, BitsInv,
       CountersInv
  <2> QED
    BY <2>1, <2>2
<1>2. CASE TimerTick(t)
  <2>1. TypeOK'
    <3> DEFINE e == running_eventset[t]
    <3>1. e \in Sets
      BY <1>2 DEF TimerTick, Dispatches
    <3>2. CASE entry[e] = "hw"
      BY <1>2, <3>1, <3>2 DEF TimerTick, signalVars, timerVars, pcVars
    <3>3. CASE entry[e] # "hw"
      BY <1>2, <3>1, <3>3 DEF TimerTick, signalVars, timerVars, pcVars
    <3> QED
      BY <3>2, <3>3
  <2>2. Ownership' /\ CallInv' /\ BitsInv' /\ CountersInv'
    BY <1>2 DEF TimerTick, pcVars, Ownership, CallInv, BitsInv, CountersInv
  <2> QED
    BY <2>1, <2>2
<1>3. CASE PmcOverflow(t)
  <2>1. TypeOK'
    BY <1>3 DEF PmcOverflow, Dispatches, esiVars, signalVars, timerVars, pcVars
  <2>2. Ownership' /\ CallInv' /\ BitsInv' /\ CountersInv'
    BY <1>3 DEF PmcOverflow, esiVars, pcVars, Ownership, CallInv, BitsInv,
       CountersInv
  <2> QED
    BY <2>1, <2>2
<1> QED
  BY <1>1, <1>2, <1>3

\* The invariant is inductive.
LEMMA StepRunInv == RunInv /\ [Next]_vars => RunInv'
<1> SUFFICES ASSUME RunInv, [Next]_vars
             PROVE  RunInv'
  OBVIOUS
<1>1. ASSUME NEW t \in Threads, CallStep(t)
      PROVE  RunInv'
  BY <1>1, CallStepType, CallStepRecords DEF RunInv
<1>2. ASSUME NEW t \in Threads, NEW e \in Sets, Call(t, e)
      PROVE  RunInv'
  BY <1>2, CallType, CallRecords DEF RunInv
<1>3. ASSUME NEW t \in Threads, CountEvent(t) \/ TimerTick(t) \/ PmcOverflow(t)
      PROVE  RunInv'
  BY <1>3, HardwareStep
<1>4. CASE UNCHANGED vars
  BY <1>4 DEF RunInv, TypeOK, Ownership, CallInv, BitsInv, CountersInv, vars,
     esiVars,
              hwVars, signalVars, timerVars, pcVars
<1> QED
  BY <1>1, <1>2, <1>3, <1>4 DEF Next

\* Every state the library can reach satisfies the inductive invariant.
THEOREM Invariance == Spec => []RunInv
BY InitRunInv, StepRunInv, PTL DEF Spec

\* Every record keeps its type, whatever calls fail and signals arrive: a set
\* is always there where running_eventset, the counters or a call point.
THEOREM TypeCorrect == Spec => []TypeOK
<1>1. RunInv => TypeOK
  BY DEF RunInv
<1> QED
  BY <1>1, Invariance, PTL

\* PAPI_start's single test of running_eventset is enough: between calls the
\* state bits and running_eventset agree on which set a thread is running.
THEOREM RunStates == Spec => []RunStateAgrees
<1>1. RunInv => RunStateAgrees
  BY DEF RunInv, BitsInv, RunStateAgrees
<1> QED
  BY <1>1, Invariance, PTL

\* No start and no reset takes the counters away from a set that is counting.
LEMMA StepNotStolen ==
  RunInv /\ [Next]_vars =>
    [\A t \in Threads : ctx[t] # NoSet => ctx'[t] \in {ctx[t], NoSet}]_vars
<1> SUFFICES ASSUME RunInv, Next
             PROVE  \A t \in Threads : ctx[t] # NoSet => ctx'[t] \in {ctx[t], NoSet}
  OBVIOUS
<1>1. ASSUME NEW t \in Threads, CallStep(t)
      PROVE  \A s \in Threads : ctx[s] # NoSet => ctx'[s] \in {ctx[s], NoSet}
  <2>1. CASE HwdStart(t)
    BY <2>1 DEF HwdStart, Program, RunInv, TypeOK, CountersInv
  <2>2. CASE HwdStop(t)
    BY <2>2 DEF HwdStop, RunInv, TypeOK
  <2>3. CASE ~HwdStart(t) /\ ~HwdStop(t)
    <3>1. UNCHANGED ctx
      BY <1>1, <2>3 DEF CallStep, StartSignalStep, StartTimerStep,
         StartTimerFails,
         HwdStartFails, StartState, StartRunning, StopTimerStep, StopTimerFails,
         StopSignalStep,
         HwdStopFails, StopState, StopRunning, hwVars
    <3> QED
      BY <3>1
  <2> QED
    BY <2>1, <2>2, <2>3
<1>2. ASSUME NEW t \in Threads, NEW e \in Sets, Call(t, e)
      PROVE  \A s \in Threads : ctx[s] # NoSet => ctx'[s] \in {ctx[s], NoSet}
  <2>1. CASE PAPI_reset(t, e)
    <3>1. running_eventset[t] = e /\ pc[t] = "idle"
      BY <2>1 DEF PAPI_reset, Owns, RunInv, BitsInv
    <3>2. ctx[t] # NoSet => ctx[t] = e
      BY <3>1 DEF RunInv, CountersInv
    <3>3. UNCHANGED ctx \/ ctx' = [ctx EXCEPT ![t] = NoSet] \/ ctx' = [ctx EXCEPT ![t] = e]
      BY <2>1 DEF PAPI_reset, Program
    <3> QED
      BY <3>2, <3>3 DEF RunInv, TypeOK
  <2>2. CASE ~PAPI_reset(t, e)
    <3>1. UNCHANGED ctx
      BY <1>2, <2>2 DEF Call, Create, AddEvent, SetOverflow, ClearOverflow,
         RemoveEvent, Destroy, PAPI_start, PAPI_stop, hwVars
    <3> QED
      BY <3>1
  <2> QED
    BY <2>1, <2>2
<1>3. ASSUME NEW t \in Threads, CountEvent(t) \/ TimerTick(t) \/ PmcOverflow(t)
      PROVE  \A s \in Threads : ctx[s] # NoSet => ctx'[s] \in {ctx[s], NoSet}
  BY <1>3 DEF CountEvent, TimerTick, PmcOverflow
<1> QED
  BY <1>1, <1>2, <1>3 DEF Next

\* Counters change hands only through a stop, however the starts, stops and
\* resets of the threads interleave and whichever of them fail.
THEOREM NotStolen == Spec => CountersNotStolen
<1>1. Spec => [][\A t \in Threads : ctx[t] # NoSet => ctx'[t] \in {ctx[t], NoSet}]_vars
  BY Invariance, StepNotStolen, PTL DEF Spec
<1> QED
  BY <1>1 DEF CountersNotStolen
=============================================================================
