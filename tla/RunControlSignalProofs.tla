------------------------ MODULE RunControlSignalProofs ------------------------
(***************************************************************************)
(* The SIGPROF handler of RunControl is installed whenever a timer runs or *)
(* a counter interrupts, for any threads and sets, if each thread has an   *)
(* interval timer of its own and vperfctr_stop does not fail.  The count   *)
(* _papi_hwi_using_signal is compared with the users it should have: sets  *)
(* with a hardware overflow entry, and threads inside a software overflow  *)
(* run.  It may exceed them, since a start that fails at vperfctr_control  *)
(* and a second PAPI_overflow of the same event count up for good; it      *)
(* never falls short, and a timer runs outside a run only if it exceeds.   *)
(***************************************************************************)
EXTENDS RunControlProofs, FiniteSetTheorems

\* The thread's timer may be running for the set it runs or starts.
Timed(t) ==
  \/ pc[t] = "stop_timer"
  \/ pc[t] \in {"hwd_start", "start_state", "start_running"} /\ SwOverflow(cur[t])
  \/ pc[t] = "idle" /\ running_eventset[t] # NoSet /\ SwOverflow(running_eventset[t])

\* The thread has counted the signal up for a run and not down again.
Holds(t) == Timed(t) \/ pc[t] \in {"start_timer", "stop_signal"}

HwSets == {e \in Sets : entry[e] = "hw"}
Holders == {t \in Threads : Holds(t)}
Users == Cardinality(HwSets) + Cardinality(Holders)

Spare == Users < using_signal
CountInv == Users <= using_signal /\ (handler <=> using_signal > 0)
EnableInv == \A e \in Sets : intEnable[e] => entry[e] = "hw"
StartInv ==
  \A t \in Threads :
    pc[t] \in {"start_signal", "start_timer", "stop_timer"} => SwOverflow(cur[t])
TimerInv ==
  /\ ovalue => Spare
  /\ \A m \in Timers :
       armed[m] => Spare \/ \E t \in Threads : TimerOf[t] = m /\ Timed(t)
SignalInv == CountInv /\ EnableInv /\ StartInv /\ TimerInv

\* Each thread has an interval timer of its own, as Linux before 2.6.12 has it.
OwnTimers == \A t, u \in Threads : TimerOf[t] = TimerOf[u] => t = u
StopsWork == "vperfctr_stop" \notin FailingCalls

USE RunControlAssumption

LEMMA UsersType ==
  /\ IsFiniteSet(HwSets) /\ Cardinality(HwSets) \in Nat
  /\ IsFiniteSet(Holders) /\ Cardinality(Holders) \in Nat
  /\ Users \in Nat
<1>1. HwSets \in SUBSET Sets /\ Holders \in SUBSET Threads
  BY DEF HwSets, Holders
<1>2. IsFiniteSet(HwSets) /\ IsFiniteSet(Holders)
  BY <1>1, FS_Subset
<1>3. Cardinality(HwSets) \in Nat /\ Cardinality(Holders) \in Nat
  BY <1>2, FS_CardinalityType
<1> QED BY <1>2, <1>3 DEF Users

\* What a step does to the users: the sets and threads that come and go.
LEMMA UsersGrow ==
  ASSUME NEW S, IsFiniteSet(S), NEW x
  PROVE  /\ Cardinality(S) \in Nat
         /\ Cardinality(S \cup {x}) \in {Cardinality(S), Cardinality(S) + 1}
         /\ Cardinality(S \ {x}) \in {Cardinality(S), Cardinality(S) - 1}
         /\ x \in S => Cardinality(S \ {x}) = Cardinality(S) - 1
         /\ x \notin S => Cardinality(S \cup {x}) = Cardinality(S) + 1
BY FS_AddElement, FS_RemoveElement, FS_CardinalityType

LEMMA InitSignalInv == Init => SignalInv
<1> SUFFICES ASSUME Init PROVE SignalInv
  OBVIOUS
<1>1. HwSets = {} /\ Holders = {}
  BY DEF Init, HwSets, Holders, Holds, Timed
<1>2. Users = 0
  BY <1>1, FS_EmptySet DEF Users
<1>3. CountInv
  BY <1>2 DEF Init, CountInv
<1> QED BY <1>3 DEF Init, SignalInv, EnableInv, StartInv, TimerInv

\* Nothing that the invariant depends on changes but for the better.
LEMMA SignalKept ==
  ASSUME SignalInv, HwSets' = HwSets,
         \A t \in Threads : (Timed(t)' <=> Timed(t)) /\ (Holds(t)' <=> Holds(t)),
         UNCHANGED <<using_signal, handler, ovalue, armed>>
  PROVE  CountInv' /\ TimerInv'
<1>1. Holders' = Holders
  BY DEF Holders
<1>2. Users' = Users
  BY <1>1 DEF Users
<1>3. Spare' = Spare
  BY <1>2 DEF Spare
<1>4. CountInv'
  BY <1>2 DEF SignalInv, CountInv
<1>5. TimerInv'
  BY <1>3 DEF SignalInv, TimerInv
<1> QED BY <1>4, <1>5

\* A reference given back: the users and the count go down together.
LEMMA SignalGivenBack ==
  ASSUME TypeOK, SignalInv, StopSignal, UNCHANGED <<ovalue, armed>>,
         Users > 0, Users' = Users - 1, \A t \in Threads : Timed(t) => Timed(t)'
  PROVE  CountInv' /\ TimerInv'
<1>1. using_signal' = using_signal - 1 /\ (handler' <=> handler /\ using_signal' # 0)
  BY DEF StopSignal
<1>2. Users \in Nat /\ using_signal \in Int
  BY UsersType DEF TypeOK
<1>3. Spare => Spare'
  BY <1>1, <1>2 DEF Spare
<1>4. CountInv'
  BY <1>1, <1>2 DEF SignalInv, CountInv
<1>5. TimerInv'
  BY <1>3 DEF SignalInv, TimerInv
<1> QED BY <1>4, <1>5

\* A reference taken, for at most one user more.
LEMMA SignalTaken ==
  ASSUME TypeOK, SignalInv, StartSignal, UNCHANGED <<ovalue, armed>>,
         Users' \in {Users, Users + 1}, \A t \in Threads : Timed(t) => Timed(t)'
  PROVE  CountInv' /\ TimerInv'
<1>1. using_signal' = using_signal + 1 /\ (handler' <=> handler \/ using_signal' = 1)
  BY DEF StartSignal
<1>2. Users \in Nat /\ using_signal \in Int
  BY UsersType DEF TypeOK
<1>3. Spare => Spare'
  BY <1>1, <1>2 DEF Spare
<1>4. CountInv'
  BY <1>1, <1>2 DEF SignalInv, CountInv
<1>5. TimerInv'
  BY <1>3 DEF SignalInv, TimerInv
<1> QED BY <1>4, <1>5

-----------------------------------------------------------------------------
\* A step of a start or a stop.

\* It leaves the overflow attributes and all other threads alone.
LEMMA CallStepFrame ==
  ASSUME TypeOK, EnableInv, NEW t \in Threads, CallStep(t)
  PROVE  /\ EnableInv' /\ HwSets' = HwSets
         /\ overflowing' = overflowing /\ entry' = entry
         /\ \A u \in Threads \ {t} :
              /\ pc'[u] = pc[u] /\ cur'[u] = cur[u]
              /\ running_eventset'[u] = running_eventset[u]
              /\ Timed(u)' <=> Timed(u)
              /\ Holds(u)' <=> Holds(u)
<1>1. UNCHANGED <<overflowing, entry, intEnable>>
  BY DEF CallStep, StartSignalStep, StartTimerStep, StartTimerFails, HwdStart, HwdStartFails,
         StartState, StartRunning, StopTimerStep, StopTimerFails, StopSignalStep, HwdStop, HwdStopFails,
         StopState, StopRunning, esiVars
<1>2. \A u \in Threads \ {t} : pc'[u] = pc[u] /\ cur'[u] = cur[u]
  <2>1. \A to : Goto(t, to) => \A u \in Threads \ {t} : pc'[u] = pc[u] /\ cur'[u] = cur[u]
    BY DEF Goto, TypeOK
  <2>2. Return(t) => \A u \in Threads \ {t} : pc'[u] = pc[u] /\ cur'[u] = cur[u]
    BY DEF Return, TypeOK
  <2>3. Return(t) \/ \E to : Goto(t, to)
    BY Zenon
       DEF CallStep, StartSignalStep, StartTimerStep, StartTimerFails, HwdStart, HwdStartFails,
           StartState, StartRunning, StopTimerStep, StopTimerFails, StopSignalStep, HwdStop, HwdStopFails,
           StopState, StopRunning
  <2> QED BY <2>1, <2>2, <2>3
<1>3. \A u \in Threads \ {t} : running_eventset'[u] = running_eventset[u]
  <2>1. running_eventset' = running_eventset \/ StartRunning(t) \/ StopRunning(t)
    BY DEF CallStep, StartSignalStep, StartTimerStep, StartTimerFails, HwdStart, HwdStartFails,
           StartState, StopTimerStep, StopTimerFails, StopSignalStep, HwdStop, HwdStopFails, StopState
  <2> QED BY <2>1 DEF StartRunning, StopRunning, TypeOK
<1>4. HwSets' = HwSets /\ EnableInv'
  BY <1>1 DEF HwSets, EnableInv
<1>5. \A u \in Threads \ {t} : (Timed(u)' <=> Timed(u)) /\ (Holds(u)' <=> Holds(u))
  BY <1>1, <1>2, <1>3 DEF Timed, Holds, SwOverflow
<1> QED BY <1>1, <1>2, <1>3, <1>4, <1>5

\* The holders, when the others stay what they were.
LEMMA OneHolder ==
  ASSUME NEW t \in Threads, HwSets' = HwSets,
         \A u \in Threads \ {t} : Holds(u)' <=> Holds(u)
  PROVE  /\ Holds(t) /\ ~Holds(t)' => Users' = Users - 1 /\ Users > 0
         /\ ~Holds(t) /\ Holds(t)' => Users' = Users + 1
         /\ (Holds(t) <=> Holds(t)') => Users' = Users
<1>1. ASSUME Holds(t), ~Holds(t)' PROVE Users' = Users - 1 /\ Users > 0
  <2>1. Holders' = Holders \ {t} /\ t \in Holders
    BY <1>1 DEF Holders
  <2>2. Cardinality(Holders') = Cardinality(Holders) - 1
    BY <2>1, UsersType, UsersGrow
  <2>3. Cardinality(Holders) # 0
    BY <2>1, UsersType, FS_EmptySet
  <2> QED BY <2>2, <2>3, UsersType DEF Users
<1>2. ASSUME ~Holds(t), Holds(t)' PROVE Users' = Users + 1
  <2>1. Holders' = Holders \cup {t} /\ t \notin Holders
    BY <1>2 DEF Holders
  <2>2. Cardinality(Holders') = Cardinality(Holders) + 1
    BY <2>1, UsersType, UsersGrow
  <2> QED BY <2>2, UsersType DEF Users
<1>3. ASSUME Holds(t) <=> Holds(t)' PROVE Users' = Users
  <2>1. Holders' = Holders
    BY <1>3 DEF Holders
  <2> QED BY <2>1 DEF Users
<1> QED BY <1>1, <1>2, <1>3

LEMMA CallStepSignal ==
  ASSUME OwnTimers, StopsWork, RunInv, SignalInv, NEW t \in Threads, CallStep(t)
  PROVE  SignalInv'
<1> USE DEF RunInv
<1>1. /\ EnableInv' /\ HwSets' = HwSets
      /\ overflowing' = overflowing /\ entry' = entry
      /\ \A u \in Threads \ {t} :
           /\ pc'[u] = pc[u] /\ cur'[u] = cur[u]
           /\ Timed(u)' <=> Timed(u)
           /\ Holds(u)' <=> Holds(u)
  BY CallStepFrame DEF SignalInv
<1>2. \A e : SwOverflow(e)' <=> SwOverflow(e)
  BY <1>1 DEF SwOverflow
<1>3. StartInv'
  <2>1. pc'[t] \in {"start_signal", "start_timer", "stop_timer"} => SwOverflow(cur[t]) /\ cur'[t] = cur[t]
    BY DEF SignalInv, StartInv, TypeOK, Labels, Goto, Return, CallStep, StartSignalStep,
           StartTimerStep, StartTimerFails, HwdStart, HwdStartFails, StartState, StartRunning,
           StopTimerStep, StopTimerFails, StopSignalStep, HwdStop, HwdStopFails, StopState, StopRunning
  <2> QED BY <1>1, <1>2, <2>1 DEF SignalInv, StartInv
<1>4. CASE StartSignalStep(t)
  <2>1. pc[t] = "start_signal" /\ pc'[t] = "start_timer"
    BY <1>4 DEF StartSignalStep, Goto, TypeOK
  <2>2. ~Timed(t) /\ ~Holds(t) /\ Holds(t)'
    BY <2>1 DEF Timed, Holds
  <2>3. Users' = Users + 1
    BY <1>1, <2>2, OneHolder
  <2>4. CountInv' /\ TimerInv'
    BY <1>1, <1>4, <2>2, <2>3, SignalTaken DEF StartSignalStep, timerVars
  <2> QED BY <1>1, <1>3, <2>4 DEF SignalInv
<1>5. CASE StartTimerStep(t)
  <2>1. pc[t] = "start_timer" /\ pc'[t] = "hwd_start" /\ cur'[t] = cur[t]
    BY <1>5 DEF StartTimerStep, Goto, TypeOK
  <2>2. ~Timed(t) /\ Holds(t) /\ Timed(t)' /\ Holds(t)'
    BY <1>2, <2>1 DEF Timed, Holds, SignalInv, StartInv
  <2>3. Users' = Users /\ UNCHANGED <<using_signal, handler>>
    BY <1>1, <1>5, <2>2, OneHolder DEF StartTimerStep, signalVars
  <2>4. Spare' = Spare /\ CountInv'
    BY <2>3 DEF Spare, SignalInv, CountInv
  <2>5. /\ ovalue' = armed[TimerOf[t]]
        /\ \A m \in Timers : armed'[m] => armed[m] \/ m = TimerOf[t]
    BY <1>5 DEF StartTimerStep, StartTimer, TypeOK
  <2>6. TimerInv'
    <3>1. ovalue' => Spare
      BY <2>2, <2>5 DEF SignalInv, TimerInv, OwnTimers
    <3>2. ASSUME NEW m \in Timers, armed'[m], ~Spare
          PROVE  \E u \in Threads : TimerOf[u] = m /\ Timed(u)'
      BY <1>1, <2>2, <2>5, <3>2 DEF SignalInv, TimerInv
    <3> QED BY <2>4, <3>1, <3>2 DEF TimerInv
  <2> QED BY <1>1, <1>3, <2>4, <2>6 DEF SignalInv
<1>6. CASE StartTimerFails(t)
  <2>1. pc[t] = "start_timer" /\ pc'[t] = "idle" /\ running_eventset' = running_eventset
    BY <1>6 DEF StartTimerFails, Return, TypeOK
  <2>2. running_eventset[t] = NoSet
    BY <2>1 DEF CallInv, StartLabels
  <2>3. ~Timed(t) /\ Holds(t) /\ ~Holds(t)'
    BY <2>1, <2>2 DEF Timed, Holds
  <2>4. Users' = Users - 1 /\ Users > 0
    BY <1>1, <2>3, OneHolder
  <2>5. CountInv' /\ TimerInv'
    BY <1>1, <1>6, <2>3, <2>4, SignalGivenBack DEF StartTimerFails, timerVars
  <2> QED BY <1>1, <1>3, <2>5 DEF SignalInv
<1>7. CASE HwdStartFails(t)
  <2>1. pc[t] = "hwd_start" /\ pc'[t] = "idle" /\ running_eventset' = running_eventset
    BY <1>7 DEF HwdStartFails, Return, TypeOK
  <2>2. running_eventset[t] = NoSet
    BY <2>1 DEF CallInv, StartLabels
  <2>3. (Timed(t) <=> SwOverflow(cur[t])) /\ (Holds(t) <=> Timed(t)) /\ ~Timed(t)' /\ ~Holds(t)'
    BY <2>1, <2>2 DEF Timed, Holds
  <2>4. UNCHANGED <<using_signal, handler, ovalue, armed>>
    BY <1>7 DEF HwdStartFails, signalVars, timerVars
  <2>5. CASE ~Timed(t)
    <3>1. CountInv' /\ TimerInv'
      BY <1>1, <2>3, <2>4, <2>5, SignalKept
    <3> QED BY <1>1, <1>3, <3>1 DEF SignalInv
  <2>6. CASE Timed(t)
    <3>1. Users' = Users - 1 /\ Users > 0
      BY <1>1, <2>3, <2>6, OneHolder
    <3>2. Users \in Nat /\ using_signal \in Int
      BY UsersType DEF TypeOK
    <3>3. Spare' /\ CountInv'
      BY <2>4, <3>1, <3>2 DEF Spare, SignalInv, CountInv
    <3>4. TimerInv'
      BY <3>3 DEF TimerInv
    <3> QED BY <1>1, <1>3, <3>3, <3>4 DEF SignalInv
  <2> QED BY <2>5, <2>6
<1>8. CASE StopTimerStep(t)
  <2>1. pc[t] = "stop_timer" /\ pc'[t] = "stop_signal"
    BY <1>8 DEF StopTimerStep, Goto, TypeOK
  <2>2. Holds(t) /\ Holds(t)'
    BY <2>1 DEF Timed, Holds
  <2>3. Users' = Users /\ UNCHANGED <<using_signal, handler>>
    BY <1>1, <1>8, <2>2, OneHolder DEF StopTimerStep, signalVars
  <2>4. Spare' = Spare /\ CountInv'
    BY <2>3 DEF Spare, SignalInv, CountInv
  <2>5. /\ ovalue' = ovalue
        /\ \A m \in Timers : armed'[m] => IF m = TimerOf[t] THEN ovalue ELSE armed[m]
    BY <1>8 DEF StopTimerStep, StopTimer, TypeOK
  <2>6. TimerInv'
    BY <1>1, <2>4, <2>5 DEF SignalInv, TimerInv
  <2> QED BY <1>1, <1>3, <2>4, <2>6 DEF SignalInv
<1>9. CASE StopSignalStep(t)
  <2>1. pc[t] = "stop_signal" /\ pc'[t] = "hwd_stop"
    BY <1>9 DEF StopSignalStep, Goto, TypeOK
  <2>2. ~Timed(t) /\ Holds(t) /\ ~Holds(t)'
    BY <2>1 DEF Timed, Holds
  <2>3. Users' = Users - 1 /\ Users > 0
    BY <1>1, <2>2, OneHolder
  <2>4. CountInv' /\ TimerInv'
    BY <1>1, <1>9, <2>2, <2>3, SignalGivenBack DEF StopSignalStep, timerVars
  <2> QED BY <1>1, <1>3, <2>4 DEF SignalInv
<1>10. CASE \/ HwdStart(t) \/ StartState(t) \/ StartRunning(t)
            \/ HwdStop(t) \/ StopState(t) \/ StopRunning(t)
  <2>1. UNCHANGED <<using_signal, handler, ovalue, armed>>
    BY <1>10 DEF HwdStart, StartState, StartRunning, HwdStop, StopState, StopRunning,
                 signalVars, timerVars
  <2>2. (Timed(t)' <=> Timed(t)) /\ (Holds(t)' <=> Holds(t))
    <3>1. CASE HwdStart(t) \/ StartState(t)
      <4>1. /\ pc[t] \in {"hwd_start", "start_state"}
            /\ pc'[t] \in {"start_state", "start_running"} /\ cur'[t] = cur[t]
        BY <3>1 DEF HwdStart, StartState, Goto, TypeOK
      <4> QED BY <1>2, <4>1 DEF Timed, Holds
    <3>2. CASE StartRunning(t)
      <4>1. /\ pc[t] = "start_running" /\ pc'[t] = "idle"
            /\ running_eventset'[t] = cur[t] /\ cur[t] # NoSet
        BY <3>2 DEF StartRunning, Return, TypeOK, Ownership
      <4> QED BY <1>2, <4>1 DEF Timed, Holds
    <3>3. CASE HwdStop(t) \/ StopState(t)
      <4>1. /\ pc[t] \in {"hwd_stop", "stop_state"}
            /\ pc'[t] \in {"stop_state", "stop_running"}
        BY <3>3 DEF HwdStop, StopState, Goto, TypeOK
      <4> QED BY <4>1 DEF Timed, Holds
    <3>4. CASE StopRunning(t)
      <4>1. pc[t] = "stop_running" /\ pc'[t] = "idle" /\ running_eventset'[t] = NoSet
        BY <3>4 DEF StopRunning, Return, TypeOK
      <4> QED BY <4>1 DEF Timed, Holds
    <3> QED BY <1>10, <3>1, <3>2, <3>3, <3>4
  <2>3. CountInv' /\ TimerInv'
    BY <1>1, <2>1, <2>2, SignalKept
  <2> QED BY <1>1, <1>3, <2>3 DEF SignalInv
<1>11. CASE HwdStopFails(t)
  BY <1>11 DEF HwdStopFails, StopsWork
<1>12. CASE StopTimerFails(t)
  <2>1. /\ pc[t] = "stop_timer" /\ pc'[t] = "idle"
        /\ UNCHANGED <<running_eventset, using_signal, handler, ovalue, armed>>
    BY <1>12 DEF StopTimerFails, Return, TypeOK, signalVars, timerVars
  <2>2. running_eventset[t] = cur[t] /\ cur[t] # NoSet /\ SwOverflow(cur[t])
    BY <2>1 DEF CallInv, Ownership, StopLabels, SignalInv, StartInv
  <2>3. (Timed(t)' <=> Timed(t)) /\ (Holds(t)' <=> Holds(t))
    BY <1>2, <2>1, <2>2 DEF Timed, Holds
  <2>4. CountInv' /\ TimerInv'
    BY <1>1, <2>1, <2>3, SignalKept
  <2> QED BY <1>1, <1>3, <2>4 DEF SignalInv
<1> QED BY <1>4, <1>5, <1>6, <1>7, <1>8, <1>9, <1>10, <1>11, <1>12 DEF CallStep

-----------------------------------------------------------------------------
\* A call on a set.

\* Nobody runs, starts or stops the set.
Quiet(e) ==
  \A u \in Threads : running_eventset[u] # e /\ (pc[u] # "idle" => cur[u] # e)

LEMMA StoppedIsQuiet ==
  ASSUME RunInv, NEW t \in Threads, NEW e \in Sets, Owns(t, e), stoppedBit[e]
  PROVE  Quiet(e)
<1> USE DEF RunInv, TypeOK, Owns
<1>1. ASSUME NEW u \in Threads, running_eventset[u] = e PROVE FALSE
  <2>1. u = t
    BY <1>1 DEF Ownership
  <2>2. runningBit[e]
    BY <1>1, <2>1 DEF BitsInv
  <2> QED BY <2>2 DEF BitsInv
<1>2. ASSUME NEW u \in Threads, pc[u] # "idle", cur[u] = e PROVE FALSE
  BY <1>2 DEF Ownership
<1> QED BY <1>1, <1>2 DEF Quiet

LEMMA FreeIsQuiet ==
  ASSUME RunInv, NEW e \in Sets, master[e] = NoThread
  PROVE  Quiet(e)
BY DEF RunInv, Ownership, Quiet

\* The overflow attribute of a quiet set matters to nobody.
LEMMA QuietChange ==
  ASSUME TypeOK, StartInv, Ownership, NEW e \in Sets, Quiet(e),
         UNCHANGED <<pc, cur, running_eventset>>,
         \A d \in Sets \ {e} : overflowing'[d] = overflowing[d] /\ entry'[d] = entry[d]
  PROVE  /\ \A t \in Threads : (Timed(t)' <=> Timed(t)) /\ (Holds(t)' <=> Holds(t))
         /\ StartInv' /\ Holders' = Holders
<1>1. \A d \in Sets \ {e} : SwOverflow(d)' <=> SwOverflow(d)
  BY DEF SwOverflow
<1>2. ASSUME NEW t \in Threads
      PROVE  (Timed(t)' <=> Timed(t)) /\ (Holds(t)' <=> Holds(t))
  <2>1. pc[t] # "idle" => cur[t] \in Sets \ {e}
    BY DEF Quiet, Ownership
  <2>2. running_eventset[t] # NoSet => running_eventset[t] \in Sets \ {e}
    BY DEF Quiet, TypeOK
  <2>3. pc' = pc /\ cur' = cur /\ running_eventset' = running_eventset
    OBVIOUS
  <2> QED BY <1>1, <2>1, <2>2, <2>3 DEF Timed, Holds
<1>3. StartInv'
  <2>1. \A t \in Threads : pc[t] # "idle" => cur[t] \in Sets \ {e}
    BY DEF Quiet, Ownership
  <2> QED BY <1>1, <2>1 DEF StartInv
<1> QED BY <1>2, <1>3 DEF Holders

\* The sets with a hardware overflow, when one set changes.
LEMMA OneHwSet ==
  ASSUME NEW e \in Sets, \A d \in Sets \ {e} : entry'[d] = entry[d], Holders' = Holders
  PROVE  /\ entry[e] = "hw" /\ entry'[e] # "hw" => Users' = Users - 1 /\ Users > 0
         /\ entry[e] # "hw" /\ entry'[e] = "hw" => Users' = Users + 1
         /\ (entry[e] = "hw" <=> entry'[e] = "hw") => Users' = Users /\ HwSets' = HwSets
<1>1. ASSUME entry[e] = "hw", entry'[e] # "hw" PROVE Users' = Users - 1 /\ Users > 0
  <2>1. HwSets' = HwSets \ {e} /\ e \in HwSets
    BY <1>1 DEF HwSets
  <2>2. Cardinality(HwSets') = Cardinality(HwSets) - 1
    BY <2>1, UsersType, UsersGrow
  <2>3. Cardinality(HwSets) # 0
    BY <2>1, UsersType, FS_EmptySet
  <2> QED BY <2>2, <2>3, UsersType DEF Users
<1>2. ASSUME entry[e] # "hw", entry'[e] = "hw" PROVE Users' = Users + 1
  <2>1. HwSets' = HwSets \cup {e} /\ e \notin HwSets
    BY <1>2 DEF HwSets
  <2>2. Cardinality(HwSets') = Cardinality(HwSets) + 1
    BY <2>1, UsersType, UsersGrow
  <2> QED BY <2>2, UsersType DEF Users
<1>3. ASSUME entry[e] = "hw" <=> entry'[e] = "hw" PROVE Users' = Users /\ HwSets' = HwSets
  <2>1. HwSets' = HwSets
    BY <1>3 DEF HwSets
  <2> QED BY <2>1 DEF Users
<1> QED BY <1>1, <1>2, <1>3

\* A set that loses its entry; the count goes down if it was a hardware one.
LEMMA DropSignal ==
  ASSUME RunInv, SignalInv, NEW e \in Sets, Quiet(e), DropOverflow(e),
         UNCHANGED <<pc, cur, running_eventset, ovalue, armed>>
  PROVE  CountInv' /\ TimerInv' /\ StartInv'
<1> USE DEF RunInv
<1>1. /\ entry'[e] = "none"
      /\ \A d \in Sets \ {e} : overflowing'[d] = overflowing[d] /\ entry'[d] = entry[d]
  BY DEF DropOverflow, TypeOK
<1>2. /\ \A t \in Threads : (Timed(t)' <=> Timed(t)) /\ (Holds(t)' <=> Holds(t))
      /\ StartInv' /\ Holders' = Holders
  BY <1>1, QuietChange DEF SignalInv
<1>3. CASE entry[e] = "hw"
  <2>1. Users' = Users - 1 /\ Users > 0
    BY <1>1, <1>2, <1>3, OneHwSet
  <2>2. StopSignal
    BY <1>3 DEF DropOverflow
  <2> QED BY <1>2, <2>1, <2>2, SignalGivenBack
<1>4. CASE entry[e] # "hw"
  <2>1. HwSets' = HwSets
    BY <1>1, <1>2, <1>4, OneHwSet
  <2>2. UNCHANGED signalVars
    BY <1>4 DEF DropOverflow
  <2> QED BY <1>2, <2>1, <2>2, SignalKept DEF signalVars
<1> QED BY <1>3, <1>4

LEMMA SetOverflowSignal ==
  ASSUME RunInv, SignalInv, NEW t \in Threads, NEW e \in Sets, NEW mode \in {"hw", "sw"},
         SetOverflow(t, e, mode)
  PROVE  SignalInv'
<1> USE DEF RunInv
<1>1. Quiet(e) /\ UNCHANGED <<pc, cur, running_eventset, ovalue, armed>>
  BY StoppedIsQuiet DEF SetOverflow, timerVars, pcVars
<1>2. /\ entry[e] \in {"none", mode} /\ entry'[e] = mode
      /\ \A d \in Sets \ {e} : overflowing'[d] = overflowing[d] /\ entry'[d] = entry[d]
  BY DEF SetOverflow, TypeOK
<1>3. /\ \A u \in Threads : (Timed(u)' <=> Timed(u)) /\ (Holds(u)' <=> Holds(u))
      /\ StartInv' /\ Holders' = Holders
  BY <1>1, <1>2, QuietChange DEF SignalInv
<1>4. CASE mode = "hw"
  <2>1. Users' \in {Users, Users + 1}
    BY <1>2, <1>3, <1>4, OneHwSet
  <2>2. StartSignal /\ intEnable' = [intEnable EXCEPT ![e] = TRUE]
    BY <1>4 DEF SetOverflow
  <2>3. CountInv' /\ TimerInv'
    BY <1>1, <1>3, <2>1, <2>2, SignalTaken
  <2>4. EnableInv'
    BY <1>2, <1>4, <2>2 DEF SignalInv, EnableInv, TypeOK
  <2> QED BY <1>3, <2>3, <2>4 DEF SignalInv
<1>5. CASE mode = "sw"
  <2>1. HwSets' = HwSets
    BY <1>2, <1>3, <1>5, OneHwSet
  <2>2. UNCHANGED <<using_signal, handler, intEnable>>
    BY <1>5 DEF SetOverflow, signalVars
  <2>3. CountInv' /\ TimerInv'
    BY <1>1, <1>3, <2>1, <2>2, SignalKept
  <2>4. EnableInv'
    BY <1>2, <2>2, <1>5 DEF SignalInv, EnableInv, TypeOK
  <2> QED BY <1>3, <2>3, <2>4 DEF SignalInv
<1> QED BY <1>4, <1>5

LEMMA CallSignal ==
  ASSUME RunInv, SignalInv, NEW t \in Threads, NEW e \in Sets, Call(t, e)
  PROVE  SignalInv'
<1> USE DEF RunInv
<1>1. CASE Create(t, e)
  <2>1. Quiet(e) /\ UNCHANGED <<pc, cur, running_eventset, ovalue, armed, using_signal, handler>>
    BY <1>1, FreeIsQuiet DEF Create, timerVars, pcVars, signalVars
  <2>2. /\ entry'[e] = "none" /\ intEnable' = [intEnable EXCEPT ![e] = FALSE]
        /\ \A d \in Sets \ {e} : overflowing'[d] = overflowing[d] /\ entry'[d] = entry[d]
    BY <1>1 DEF Create, TypeOK
  <2>3. /\ \A u \in Threads : (Timed(u)' <=> Timed(u)) /\ (Holds(u)' <=> Holds(u))
        /\ StartInv' /\ Holders' = Holders
    BY <2>1, <2>2, QuietChange DEF SignalInv
  <2>4. Users' \in {Users, Users - 1}
    BY <2>2, <2>3, OneHwSet
  <2>5. Users \in Nat /\ using_signal \in Int
    BY UsersType DEF TypeOK
  <2>6. CountInv' /\ (Spare => Spare')
    BY <2>1, <2>4, <2>5 DEF SignalInv, CountInv, Spare
  <2>7. TimerInv'
    BY <2>1, <2>3, <2>6 DEF SignalInv, TimerInv
  <2>8. EnableInv'
    BY <2>2 DEF SignalInv, EnableInv, TypeOK
  <2> QED BY <2>3, <2>6, <2>7, <2>8 DEF SignalInv
<1>2. CASE AddEvent(t, e) \/ Destroy(t, e) \/ PAPI_reset(t, e)
  <2>1. /\ UNCHANGED <<pc, cur, running_eventset, ovalue, armed, using_signal, handler,
                       overflowing, entry>>
        /\ intEnable' \in {intEnable, [intEnable EXCEPT ![e] = FALSE]}
    BY <1>2 DEF AddEvent, Destroy, PAPI_reset, esiVars, timerVars, pcVars, signalVars
  <2>2. HwSets' = HwSets /\ StartInv'
    BY <2>1 DEF HwSets, SignalInv, StartInv, SwOverflow
  <2>3. \A u \in Threads : (Timed(u)' <=> Timed(u)) /\ (Holds(u)' <=> Holds(u))
    BY <2>1 DEF Timed, Holds, SwOverflow
  <2>4. CountInv' /\ TimerInv'
    BY <2>1, <2>2, <2>3, SignalKept
  <2>5. EnableInv'
    BY <2>1 DEF SignalInv, EnableInv, TypeOK
  <2> QED BY <2>2, <2>4, <2>5 DEF SignalInv
<1>3. CASE SetOverflow(t, e, "hw") \/ SetOverflow(t, e, "sw")
  BY <1>3, SetOverflowSignal
<1>4. CASE ClearOverflow(t, e)
  <2>1. Quiet(e) /\ UNCHANGED <<pc, cur, running_eventset, ovalue, armed>>
    BY <1>4, StoppedIsQuiet DEF ClearOverflow, timerVars, pcVars
  <2>2. CountInv' /\ TimerInv' /\ StartInv'
    BY <1>4, <2>1, DropSignal DEF ClearOverflow
  <2>3. EnableInv'
    BY <1>4 DEF ClearOverflow, DropOverflow, SignalInv, EnableInv, TypeOK
  <2> QED BY <2>2, <2>3 DEF SignalInv
<1>5. CASE RemoveEvent(t, e)
  <2>1. Quiet(e) /\ UNCHANGED <<pc, cur, running_eventset, ovalue, armed>>
    BY <1>5, StoppedIsQuiet DEF RemoveEvent, timerVars, pcVars
  <2>2. intEnable' = [intEnable EXCEPT ![e] = FALSE]
    BY <1>5 DEF RemoveEvent
  <2>3. CASE overflowing[e] /\ entry[e] # "none"
    <3>1. DropOverflow(e)
      BY <1>5, <2>3 DEF RemoveEvent
    <3>2. CountInv' /\ TimerInv' /\ StartInv'
      BY <2>1, <3>1, DropSignal
    <3>3. EnableInv'
      BY <2>2, <3>1 DEF DropOverflow, SignalInv, EnableInv, TypeOK
    <3> QED BY <3>2, <3>3 DEF SignalInv
  <2>4. CASE ~(overflowing[e] /\ entry[e] # "none")
    <3>1. UNCHANGED <<entry, overflowing, using_signal, handler>>
      BY <1>5, <2>4 DEF RemoveEvent, signalVars
    <3>2. HwSets' = HwSets /\ StartInv'
      BY <2>1, <3>1 DEF HwSets, SignalInv, StartInv, SwOverflow
    <3>3. \A u \in Threads : (Timed(u)' <=> Timed(u)) /\ (Holds(u)' <=> Holds(u))
      BY <2>1, <3>1 DEF Timed, Holds, SwOverflow
    <3>4. CountInv' /\ TimerInv'
      BY <2>1, <3>1, <3>2, <3>3, SignalKept
    <3>5. EnableInv'
      BY <2>2, <3>1 DEF SignalInv, EnableInv, TypeOK
    <3> QED BY <3>2, <3>4, <3>5 DEF SignalInv
  <2> QED BY <2>3, <2>4
<1>6. CASE PAPI_start(t, e) \/ PAPI_stop(t, e)
  <2>1. /\ UNCHANGED <<running_eventset, ovalue, armed, using_signal, handler,
                       overflowing, entry, intEnable>>
        /\ cur' = [cur EXCEPT ![t] = e] /\ pc[t] = "idle" /\ master[e] = t
    BY <1>6 DEF PAPI_start, PAPI_stop, Owns, esiVars, timerVars, signalVars
  <2>2. /\ HwSets' = HwSets /\ EnableInv'
        /\ \A d : SwOverflow(d)' <=> SwOverflow(d)
    BY <2>1 DEF HwSets, SignalInv, EnableInv, SwOverflow
  <2>3. \A u \in Threads \ {t} : pc'[u] = pc[u] /\ cur'[u] = cur[u]
    BY <1>6, <2>1 DEF PAPI_start, PAPI_stop, TypeOK
  <2>4. cur'[t] = e
    BY <2>1 DEF TypeOK
  <2>5. CASE PAPI_start(t, e)
    <3>1. /\ running_eventset[t] = NoSet
          /\ pc'[t] = IF SwOverflow(e) THEN "start_signal" ELSE "hwd_start"
      BY <2>5 DEF PAPI_start, TypeOK
    <3>2. StartInv'
      BY <2>2, <2>3, <2>4, <3>1 DEF SignalInv, StartInv
    <3>3. \A u \in Threads : (Timed(u)' <=> Timed(u)) /\ (Holds(u)' <=> Holds(u))
      BY <2>1, <2>2, <2>3, <2>4, <3>1 DEF Timed, Holds
    <3>4. CountInv' /\ TimerInv'
      BY <2>1, <2>2, <3>3, SignalKept
    <3> QED BY <2>2, <3>2, <3>4 DEF SignalInv
  <2>6. CASE PAPI_stop(t, e)
    <3>1. running_eventset[t] = e /\ e # NoSet
      BY <2>1, <2>6 DEF PAPI_stop, BitsInv
    <3>2. pc'[t] = (IF SwOverflow(e) THEN "stop_timer" ELSE "hwd_stop") /\ cur'[t] = e
      BY <2>6 DEF PAPI_stop, TypeOK
    <3>3. StartInv'
      BY <2>2, <2>3, <3>2 DEF SignalInv, StartInv
    <3>4. \A u \in Threads : (Timed(u)' <=> Timed(u)) /\ (Holds(u)' <=> Holds(u))
      BY <2>1, <2>2, <2>3, <3>1, <3>2 DEF Timed, Holds
    <3>5. CountInv' /\ TimerInv'
      BY <2>1, <2>2, <3>4, SignalKept
    <3> QED BY <2>2, <3>3, <3>5 DEF SignalInv
  <2> QED BY <1>6, <2>5, <2>6
<1> QED BY <1>1, <1>2, <1>3, <1>4, <1>5, <1>6 DEF Call

-----------------------------------------------------------------------------
LEMMA StepSignal ==
  OwnTimers /\ StopsWork /\ RunInv /\ SignalInv /\ [Next]_vars => SignalInv'
<1> SUFFICES ASSUME OwnTimers, StopsWork, RunInv, SignalInv, [Next]_vars PROVE SignalInv'
  OBVIOUS
<1>1. ASSUME NEW t \in Threads, CallStep(t) PROVE SignalInv'
  BY <1>1, CallStepSignal
<1>2. ASSUME NEW t \in Threads, NEW e \in Sets, Call(t, e) PROVE SignalInv'
  BY <1>2, CallSignal
<1>3. CASE \/ \E t \in Threads : CountEvent(t) \/ TimerTick(t) \/ PmcOverflow(t)
           \/ UNCHANGED vars
  <2>1. UNCHANGED <<pc, cur, running_eventset, ovalue, armed, using_signal, handler,
                    overflowing, entry, intEnable>>
    BY <1>3 DEF CountEvent, TimerTick, PmcOverflow, vars, esiVars, timerVars, pcVars, signalVars
  <2>2. HwSets' = HwSets /\ StartInv' /\ EnableInv'
    BY <2>1 DEF HwSets, SignalInv, StartInv, EnableInv, SwOverflow
  <2>3. \A u \in Threads : (Timed(u)' <=> Timed(u)) /\ (Holds(u)' <=> Holds(u))
    BY <2>1 DEF Timed, Holds, SwOverflow
  <2>4. CountInv' /\ TimerInv'
    BY <2>1, <2>2, <2>3, SignalKept
  <2> QED BY <2>2, <2>4 DEF SignalInv
<1> QED BY <1>1, <1>2, <1>3 DEF Next

\* No interval timer expires and no counter interrupts while SIGPROF has its
\* stock disposition, which would kill the process: the handler is taken away
\* (extras.c) only when the last user is gone, in whatever order threads start
\* and stop, and after starts that fail half way.
THEOREM HandlerThere == ASSUME OwnTimers, StopsWork PROVE Spec => []NoStockHandler
<1>1. Init => SignalInv
  BY InitSignalInv
<1>2. RunInv /\ SignalInv /\ [Next]_vars => SignalInv'
  BY StepSignal
<1>3. RunInv /\ SignalInv => NoStockHandler
  <2> SUFFICES ASSUME RunInv, SignalInv PROVE NoStockHandler
    OBVIOUS
  <2>1. Users \in Nat /\ using_signal \in Int
    BY UsersType DEF RunInv, TypeOK
  <2>2. ASSUME NEW m \in Timers, armed[m] PROVE handler
    <3>1. Spare \/ \E t \in Threads : Timed(t)
      BY <2>2 DEF SignalInv, TimerInv
    <3>2. CASE Spare
      BY <2>1, <3>2 DEF Spare, SignalInv, CountInv
    <3>3. CASE \E t \in Threads : Timed(t)
      <4>1. Cardinality(Holders) # 0
        BY <3>3, UsersType, FS_EmptySet DEF Holders, Holds
      <4> QED BY <2>1, <4>1, UsersType DEF Users, SignalInv, CountInv
    <3> QED BY <3>1, <3>2, <3>3
  <2>3. ASSUME NEW t \in Threads, ctx[t] # NoSet, intEnable[ctx[t]] PROVE handler
    <3>1. ctx[t] \in HwSets
      BY <2>3 DEF HwSets, SignalInv, EnableInv, RunInv, TypeOK
    <3>2. Cardinality(HwSets) # 0
      BY <3>1, UsersType, FS_EmptySet
    <3> QED BY <2>1, <3>2, UsersType DEF Users, SignalInv, CountInv
  <2> QED BY <2>2, <2>3 DEF NoStockHandler
<1> QED BY <1>1, <1>2, <1>3, Invariance, PTL DEF Spec
=============================================================================
