----------------------------- MODULE RunControl -----------------------------
(***************************************************************************)
(* The run-time life of PAPI EventSets: creation, the overflow attribute,  *)
(* PAPI_start, PAPI_stop and PAPI_reset, the process-wide SIGPROF handler  *)
(* and interval timer they share, and the overflow dispatcher that         *)
(* interrupts them (papi.c, extras.c, the P3 substrate perfctr-p3.c).      *)
(*                                                                         *)
(* A thread calls only on EventSets it is master of, as every program      *)
(* under ctests/ does; threads interleave between the steps of a call, and *)
(* a signal may arrive on a thread between any two of its own steps.       *)
(* An EventSet here has at most one event, so its overflow table has at    *)
(* most one entry.  Substrate 0 only (papi_num_substrates = 1).            *)
(***************************************************************************)
EXTENDS Integers, FiniteSets

CONSTANTS
  Threads,      \* threads known to the library
  Sets,         \* slots of the global EventSet map
  Timers,       \* ITIMER_PROF timers of the kernel
  TimerOf,      \* the timer setitimer acts on, per calling thread
  FailingCalls, \* system calls that may report an error
  Threshold,    \* overflow threshold, in events
  MaxCount,     \* bound: events counted between two starts
  MaxSignal,    \* bound: value of _papi_hwi_using_signal
  NoThread,     \* the master of an unused slot
  NoSet         \* a NULL EventSetInfo_t pointer

ASSUME RunControlAssumption ==
  /\ IsFiniteSet(Threads) /\ IsFiniteSet(Sets)
  /\ NoThread \notin Threads
  /\ NoSet \notin Sets
  /\ TimerOf \in [Threads -> Timers]
  /\ FailingCalls \subseteq {"setitimer", "vperfctr_control", "vperfctr_stop"}
  /\ Threshold \in Nat \ {0}
  /\ MaxCount \in Nat
  /\ MaxSignal \in Nat

VARIABLES
  \* EventSetInfo_t
  master,           \* ESI->master
  hasEvent,         \* ESI->NumberOfEvents = 1
  stoppedBit,       \* ESI->state & PAPI_STOPPED
  runningBit,       \* ESI->state & PAPI_RUNNING
  overflowing,      \* ESI->state & PAPI_OVERFLOWING
  entry,            \* the overflow table: empty, or its entry's flags
  intEnable,        \* PERF_INT_ENABLE in ESI->machdep
  deadline,         \* ESI->overflow.deadline[0]
  \* ThreadInfo_t and the thread's counters
  running_eventset, \* thread->running_eventset[0]
  ctx,              \* the EventSet programmed on the thread's counters
  live,             \* the counters are not suspended by an overflow
  count,            \* events counted by the EventSet since it was programmed
  \* process-wide
  using_signal,     \* _papi_hwi_using_signal
  handler,          \* SIGPROF is handled by _papi_hwd_dispatch_timer
  armed,            \* the interval timers that are running
  ovalue,           \* static ovalue: was a timer running when last replaced
  \* control
  pc, cur           \* what each thread executes, and on which EventSet

esiVars    == <<master, hasEvent, stoppedBit, runningBit, overflowing, entry,
                intEnable, deadline>>
hwVars     == <<ctx, live, count>>
signalVars == <<using_signal, handler>>
timerVars  == <<armed, ovalue>>
pcVars     == <<pc, cur>>
vars == <<esiVars, running_eventset, hwVars, signalVars, timerVars, pcVars>>

Labels == {"idle", "start_signal", "start_timer", "hwd_start", "start_state",
           "start_running", "stop_timer", "stop_signal", "hwd_stop",
           "stop_state", "stop_running"}

Init ==
  /\ master = [e \in Sets |-> NoThread]
  /\ hasEvent = [e \in Sets |-> FALSE]
  /\ stoppedBit = [e \in Sets |-> TRUE]
  /\ runningBit = [e \in Sets |-> FALSE]
  /\ overflowing = [e \in Sets |-> FALSE]
  /\ entry = [e \in Sets |-> "none"]
  /\ intEnable = [e \in Sets |-> FALSE]
  /\ deadline = [e \in Sets |-> 0]
  /\ running_eventset = [t \in Threads |-> NoSet]
  /\ ctx = [t \in Threads |-> NoSet]
  /\ live = [t \in Threads |-> TRUE]
  /\ count = [e \in Sets |-> 0]
  /\ using_signal = 0
  /\ handler = FALSE
  /\ armed = [m \in Timers |-> FALSE]
  /\ ovalue = FALSE
  /\ pc = [t \in Threads |-> "idle"]
  /\ cur = [t \in Threads |-> NoSet]

\* The calling thread t is outside the library and owns EventSet e.
Owns(t, e) == pc[t] = "idle" /\ master[e] = t

Goto(t, to) == pc' = [pc EXCEPT ![t] = to] /\ UNCHANGED cur

Return(t) == /\ pc' = [pc EXCEPT ![t] = "idle"]
             /\ cur' = [cur EXCEPT ![t] = NoSet]

SwOverflow(e) == overflowing[e] /\ entry[e] # "hw"

----------------------------------------------------------------------------
\* The SIGPROF reference count and the interval timer (extras.c).

\* Keeps the bound MaxSignal: no call that would count beyond it begins.
SignalRoom ==
  using_signal + Cardinality({t \in Threads : pc[t] = "start_signal"}) < MaxSignal

\* Bounds a stop that is retried after vperfctr_stop failed, which counts the
\* same signal down again: at most one below zero.
SignalFloor ==
  using_signal - Cardinality({t \in Threads : pc[t] \in {"stop_timer", "stop_signal"}})
    >= 0

\* _papi_hwi_start_signal: the first user installs the handler.
StartSignal ==
  /\ using_signal' = using_signal + 1
  /\ handler' = (handler \/ using_signal' = 1)

\* Mutant: the handler goes with the first user that leaves.
StopSignalFirst ==
  /\ using_signal' = using_signal - 1
  /\ handler' = FALSE

\* _papi_hwi_stop_signal: the last user restores the old disposition.
StopSignal ==
  /\ using_signal' = using_signal - 1
  /\ handler' = (handler /\ using_signal' # 0)

\* Mutant: the timer is left alone when the signal already has a user.
StartTimerOnce(t) ==
  /\ ovalue' = armed[TimerOf[t]]
  /\ armed' = [armed EXCEPT ![TimerOf[t]] = @ \/ using_signal = 1]

\* _papi_hwi_start_timer: setitimer saves what it replaces in the static ovalue.
StartTimer(t) ==
  /\ ovalue' = armed[TimerOf[t]]
  /\ armed' = [armed EXCEPT ![TimerOf[t]] = TRUE]

\* _papi_hwi_stop_timer: puts back whatever ovalue holds.
StopTimer(t) ==
  /\ armed' = [armed EXCEPT ![TimerOf[t]] = ovalue]
  /\ UNCHANGED ovalue

----------------------------------------------------------------------------
\* EventSets while they are stopped (papi.c, papi_internal.c).

\* PAPI_create_eventset by thread t in the free slot e.
Create(t, e) ==
  /\ pc[t] = "idle" /\ master[e] = NoThread
  /\ master' = [master EXCEPT ![e] = t]
  /\ hasEvent' = [hasEvent EXCEPT ![e] = FALSE]
  /\ stoppedBit' = [stoppedBit EXCEPT ![e] = TRUE]
  /\ runningBit' = [runningBit EXCEPT ![e] = FALSE]
  /\ overflowing' = [overflowing EXCEPT ![e] = FALSE]
  /\ entry' = [entry EXCEPT ![e] = "none"]
  /\ intEnable' = [intEnable EXCEPT ![e] = FALSE]
  /\ deadline' = [deadline EXCEPT ![e] = 0]
  /\ UNCHANGED <<running_eventset, hwVars, signalVars, timerVars, pcVars>>

\* PAPI_add_event: update_control_state reprograms without interrupts.
AddEvent(t, e) ==
  /\ Owns(t, e) /\ ~runningBit[e]
  /\ ~hasEvent[e]
  /\ ~(overflowing[e] /\ entry[e] # "none")
  /\ hasEvent' = [hasEvent EXCEPT ![e] = TRUE]
  /\ intEnable' = [intEnable EXCEPT ![e] = FALSE]
  /\ UNCHANGED <<master, stoppedBit, runningBit, overflowing, entry, deadline,
                 running_eventset, hwVars, signalVars, timerVars, pcVars>>

\* Mutant: the deadline is loaded the way the hardware counter is, negated.
SetOverflowNegated(t, e, mode) ==
  /\ Owns(t, e) /\ stoppedBit[e] /\ hasEvent[e]
  /\ entry[e] \in {"none", mode}
  /\ entry' = [entry EXCEPT ![e] = mode]
  /\ deadline' = [deadline EXCEPT ![e] = 1 - Threshold - 1]
  /\ overflowing' = [overflowing EXCEPT ![e] = ~@]
  /\ UNCHANGED <<master, hasEvent, stoppedBit, runningBit, running_eventset,
                 hwVars, timerVars, pcVars, signalVars, intEnable>>

\* PAPI_overflow with a positive threshold, for hardware ("hw") or forced
\* software ("sw") overflow.  A call for an event that already has an entry
\* still counts the signal up and still toggles the OVERFLOWING bit.
SetOverflow(t, e, mode) ==
  /\ Owns(t, e) /\ stoppedBit[e] /\ hasEvent[e]
  /\ entry[e] \in {"none", mode}
  /\ entry' = [entry EXCEPT ![e] = mode]
  /\ deadline' = [deadline EXCEPT ![e] = Threshold]
  /\ overflowing' = [overflowing EXCEPT ![e] = ~@]
  /\ IF mode = "hw"
     THEN SignalRoom /\ StartSignal /\ intEnable' = [intEnable EXCEPT ![e] = TRUE]
     ELSE UNCHANGED <<signalVars, intEnable>>
  /\ UNCHANGED <<master, hasEvent, stoppedBit, runningBit, running_eventset,
                 hwVars, timerVars, pcVars>>

\* The effect of PAPI_overflow(e, event, 0, ...) on an OVERFLOWING set.
DropOverflow(e) ==
  /\ entry' = [entry EXCEPT ![e] = "none"]
  /\ deadline' = [deadline EXCEPT ![e] = 0]
  /\ overflowing' = [overflowing EXCEPT ![e] = FALSE]
  /\ IF entry[e] = "hw" THEN StopSignal ELSE UNCHANGED signalVars

\* PAPI_overflow with threshold 0; refused unless the set is OVERFLOWING.
ClearOverflow(t, e) ==
  /\ Owns(t, e) /\ stoppedBit[e] /\ hasEvent[e]
  /\ overflowing[e] /\ entry[e] # "none"
  /\ DropOverflow(e)
  /\ intEnable' = [intEnable EXCEPT ![e] = FALSE]
  /\ UNCHANGED <<master, hasEvent, stoppedBit, runningBit, running_eventset,
                 hwVars, timerVars, pcVars>>

\* PAPI_remove_event: an OVERFLOWING set gives up its entry first; an entry
\* left in a set whose bit was toggled off stays in the table.
RemoveEvent(t, e) ==
  /\ Owns(t, e) /\ stoppedBit[e] /\ hasEvent[e]
  /\ IF overflowing[e] /\ entry[e] # "none"
     THEN DropOverflow(e)
     ELSE UNCHANGED <<entry, deadline, overflowing, signalVars>>
  /\ hasEvent' = [hasEvent EXCEPT ![e] = FALSE]
  /\ intEnable' = [intEnable EXCEPT ![e] = FALSE]
  /\ UNCHANGED <<master, stoppedBit, runningBit, running_eventset, hwVars,
                 timerVars, pcVars>>

\* PAPI_destroy_eventset of a stopped, empty set.
Destroy(t, e) ==
  /\ Owns(t, e) /\ stoppedBit[e] /\ ~hasEvent[e]
  /\ master' = [master EXCEPT ![e] = NoThread]
  /\ UNCHANGED <<hasEvent, stoppedBit, runningBit, overflowing, entry, intEnable,
                 deadline, running_eventset, hwVars, signalVars, timerVars, pcVars>>

----------------------------------------------------------------------------
\* PAPI_start, one action per step another thread or a signal can observe.

\* Mutant: the running_eventset test is left out.
PAPI_startAnyway(t, e) ==
  /\ Owns(t, e)
  /\ hasEvent[e]
  /\ SwOverflow(e) => SignalRoom
  /\ pc' = [pc EXCEPT ![t] = IF SwOverflow(e) THEN "start_signal" ELSE "hwd_start"]
  /\ cur' = [cur EXCEPT ![t] = e]
  /\ UNCHANGED <<esiVars, running_eventset, hwVars, signalVars, timerVars>>

\* The checks: only running_eventset is tested, never the set's own state.
PAPI_start(t, e) ==
  /\ Owns(t, e)
  /\ running_eventset[t] = NoSet
  /\ hasEvent[e]
  /\ SwOverflow(e) => SignalRoom
  /\ pc' = [pc EXCEPT ![t] = IF SwOverflow(e) THEN "start_signal" ELSE "hwd_start"]
  /\ cur' = [cur EXCEPT ![t] = e]
  /\ UNCHANGED <<esiVars, running_eventset, hwVars, signalVars, timerVars>>

StartSignalStep(t) ==
  /\ pc[t] = "start_signal"
  /\ StartSignal
  /\ Goto(t, "start_timer")
  /\ UNCHANGED <<esiVars, running_eventset, hwVars, timerVars>>

StartTimerStep(t) ==
  /\ pc[t] = "start_timer"
  /\ StartTimer(t)
  /\ Goto(t, "hwd_start")
  /\ UNCHANGED <<esiVars, running_eventset, hwVars, signalVars>>

\* setitimer failed: the reference taken in the step before is given back.
StartTimerFails(t) ==
  /\ "setitimer" \in FailingCalls
  /\ pc[t] = "start_timer"
  /\ StopSignal
  /\ Return(t)
  /\ UNCHANGED <<esiVars, running_eventset, hwVars, timerVars>>

\* vperfctr_control programs the counters of the thread and starts them at zero.
Program(t, e) ==
  /\ ctx' = [ctx EXCEPT ![t] = e]
  /\ live' = [live EXCEPT ![t] = TRUE]
  /\ count' = [count EXCEPT ![e] = 0]

HwdStart(t) ==
  /\ pc[t] = "hwd_start"
  /\ Program(t, cur[t])
  /\ Goto(t, "start_state")
  /\ UNCHANGED <<esiVars, running_eventset, signalVars, timerVars>>

\* The substrate refused: PAPI_start returns with timer and signal as they are.
HwdStartFails(t) ==
  /\ "vperfctr_control" \in FailingCalls
  /\ pc[t] = "hwd_start"
  /\ Return(t)
  /\ UNCHANGED <<esiVars, running_eventset, hwVars, signalVars, timerVars>>

StartState(t) ==
  /\ pc[t] = "start_state"
  /\ stoppedBit' = [stoppedBit EXCEPT ![cur[t]] = ~@]
  /\ runningBit' = [runningBit EXCEPT ![cur[t]] = TRUE]
  /\ Goto(t, "start_running")
  /\ UNCHANGED <<master, hasEvent, overflowing, entry, intEnable, deadline,
                 running_eventset, hwVars, signalVars, timerVars>>

StartRunning(t) ==
  /\ pc[t] = "start_running"
  /\ running_eventset' = [running_eventset EXCEPT ![t] = cur[t]]
  /\ Return(t)
  /\ UNCHANGED <<esiVars, hwVars, signalVars, timerVars>>

----------------------------------------------------------------------------
\* PAPI_stop and PAPI_reset.

\* The checks; only a set whose RUNNING bit is on can be stopped.
PAPI_stop(t, e) ==
  /\ Owns(t, e) /\ runningBit[e]
  /\ SwOverflow(e) => SignalFloor
  /\ pc' = [pc EXCEPT ![t] = IF SwOverflow(e) THEN "stop_timer" ELSE "hwd_stop"]
  /\ cur' = [cur EXCEPT ![t] = e]
  /\ UNCHANGED <<esiVars, running_eventset, hwVars, signalVars, timerVars>>

StopTimerStep(t) ==
  /\ pc[t] = "stop_timer"
  /\ StopTimer(t)
  /\ Goto(t, "stop_signal")
  /\ UNCHANGED <<esiVars, running_eventset, hwVars, signalVars>>

\* setitimer failed: nothing has been stopped, and the set runs on.
StopTimerFails(t) ==
  /\ "setitimer" \in FailingCalls
  /\ pc[t] = "stop_timer"
  /\ Return(t)
  /\ UNCHANGED <<esiVars, running_eventset, hwVars, signalVars, timerVars>>

StopSignalStep(t) ==
  /\ pc[t] = "stop_signal"
  /\ StopSignal
  /\ Goto(t, "hwd_stop")
  /\ UNCHANGED <<esiVars, running_eventset, hwVars, timerVars>>

\* Mutant: the counters are read and left running.
HwdStopReadOnly(t) ==
  /\ pc[t] = "hwd_stop"
  /\ Goto(t, "stop_state")
  /\ UNCHANGED <<esiVars, running_eventset, hwVars, signalVars, timerVars>>

\* The final read and vperfctr_stop.
HwdStop(t) ==
  /\ pc[t] = "hwd_stop"
  /\ ctx' = [ctx EXCEPT ![t] = NoSet]
  /\ Goto(t, "stop_state")
  /\ UNCHANGED <<esiVars, running_eventset, live, count, signalVars, timerVars>>

\* vperfctr_stop failed: the set stays RUNNING, its timer and signal are gone.
HwdStopFails(t) ==
  /\ "vperfctr_stop" \in FailingCalls
  /\ pc[t] = "hwd_stop"
  /\ Return(t)
  /\ UNCHANGED <<esiVars, running_eventset, hwVars, signalVars, timerVars>>

StopState(t) ==
  /\ pc[t] = "stop_state"
  /\ runningBit' = [runningBit EXCEPT ![cur[t]] = ~@]
  /\ stoppedBit' = [stoppedBit EXCEPT ![cur[t]] = TRUE]
  /\ Goto(t, "stop_running")
  /\ UNCHANGED <<master, hasEvent, overflowing, entry, intEnable, deadline,
                 running_eventset, hwVars, signalVars, timerVars>>

StopRunning(t) ==
  /\ pc[t] = "stop_running"
  /\ running_eventset' = [running_eventset EXCEPT ![t] = NoSet]
  /\ Return(t)
  /\ UNCHANGED <<esiVars, hwVars, signalVars, timerVars>>

\* PAPI_reset of a running set: hwd_reset is hwd_start on this substrate.  The
\* overflow deadline is left where it was.
PAPI_reset(t, e) ==
  /\ Owns(t, e) /\ runningBit[e]
  /\ \/ Program(t, e)
     \/ /\ "vperfctr_control" \in FailingCalls
        /\ \/ UNCHANGED ctx
           \/ ctx' = [ctx EXCEPT ![t] = NoSet]
        /\ UNCHANGED <<live, count>>
  /\ UNCHANGED <<esiVars, running_eventset, signalVars, timerVars, pcVars>>

----------------------------------------------------------------------------
\* The hardware and the signals it raises.

\* The programmed counters count one more event.
CountEvent(t) ==
  /\ ctx[t] # NoSet /\ live[t]
  /\ count[ctx[t]] < MaxCount
  /\ count' = [count EXCEPT ![ctx[t]] = @ + 1]
  /\ UNCHANGED <<esiVars, running_eventset, ctx, live, signalVars, timerVars, pcVars>>

\* _papi_hwi_dispatch_overflow_signal looks no further unless this holds.
Dispatches(t) ==
  /\ running_eventset[t] # NoSet
  /\ overflowing[running_eventset[t]]

\* SIGPROF from the interval timer.  On a software set the deadline that was
\* passed is moved on when the user's handler is called; on a hardware set the
\* dispatcher takes the signal for an overflow and resumes the counters.
TimerTick(t) ==
  /\ armed[TimerOf[t]] /\ handler
  /\ Dispatches(t)
  /\ LET e == running_eventset[t]
     IN IF entry[e] = "hw"
        THEN live' = [live EXCEPT ![t] = TRUE] /\ UNCHANGED deadline
        ELSE /\ count[e] >= deadline[e]
             /\ deadline' = [deadline EXCEPT ![e] = count[e] + Threshold]
             /\ UNCHANGED live
  /\ UNCHANGED <<master, hasEvent, stoppedBit, runningBit, overflowing, entry,
                 intEnable, running_eventset, ctx, count, signalVars, timerVars,
                 pcVars>>

\* A counter with PERF_INT_ENABLE overflows: the kernel suspends all counters
\* of the thread and raises SIGPROF; only a dispatch that gets as far as the
\* OVERFLOW_HARDWARE test makes _papi_hwd_dispatch_timer resume them.
PmcOverflow(t) ==
  /\ ctx[t] # NoSet /\ live[t] /\ intEnable[ctx[t]] /\ handler
  /\ live' = [live EXCEPT ![t] =
                Dispatches(t) /\ entry[running_eventset[t]] = "hw"]
  /\ UNCHANGED <<esiVars, running_eventset, ctx, count, signalVars, timerVars, pcVars>>

----------------------------------------------------------------------------
\* The steps of a call in progress.
CallStep(t) ==
  \/ StartSignalStep(t) \/ StartTimerStep(t) \/ StartTimerFails(t)
  \/ HwdStart(t) \/ HwdStartFails(t) \/ StartState(t) \/ StartRunning(t)
  \/ StopTimerStep(t) \/ StopTimerFails(t) \/ StopSignalStep(t)
  \/ HwdStop(t) \/ HwdStopFails(t) \/ StopState(t) \/ StopRunning(t)

\* The calls a thread may make on a set.
Call(t, e) ==
  \/ Create(t, e) \/ AddEvent(t, e) \/ SetOverflow(t, e, "hw")
  \/ SetOverflow(t, e, "sw") \/ ClearOverflow(t, e) \/ RemoveEvent(t, e)
  \/ Destroy(t, e) \/ PAPI_start(t, e) \/ PAPI_stop(t, e) \/ PAPI_reset(t, e)

Next ==
  \E t \in Threads :
    \/ CallStep(t)
    \/ \E e \in Sets : Call(t, e)
    \/ CountEvent(t) \/ TimerTick(t) \/ PmcOverflow(t)

Spec == Init /\ [][Next]_vars

\* A thread inside the library runs on, and an armed timer expires again and
\* again; nothing makes the program call, or the counters count.
Fairness == \A t \in Threads : WF_vars(CallStep(t)) /\ WF_vars(TimerTick(t))

FairSpec == Spec /\ Fairness

----------------------------------------------------------------------------
TypeOK ==
  /\ master \in [Sets -> Threads \cup {NoThread}]
  /\ hasEvent \in [Sets -> BOOLEAN]
  /\ stoppedBit \in [Sets -> BOOLEAN]
  /\ runningBit \in [Sets -> BOOLEAN]
  /\ overflowing \in [Sets -> BOOLEAN]
  /\ entry \in [Sets -> {"none", "sw", "hw"}]
  /\ intEnable \in [Sets -> BOOLEAN]
  /\ deadline \in [Sets -> Nat]
  /\ running_eventset \in [Threads -> Sets \cup {NoSet}]
  /\ ctx \in [Threads -> Sets \cup {NoSet}]
  /\ live \in [Threads -> BOOLEAN]
  /\ count \in [Sets -> Nat]
  /\ using_signal \in Int
  /\ handler \in BOOLEAN
  /\ armed \in [Timers -> BOOLEAN]
  /\ ovalue \in BOOLEAN
  /\ pc \in [Threads -> Labels]
  /\ cur \in [Threads -> Sets \cup {NoSet}]

\* Between calls the three records of "running" agree: a set's RUNNING and
\* STOPPED bits are complementary, and the RUNNING sets of an idle thread are
\* exactly the one its running_eventset points to, so PAPI_start's single test
\* of running_eventset keeps two sets from running on one thread.
RunStateAgrees ==
  \A t \in Threads : pc[t] = "idle" =>
    \A e \in Sets : master[e] = t =>
      /\ stoppedBit[e] = ~runningBit[e]
      /\ runningBit[e] <=> running_eventset[t] = e

\* The kernel never finds SIGPROF with its stock disposition: whatever timer is
\* armed or counter interrupts, the dispatcher is installed.
NoStockHandler ==
  /\ (\E m \in Timers : armed[m]) => handler
  /\ \A t \in Threads : ctx[t] # NoSet /\ intEnable[ctx[t]] => handler

\* Counters go from one EventSet to another only through a stop: no start
\* reprograms the counters while a set is still counting on them.
CountersNotStolen ==
  [][\A t \in Threads : ctx[t] # NoSet => ctx'[t] \in {ctx[t], NoSet}]_vars

\* A software overflow that is due on a running set is eventually delivered to
\* the handler, unless the program stops or resets the set first.
Due(e) == runningBit[e] /\ SwOverflow(e) /\ count[e] >= deadline[e]
DueIsServed == \A e \in Sets : Due(e) ~> ~Due(e)

\* Between calls, the set a thread is running is on its counters and they are
\* not left suspended: every overflow signal ends with "resume interrupting
\* counters" (perfctr-p3.c:658).
RunningSetCounts ==
  \A t \in Threads : pc[t] = "idle" /\ running_eventset[t] # NoSet =>
    ctx[t] = running_eventset[t] /\ live[t]
=============================================================================
