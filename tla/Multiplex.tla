------------------------------ MODULE Multiplex ------------------------------
(***************************************************************************)
(* Software multiplexing (multiplex.c) of EventSets that share the         *)
(* counters of their thread.  Each thread keeps a list of master events,   *)
(* each with an EventSet of its own, used by any number of MPX_EventSets;  *)
(* the SIGPROF handler stops the current master event and starts the next  *)
(* active one.  All EventSets of the thread are multiplexed; the counts,   *)
(* which are extrapolated, are left out.                                   *)
(*                                                                         *)
(* Between mpx_hold and mpx_release a thread takes no tick and shares      *)
(* nothing another thread writes: such a stretch is one action.  Each      *)
(* PAPI_start and PAPI_stop of a master event may fail, because            *)
(* vperfctr_control or vperfctr_stop does; the starts outside the handler  *)
(* are asserted to succeed, and a program they fail in ends.               *)
(***************************************************************************)
EXTENDS Integers, SequencesExt

CONSTANTS
  Threads,    \* threads that multiplex
  Sets,       \* multiplexed EventSets
  Events,     \* event codes
  Timers,     \* ITIMER_PROF timers of the kernel
  MasterOf,   \* the thread that created an EventSet
  TimerOf,    \* the timer setitimer acts on, per calling thread
  MaxDegree,  \* PAPI_MPX_DEF_DEG: events in a multiplexed EventSet
  MaxActive,  \* bound: starts a master event is active for
  NoEvent,    \* a NULL MasterEvent pointer
  Freed,      \* a master event that was freed
  NoSet       \* no EventSet

ASSUME MultiplexAssumption ==
  /\ IsFiniteSet(Sets)
  /\ MasterOf \in [Sets -> Threads]
  /\ TimerOf \in [Threads -> Timers]
  /\ MaxDegree \in Nat
  /\ MaxActive \in Nat
  /\ NoEvent \notin Events /\ Freed \notin Events \cup {NoEvent}
  /\ NoSet \notin Sets

VARIABLES
  \* MPX_EventSet and the EventSetInfo_t it belongs to
  mev,              \* mpx_events->mev, as a set of event codes
  status,           \* mpx_events->status = MPX_RUNNING
  stoppedBit,       \* ESI->state & PAPI_STOPPED
  runningBit,       \* ESI->state & PAPI_RUNNING
  \* Threadlist and its master events
  master_events,    \* the list at thread->head
  uses, active,     \* reference counts of the thread's master events
  cur_event,        \* thread->cur_event
  running_eventset, \* the master event whose EventSet runs on the thread
  stopFailed,       \* history: in which threads vperfctr_stop has failed
  \* signals
  held,             \* MPX_SIGNAL is blocked in the thread
  handler,          \* SIGPROF is handled by mpx_handler
  armed,            \* the interval timers that are running
  \* control
  pc, cur           \* what each thread executes, and on which EventSet

setVars    == <<mev, status, stoppedBit, runningBit>>
masterVars == <<master_events, uses, active>>
turnVars   == <<cur_event, running_eventset, stopFailed>>
timerVars  == <<handler, armed>>
pcVars     == <<pc, cur>>
vars == <<setVars, masterVars, turnVars, held, timerVars, pcVars>>

Labels == {"idle", "starting", "startup", "aborted"}

\* After PAPI_multiplex_init, which leaves the signal held in the thread that
\* called it; a thread created later inherits its creator's mask.
Init ==
  /\ mev = [s \in Sets |-> {}]
  /\ status = [s \in Sets |-> FALSE]
  /\ stoppedBit = [s \in Sets |-> TRUE]
  /\ runningBit = [s \in Sets |-> FALSE]
  /\ master_events = [t \in Threads |-> <<>>]
  /\ uses = [t \in Threads |-> [c \in Events |-> 0]]
  /\ active = [t \in Threads |-> [c \in Events |-> 0]]
  /\ cur_event = [t \in Threads |-> NoEvent]
  /\ running_eventset = [t \in Threads |-> NoEvent]
  /\ stopFailed = [t \in Threads |-> FALSE]
  /\ held \in [Threads -> BOOLEAN]
  /\ handler = FALSE
  /\ armed = [m \in Timers |-> FALSE]
  /\ pc = [t \in Threads |-> "idle"]
  /\ cur = [t \in Threads |-> NoSet]

Owns(t, s) == pc[t] = "idle" /\ MasterOf[s] = t

Goto(t, to) == pc' = [pc EXCEPT ![t] = to]

Release(t) == held' = [held EXCEPT ![t] = FALSE]

\* Counts up or down the events in S.
Shifted(counts, S, by) == [c \in Events |-> IF c \in S THEN counts[c] + by ELSE counts[c]]

\* The next active master event after the current one, round the list.
NextActive(t, act) ==
  LET list == master_events[t]
      here == CHOOSE i \in DOMAIN list : list[i] = cur_event[t]
      at(i) == list[IF here + i > Len(list) THEN here + i - Len(list) ELSE here + i]
      found == {i \in 1..Len(list) - 1 : act[at(i)] > 0}
  IN IF found = {} THEN NoEvent ELSE at(Min(found))

----------------------------------------------------------------------------
\* Events of a stopped set.

\* Mutant: a master event that is in the list already is not counted.
AddEventUncounted(t, s, c) ==
  /\ Owns(t, s) /\ ~runningBit[s]
  /\ c \notin mev[s] /\ Cardinality(mev[s]) < MaxDegree
  /\ mev' = [mev EXCEPT ![s] = @ \cup {c}]
  /\ uses' = [uses EXCEPT ![t][c] = 1]
  /\ IF c \in ToSet(master_events[t])
     THEN UNCHANGED <<master_events, active>>
     ELSE /\ master_events' = [master_events EXCEPT ![t] = <<c>> \o @]
          /\ active' = [active EXCEPT ![t][c] = 0]
  /\ Release(t)
  /\ UNCHANGED <<status, stoppedBit, runningBit, turnVars, timerVars, pcVars>>

\* PAPI_add_event: mpx_add_event links the set to the thread's master event of
\* that code, which it creates at the head of the list if there is none.
AddEvent(t, s, c) ==
  /\ Owns(t, s) /\ ~runningBit[s]
  /\ c \notin mev[s] /\ Cardinality(mev[s]) < MaxDegree
  /\ mev' = [mev EXCEPT ![s] = @ \cup {c}]
  /\ uses' = [uses EXCEPT ![t][c] = @ + 1]
  /\ IF c \in ToSet(master_events[t])
     THEN UNCHANGED <<master_events, active>>
     ELSE /\ master_events' = [master_events EXCEPT ![t] = <<c>> \o @]
          /\ active' = [active EXCEPT ![t][c] = 0]
  /\ Release(t)
  /\ UNCHANGED <<status, stoppedBit, runningBit, turnVars, timerVars, pcVars>>

\* The list without the events outside S, in the same order: a set of one.
Kept(list, S) ==
  {l \in SeqOf(S, Len(list)) :
     /\ ToSet(l) = ToSet(list) \cap S
     /\ \A i, j \in DOMAIN l, m, n \in DOMAIN list :
          i < j /\ l[i] = list[m] /\ l[j] = list[n] => m < n}

\* The master events of S lose a user, and those without one leave the list
\* (mpx_remove_unused); the assertion "if it's no longer used, it should not be
\* active" comes before they do.  If the EventSet of one still runs, neither
\* PAPI_cleanup_eventset nor PAPI_destroy_eventset takes it away.
Unuse(t, S) ==
  LET left == Shifted(uses[t], S, -1)
      asserted == \A c \in S : left[c] = 0 => active[t][c] = 0
      used == {c \in Events : left[c] # 0}
  IN /\ uses' = [uses EXCEPT ![t] = left]
     /\ IF asserted
        THEN /\ \E list \in Kept(master_events[t], used) :
                  master_events' = [master_events EXCEPT ![t] = list]
             /\ running_eventset' = [running_eventset EXCEPT
                  ![t] = IF @ \in Events \ used THEN Freed ELSE @]
             /\ Release(t)
             /\ UNCHANGED pc
        ELSE Goto(t, "aborted") /\ UNCHANGED <<master_events, running_eventset, held>>
     /\ UNCHANGED <<active, cur_event, stopFailed, timerVars, cur>>

\* PAPI_remove_event: mpx_delete_one_event.
RemoveEvent(t, s, c) ==
  /\ Owns(t, s) /\ stoppedBit[s]
  /\ c \in mev[s]
  /\ mev' = [mev EXCEPT ![s] = @ \ {c}]
  /\ Unuse(t, {c})
  /\ UNCHANGED <<status, stoppedBit, runningBit>>

\* Mutant: every master event of the thread is given up, not the set's own.
MPX_cleanupAll(t, s) ==
  /\ Owns(t, s) /\ ~runningBit[s] /\ ~status[s]
  /\ mev[s] # {}
  /\ mev' = [mev EXCEPT ![s] = {}]
  /\ Unuse(t, Events)
  /\ UNCHANGED <<status, stoppedBit, runningBit>>

\* PAPI_cleanup_eventset: MPX_cleanup gives up all events of the set.
MPX_cleanup(t, s) ==
  /\ Owns(t, s) /\ ~runningBit[s] /\ ~status[s]
  /\ mev[s] # {}
  /\ mev' = [mev EXCEPT ![s] = {}]
  /\ Unuse(t, mev[s])
  /\ UNCHANGED <<status, stoppedBit, runningBit>>

----------------------------------------------------------------------------
\* Starting and stopping.

\* PAPI_start of a multiplexed EventSet: it tests running_eventset only, and
\* does so before it holds the signal.
PAPI_start(t, s) ==
  /\ Owns(t, s)
  /\ running_eventset[t] = NoEvent
  /\ mev[s] # {}
  /\ \A c \in mev[s] : active[t][c] < MaxActive
  /\ Goto(t, "starting")
  /\ cur' = [cur EXCEPT ![t] = s]
  /\ UNCHANGED <<setVars, masterVars, turnVars, held, timerVars>>

\* MPX_start up to the mpx_release: activates the events of the set and, unless
\* the thread has a current event, makes one of them, at random, current.  That
\* this one starts is asserted.
MPX_start(t, starts) ==
  LET events == mev[cur[t]]
      first == cur_event[t] = NoEvent
      runs == running_eventset[t] = NoEvent /\ starts
  IN /\ pc[t] = "starting"
     /\ active' = [active EXCEPT ![t] = Shifted(@, events, 1)]
     /\ status' = [status EXCEPT ![cur[t]] = TRUE]
     /\ IF first
        THEN \E c \in events :
               /\ cur_event' = [cur_event EXCEPT ![t] = c]
               /\ running_eventset' = [running_eventset EXCEPT ![t] = IF runs THEN c ELSE @]
        ELSE UNCHANGED <<cur_event, running_eventset>>
     /\ Release(t)
     /\ Goto(t, IF first => runs THEN "startup" ELSE "aborted")
     /\ UNCHANGED <<mev, stoppedBit, runningBit, master_events, uses, stopFailed,
                    timerVars, cur>>

\* mpx_startup_itimer, and back in PAPI_start the state of the EventSet.  The
\* handler, installed just before the timer, stays for ever: nobody can tell the
\* two apart.  A timer that was running begins its interval anew.
Startup(t) ==
  /\ pc[t] = "startup"
  /\ handler' = TRUE
  /\ armed' = [armed EXCEPT ![TimerOf[t]] = TRUE]
  /\ stoppedBit' = [stoppedBit EXCEPT ![cur[t]] = ~@]
  /\ runningBit' = [runningBit EXCEPT ![cur[t]] = TRUE]
  /\ Goto(t, "idle")
  /\ cur' = [cur EXCEPT ![t] = NoSet]
  /\ UNCHANGED <<mev, status, masterVars, turnVars, held>>

\* Mutant: the current event is stopped although another set needs it.
NoLongerNeededShared(t, s, act) == cur_event[t] \in mev[s]

\* The set has the current event, and nobody else needs it.
NoLongerNeeded(t, s, act) == cur_event[t] \in mev[s] /\ act[cur_event[t]] = 0

\* Mutant: the timer is shut down whenever the current event is stopped.
ShutdownTimerAlways(t, next) == armed' = [armed EXCEPT ![TimerOf[t]] = FALSE]

\* mpx_shutdown_itimer, when no master event is left to take its turn.
ShutdownTimer(t, next) ==
  armed' = [armed EXCEPT ![TimerOf[t]] = @ /\ next # NoEvent]

\* The PAPI_stop of the current event succeeds.
StopsCurrent(t, stops) == running_eventset[t] = cur_event[t] /\ stops

\* What runs after that PAPI_stop, and after a PAPI_start of event c, which is
\* refused while anything does.
Left(t, stops) == IF StopsCurrent(t, stops) THEN NoEvent ELSE running_eventset[t]
Started(left, c, starts) == IF left = NoEvent /\ starts THEN c ELSE left

Blamed(t, stops) ==
  stopFailed' = [stopFailed EXCEPT ![t] = @ \/ (running_eventset[t] = cur_event[t] /\ ~stops)]

\* PAPI_stop: MPX_stop deactivates the events of the set; the current event, if
\* nobody needs it any more, is stopped and makes way for the next active one,
\* and that this one starts is asserted.  If there is none, what the PAPI_stop
\* of the current event returned is what the call returns; and if that is an
\* error, the EventSet stays RUNNING.
MPX_stop(t, s, stops, starts) ==
  LET act == Shifted(active[t], mev[s], -1)
      last == NoLongerNeeded(t, s, act)
      next == NextActive(t, act)
      left == Left(t, stops)
      fails == last /\ ~StopsCurrent(t, stops) /\ next = NoEvent
      aborts == last /\ next # NoEvent /\ ~(left = NoEvent /\ starts)
  IN /\ Owns(t, s) /\ runningBit[s] /\ status[s]
     /\ active' = [active EXCEPT ![t] = act]
     /\ IF last
        THEN /\ cur_event' = [cur_event EXCEPT ![t] = next]
             /\ running_eventset' = [running_eventset EXCEPT ![t] = Started(left, next, starts)]
             /\ Blamed(t, stops)
             /\ ShutdownTimer(t, next)
        ELSE UNCHANGED <<turnVars, armed>>
     /\ status' = [status EXCEPT ![s] = FALSE]
     /\ runningBit' = [runningBit EXCEPT ![s] = fails]
     /\ stoppedBit' = [stoppedBit EXCEPT ![s] = @ \/ ~fails]
     /\ Release(t)
     /\ IF aborts THEN Goto(t, "aborted") ELSE UNCHANGED pc
     /\ UNCHANGED <<mev, master_events, uses, handler, cur>>

----------------------------------------------------------------------------
\* Mutant: an event that could not be stopped is tried again and again.
TurnWhenRun(t, stopped, long) ==
  IF stopped /\ long THEN NextActive(t, active[t]) ELSE NoEvent

\* The event whose turn it is after this slice, if it is another's: after a slice
\* long enough to measure in (MPX_MINCYC), or when the stop failed, be it that the
\* current event had not been started.
Turn(t, stopped, long) ==
  IF stopped => long THEN NextActive(t, active[t]) ELSE NoEvent

\* mpx_handler: stops the current event, makes the next one current, and starts
\* what is current then.
Tick(t, long, stops, starts) ==
  LET next == Turn(t, StopsCurrent(t, stops), long)
  IN /\ armed[TimerOf[t]] /\ handler /\ ~held[t]
     /\ cur_event[t] # NoEvent
     /\ cur_event' = [cur_event EXCEPT ![t] = IF next # NoEvent THEN next ELSE @]
     /\ running_eventset' = [running_eventset EXCEPT ![t] =
          Started(Left(t, stops), cur_event'[t], starts /\ active[t][cur_event'[t]] > 0)]
     /\ Blamed(t, stops)
     /\ UNCHANGED <<setVars, masterVars, held, timerVars, pcVars>>

Call(t, s) ==
  \/ \E c \in Events : AddEvent(t, s, c) \/ RemoveEvent(t, s, c)
  \/ MPX_cleanup(t, s) \/ PAPI_start(t, s)
  \/ \E stops, starts \in BOOLEAN : MPX_stop(t, s, stops, starts)

\* An assertion that fails ends the program.
Alive == \A t \in Threads : pc[t] # "aborted"

Next ==
  /\ Alive
  /\ \E t \in Threads :
       \/ \E starts \in BOOLEAN : MPX_start(t, starts)
       \/ Startup(t)
       \/ \E s \in Sets : Call(t, s)
       \/ \E long, stops, starts \in BOOLEAN : Tick(t, long, stops, starts)

Spec == Init /\ [][Next]_vars

\* setitimer on a timer that is running: t waits a full interval again.
Again(t) ==
  \E u \in Threads : TimerOf[u] = TimerOf[t] /\ armed[TimerOf[t]] /\ Startup(u)

\* A thread inside the library runs on.  An armed timer expires again and again
\* on the CPU time of its thread, so that slices are long again and again, unless
\* the program sets it anew each time before it does.
Fairness ==
  \A t \in Threads :
    /\ WF_vars(Alive /\ ((\E starts \in BOOLEAN : MPX_start(t, starts)) \/ Startup(t)))
    /\ \/ WF_vars(Alive /\ \E stops, starts \in BOOLEAN : Tick(t, TRUE, stops, starts))
       \/ []<><<Again(t)>>_vars

FairSpec == Spec /\ Fairness

----------------------------------------------------------------------------
TypeOK ==
  /\ mev \in [Sets -> SUBSET Events]
  /\ status \in [Sets -> BOOLEAN]
  /\ stoppedBit \in [Sets -> BOOLEAN]
  /\ runningBit \in [Sets -> BOOLEAN]
  /\ master_events \in [Threads -> Seq(Events)]
  /\ uses \in [Threads -> [Events -> Nat]]
  /\ active \in [Threads -> [Events -> Nat]]
  /\ cur_event \in [Threads -> Events \cup {NoEvent}]
  /\ running_eventset \in [Threads -> Events \cup {NoEvent, Freed}]
  /\ stopFailed \in [Threads -> BOOLEAN]
  /\ held \in [Threads -> BOOLEAN]
  /\ handler \in BOOLEAN
  /\ armed \in [Timers -> BOOLEAN]
  /\ pc \in [Threads -> Labels]
  /\ cur \in [Threads -> Sets \cup {NoSet}]

\* A master event lives exactly as long as an EventSet of its thread uses it:
\* it is in the list once, and counted once per user, so that mpx_remove_unused
\* frees none that an EventSet still points to.
UsesMatch ==
  \A t \in Threads : Alive =>
    /\ IsInjective(master_events[t])
    /\ \A c \in Events :
         LET users == {s \in Sets : MasterOf[s] = t /\ c \in mev[s]}
         IN /\ uses[t][c] = Cardinality(users)
            /\ c \in ToSet(master_events[t]) <=> users # {}

\* A thread has a current event exactly while some master event is active, and
\* that one is active and in the list, whichever starts and stops fail: the
\* handler, MPX_start and MPX_read dereference cur_event on this assumption.
\* And nothing else is on the thread's counters, as long as no vperfctr_stop has
\* failed.
CurrentIsActive ==
  \A t \in Threads : Alive =>
    /\ cur_event[t] = NoEvent <=> \A c \in Events : active[t][c] = 0
    /\ cur_event[t] # NoEvent =>
         active[t][cur_event[t]] > 0 /\ cur_event[t] \in ToSet(master_events[t])
    /\ ~stopFailed[t] => running_eventset[t] \in {cur_event[t], NoEvent}

\* While an event of the thread is current and no start is under way, ticks
\* reach the handler: "Restore the timer (for other event sets that may be
\* running)" (multiplex.c:1045).
TicksArrive ==
  \A t \in Threads : pc[t] = "idle" /\ cur_event[t] # NoEvent =>
    armed[TimerOf[t]] /\ handler /\ ~held[t]

\* Every active master event becomes the current one, unless it is deactivated
\* first, whatever sets of the thread are started, stopped and changed meanwhile
\* and whatever starts and stops fail; only a program that for ever starts sets
\* faster than the timer expires can hold the turns up.
TurnComes ==
  \A t \in Threads :
    \/ []<><<Again(t)>>_vars
    \/ \A c \in Events :
         active[t][c] > 0 ~> (cur_event[t] = c \/ active[t][c] = 0 \/ ~Alive)
=============================================================================
