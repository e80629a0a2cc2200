------------------------------ MODULE HighLevel ------------------------------
(***************************************************************************)
(* The high-level interface (papi_hl.c) as a client of the low-level       *)
(* calls: PAPI_start_counters, PAPI_stop_counters, and the rate calls      *)
(* PAPI_flips, PAPI_flops and PAPI_ipc of one thread, which shares the     *)
(* counters with an EventSet that the program drives itself.               *)
(*                                                                         *)
(* All state is the thread's own (PAPI_HIGH_LEVEL_TLS): a HighLevelInfo    *)
(* and the EventSet it names, kept together in the record `hl'.  Every     *)
(* call is one action, as nothing else reads or writes that record.        *)
(*                                                                         *)
(* PAPI_add_event is what EventList promises: an event is accepted when it *)
(* is new, there is room, and all natives can be counted at once.  Which   *)
(* events the CPU has at all (PAPI_query_event) is chosen at the start.    *)
(* PAPI_start and PAPI_stop are those of RunControl between calls; each    *)
(* may fail in the substrate.                                              *)
(*                                                                         *)
(* Left out: the counts and times that the calls return.  PAPI_read_       *)
(* counters and PAPI_accum_counters change nothing else.  The EventSet of  *)
(* a thread that unregisters stays in the map; nothing names it any more.  *)
(***************************************************************************)
EXTENDS Sequences, Naturals

CONSTANTS
  Events,        \* event codes
  Platforms,     \* the sets of events that a CPU may have
  Together,      \* the sets of events whose natives can be counted at once
  NumCntrs,      \* num_cntrs of the substrate
  TOT_CYC,       \* PAPI_TOT_CYC
  Rates,         \* HL_FLIPS, HL_FLOPS, HL_IPC
  EventOf,       \* the event of each rate call
  Lists,         \* arguments of PAPI_start_counters
  FailingCalls,  \* substrate calls that may report an error
  NoInfo,        \* NULL
  MaxTotal       \* bound on the intervals that are told apart in total_ins

ASSUME HighLevelAssumption ==
  /\ TOT_CYC \in Events
  /\ Platforms \subseteq SUBSET Events
  /\ Together \subseteq SUBSET Events
  /\ NumCntrs \in Nat /\ MaxTotal \in Nat
  /\ "none" \notin Rates /\ "counters" \notin Rates
  /\ EventOf \in [Rates -> Events \ {TOT_CYC}]
  /\ Lists \subseteq Seq(Events)
  /\ FailingCalls \subseteq {"start", "stop"}

VARIABLES
  hl,         \* NoInfo, or the HighLevelInfo and its EventSet
  userRuns,   \* the program's own EventSet of this thread is running
  present,    \* the events that this CPU has
  \* history
  leftover,   \* the events that calls added and left when they failed
  asked       \* the events of the call whose counters run, in its order

vars == <<hl, userRuns, present, leftover, asked>>

Infos == [level : {"none", "counters"} \cup Rates,  \* running
          numEvts : Nat,
          total : 0..MaxTotal,                      \* intervals in total_ins
          events : Seq(Events),                     \* EventInfoArray
          runs : BOOLEAN]                           \* PAPI_RUNNING

ASSUME NoInfoAssumption == NoInfo \notin Infos

Init ==
  /\ hl = NoInfo /\ userRuns = FALSE
  /\ present \in Platforms
  /\ leftover = <<>> /\ asked = <<>>

\* A new HighLevelInfo with a new EventSet.
Fresh == [level |-> "none", numEvts |-> 0, total |-> 0,
          events |-> <<>>, runs |-> FALSE]

\* _internal_check_state
Checked == IF hl = NoInfo THEN Fresh ELSE hl

\* Mutant: what the rate calls added up stays.
CleanedButTotal(s) == [s EXCEPT !.level = "none", !.numEvts = 0, !.events = <<>>]

\* _internal_cleanup_hl_info and PAPI_cleanup_eventset of a stopped set.
Cleaned(s) == [s EXCEPT !.level = "none", !.numEvts = 0, !.total = 0,
                        !.events = <<>>]

Codes(list) == {list[k] : k \in 1..Len(list)}

\* Mutant: nobody counts the counters.
AcceptsMore(list, e) ==
  e \in present /\ e \notin Codes(list) /\ Codes(list) \cup {e} \in Together

Accepts(list, e) ==
  /\ e \in present
  /\ e \notin Codes(list)
  /\ Len(list) < NumCntrs
  /\ Codes(list) \cup {e} \in Together

\* PAPI_add_event for each event of `new', in order, on top of `list'.
AllAccepted(list, new) ==
  \A k \in 1..Len(new) : Accepts(list \o SubSeq(new, 1, k - 1), new[k])

\* PAPI_start of hl's EventSet with these events: EISRUN if the thread runs
\* another set, EINVAL if there are none.
CanStart(list) == ~userRuns /\ list # <<>>
MayFail(call) == call \in FailingCalls

-----------------------------------------------------------------------------
\* What a call ran is over, or the call failed: nothing of it is asked for now.
Nothing == leftover' = <<>> /\ asked' = <<>>
Leaves(new) == leftover' = leftover \o new /\ asked' = <<>>

StartCounters(new) ==
  LET s == Checked
      list == s.events \o new
  IN /\ s.level = "none"
     /\ AllAccepted(s.events, new)
     /\ CanStart(list)
     /\ hl' = [s EXCEPT !.events = list, !.runs = TRUE,
                        !.level = "counters", !.numEvts = Len(new)]
     /\ asked' = new
     /\ UNCHANGED <<userRuns, present, leftover>>

\* PAPI_start reports an error: the events stay in the set.
StartCountersFails(new) ==
  LET s == Checked
      list == s.events \o new
  IN /\ s.level = "none"
     /\ AllAccepted(s.events, new)
     /\ ~CanStart(list) \/ MayFail("start")
     /\ hl' = [s EXCEPT !.events = list]
     /\ Leaves(new)
     /\ UNCHANGED <<userRuns, present>>

\* Mutant: the events already added stay.
StartCountersRefusedPartly(new) ==
  /\ Checked.level = "none"
  /\ ~AllAccepted(Checked.events, new)
  /\ hl' = [Checked EXCEPT !.events = Append(@, new[1])]
  /\ new # <<>> /\ Accepts(Checked.events, new[1])
  /\ Nothing
  /\ UNCHANGED <<userRuns, present>>

\* PAPI_add_event reports an error for one of the events.
StartCountersRefused(new) ==
  /\ Checked.level = "none"
  /\ ~AllAccepted(Checked.events, new)
  /\ hl' = Cleaned(Checked)
  /\ Nothing
  /\ UNCHANGED <<userRuns, present>>

\* _hl_rate_calls, the first call of a series.
RateEvents(l) == <<EventOf[l], TOT_CYC>>

FirstRate(l) ==
  LET s == Checked
      list == s.events \o RateEvents(l)
  IN /\ s.level = "none"
     /\ AllAccepted(s.events, RateEvents(l))
     /\ CanStart(list)
     /\ hl' = [s EXCEPT !.events = list, !.runs = TRUE, !.level = l]
     /\ asked' = RateEvents(l)
     /\ UNCHANGED <<userRuns, present, leftover>>

FirstRateFails(l) ==
  LET s == Checked
      list == s.events \o RateEvents(l)
  IN /\ s.level = "none"
     /\ AllAccepted(s.events, RateEvents(l))
     /\ ~CanStart(list) \/ MayFail("start")
     /\ hl' = [s EXCEPT !.events = list]
     /\ Leaves(RateEvents(l))
     /\ UNCHANGED <<userRuns, present>>

\* PAPI_query_event knows the first event and, after that was added, does not
\* know PAPI_TOT_CYC: the call returns, and the event stays.
FirstRateUnknown(l) ==
  /\ Checked.level = "none"
  /\ Accepts(Checked.events, EventOf[l]) /\ TOT_CYC \notin present
  /\ hl' = [Checked EXCEPT !.events = Append(@, EventOf[l])]
  /\ Leaves(<<EventOf[l]>>)
  /\ UNCHANGED <<userRuns, present>>

\* PAPI_add_event reports an error for an event that the CPU has.
FirstRateRefused(l) ==
  /\ Checked.level = "none"
  /\ EventOf[l] \in present
  /\ ~AllAccepted(Checked.events, RateEvents(l))
  /\ Accepts(Checked.events, EventOf[l]) => TOT_CYC \in present
  /\ hl' = Cleaned(Checked)
  /\ Nothing
  /\ UNCHANGED <<userRuns, present>>

\* The next call of a series: stop, add up, start again.
Added(n) == IF n < MaxTotal THEN n + 1 ELSE n
NextRate(l) ==
  /\ hl # NoInfo
  /\ hl.level = l /\ hl.runs
  /\ hl' = [hl EXCEPT !.total = Added(hl.total)]
  /\ UNCHANGED <<userRuns, present, leftover, asked>>

\* Mutant: the series is still said to run.
NextRateFailsOpen(l) ==
  /\ MayFail("start")
  /\ hl # NoInfo
  /\ hl.level = l /\ hl.runs
  /\ hl' = [hl EXCEPT !.total = Added(hl.total), !.runs = FALSE]
  /\ Leaves(asked)
  /\ UNCHANGED <<userRuns, present>>

\* PAPI_stop worked, PAPI_start did not.
NextRateFails(l) ==
  /\ MayFail("start")
  /\ hl # NoInfo
  /\ hl.level = l /\ hl.runs
  /\ hl' = [hl EXCEPT !.total = Added(hl.total), !.runs = FALSE, !.level = "none"]
  /\ Leaves(asked)
  /\ UNCHANGED <<userRuns, present>>

\* PAPI_stop_counters.  When PAPI_stop reports an error it returns PAPI_OK, and
\* nothing changes.
StopCounters ==
  /\ hl # NoInfo
  /\ hl.level # "none" /\ hl.runs
  /\ hl' = Cleaned([hl EXCEPT !.runs = FALSE])
  /\ Nothing
  /\ UNCHANGED <<userRuns, present>>

\* PAPI_num_counters, and any call that finds nothing to do.
CheckState ==
  /\ hl' = Checked
  /\ UNCHANGED <<userRuns, present, leftover, asked>>

\* PAPI_unregister_thread frees the ThreadInfo_t that holds the pointer;
\* PAPI_shutdown also stops and frees everything of the thread.
Forget ==
  /\ hl # NoInfo
  /\ hl' = NoInfo /\ Nothing
  /\ userRuns' = FALSE
  /\ UNCHANGED present

\* The program starts and stops a low-level EventSet of its own.
UserStart ==
  /\ ~userRuns
  /\ hl = NoInfo \/ ~Checked.runs
  /\ userRuns' = TRUE
  /\ UNCHANGED <<hl, present, leftover, asked>>
UserStop ==
  /\ userRuns
  /\ userRuns' = FALSE
  /\ UNCHANGED <<hl, present, leftover, asked>>

Next ==
  \/ \E new \in Lists : \/ StartCounters(new) \/ StartCountersFails(new)
                        \/ StartCountersRefused(new)
  \/ \E l \in Rates : \/ FirstRate(l) \/ FirstRateFails(l)
                      \/ FirstRateUnknown(l) \/ FirstRateRefused(l)
                      \/ NextRate(l) \/ NextRateFails(l)
  \/ StopCounters \/ CheckState \/ Forget
  \/ UserStart \/ UserStop

Spec == Init /\ [][Next]_vars

-----------------------------------------------------------------------------
\* The types; an EventSet never has more events than there are counters.
TypeOK ==
  /\ hl \in Infos \cup {NoInfo}
  /\ hl # NoInfo => Len(hl.events) <= NumCntrs
  /\ userRuns \in BOOLEAN /\ present \in Platforms
  /\ leftover \in Seq(Events) /\ asked \in Seq(Events)

\* HighLevelInfo.running agrees with the state of its EventSet, also after
\* calls that failed halfway; what the program runs itself never overlaps.
LevelAgrees ==
  hl # NoInfo => /\ hl.level # "none" <=> hl.runs
                 /\ hl.runs => ~userRuns

\* The EventSet holds what failed calls left, in the order they added it, and
\* behind that exactly the events of the call whose counters run, in its order:
\* so the values of PAPI_stop can be told apart, and without failed calls they
\* are the running call's and as many as its array holds.
EventsAreTheCalls ==
  hl # NoInfo =>
    /\ hl.events = leftover \o asked
    /\ hl.level = "none" => asked = <<>>
    /\ hl.level = "counters" => hl.numEvts = Len(asked)
    /\ hl.level \in Rates => asked = RateEvents(hl.level)

\* A series of rate calls starts from zero: what an earlier series added up,
\* or left when its restart failed, is never reported by a later one.
SeriesStartsAtZero ==
  [][\A l \in Rates :
       hl' # NoInfo /\ hl'.level = l /\ Checked.level # l => hl'.total = 0]_vars
=============================================================================
