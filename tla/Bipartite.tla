------------------------------ MODULE Bipartite ------------------------------
(***************************************************************************)
(* The counter allocator _papi_hwi_bipartite_alloc (papi_internal.c), with *)
(* the P3 substrate's bpt_map routines (perfctr-p3.c).  An event is the    *)
(* set of counters in its selector; its rank is the size of that set.      *)
(* The allocator keeps nothing between calls: a behaviour is one call.     *)
(***************************************************************************)
EXTENDS Integers, SequencesExt

CONSTANTS
  NumCntrs,   \* num_cntrs
  MaxEvents   \* bound: events in a list, at most one per counter

ASSUME BipartiteAssumption == NumCntrs \in Nat /\ MaxEvents \in 0..NumCntrs

Counters == 0..NumCntrs - 1
Lists == UNION {[1..n -> SUBSET Counters] : n \in 0..MaxEvents}

VARIABLES
  event_list,  \* what the allocator was called with
  answer       \* ok: what it returned; sel: the list as it leaves it

vars == <<event_list, answer>>

exclusive(sel) == Cardinality(sel) = 1
shared(dst, src) == dst \cap src # {}
preempt(dst, src) == dst \ src

\* Indices in ascending order, as the loops over the list collect them.
InOrder(S) == [k \in 1..Cardinality(S) |->
                 CHOOSE i \in S : Cardinality({j \in S : j <= i}) = k]

\* One turn of the while loop: the event at the head of the queue, which is
\* exclusive, takes its counter from all the others.  Those that it leaves with
\* one counter are queued; one that had only this counter is a conflict.
Meet(s, head) ==
  LET h == s.idx_q[head]
      sharers == {i \in DOMAIN s.sel \ {h} : shared(s.sel[i], s.sel[h])}
      left == [i \in DOMAIN s.sel |->
                 IF i \in sharers THEN preempt(s.sel[i], s.sel[h]) ELSE s.sel[i]]
  IN IF s.conflict \/ head > Len(s.idx_q) THEN s
     ELSE IF \E i \in sharers : exclusive(s.sel[i]) THEN [s EXCEPT !.conflict = TRUE]
     ELSE [s EXCEPT !.sel = left,
                    !.idx_q = @ \o InOrder({i \in sharers : exclusive(left[i])})]

\* The scan of the queue of exclusive events, which grows meanwhile, but never
\* beyond the list: the while loop has a turn for each event at most.
ScanQueue(list) ==
  FoldLeftDomain(Meet,
    [sel |-> list, conflict |-> FALSE,
     idx_q |-> InOrder({i \in DOMAIN list : exclusive(list[i])})],
    list)

\* The events that the scan has not mapped, and the list made of them.
Unmapped(s) == InOrder(DOMAIN s.sel \ ToSet(s.idx_q))
Rest(s) == [j \in DOMAIN Unmapped(s) |-> s.sel[Unmapped(s)[j]]]

\* map_set: the first event on counter ctr, which the others lose.
Place(list, ctr) ==
  [j \in DOMAIN list |-> IF j = 1 THEN {ctr}
                         ELSE IF shared(list[j], {ctr}) THEN preempt(list[j], {ctr})
                         ELSE list[j]]

\* An allocation that fails leaves a list that every caller throws away.
NoMapping == [ok |-> FALSE]

\* Mutant: the first counter that is possible is never taken back.
FirstOnly(tries) ==
  IF DOMAIN tries = {} THEN NoMapping ELSE tries[Min(DOMAIN tries)]

\* The counters of the first event are tried in ascending order, each on a new
\* copy of the list, until an allocation succeeds.
FirstFit(tries) ==
  LET fits == {ctr \in DOMAIN tries : tries[ctr].ok}
  IN IF fits = {} THEN NoMapping ELSE tries[Min(fits)]

\* map_update: the events of the scan, and the unmapped ones from their own list.
Update(s, rest) ==
  [i \in DOMAIN s.sel |->
     IF i \in ToSet(s.idx_q) THEN s.sel[i]
     ELSE rest[CHOOSE j \in DOMAIN rest : Unmapped(s)[j] = i]]

bipartite_alloc[list \in Lists] ==
  LET s == ScanQueue(list)
      tries == [ctr \in Rest(s)[1] |-> bipartite_alloc[Place(Rest(s), ctr)]]
      fit == FirstFit(tries)
  IN IF s.conflict THEN NoMapping
     ELSE IF Len(s.idx_q) = Len(list) THEN [ok |-> TRUE, sel |-> s.sel]
     ELSE IF ~fit.ok THEN NoMapping
     ELSE [ok |-> TRUE, sel |-> Update(s, fit.sel)]

Call(list) == event_list' = list /\ answer' = bipartite_alloc[list]

Init == event_list = <<>> /\ answer = bipartite_alloc[<<>>]
Next == event_list = <<>> /\ \E list \in Lists : Call(list)
Spec == Init /\ [][Next]_vars

\* Counters for all events of the list, each on one of its own.
IsAssignment(counter, list) ==
  IsInjective(counter) /\ \A i \in DOMAIN list : counter[i] \in list[i]

\* The allocator succeeds exactly when the events can be counted at once, and
\* then leaves each event on a single counter, an assignment of the list it got.
AllocatorIsExact ==
  LET places == [DOMAIN event_list -> Counters]
  IN /\ answer.ok <=> \E counter \in places : IsAssignment(counter, event_list)
     /\ answer.ok => \E counter \in places :
          /\ IsAssignment(counter, event_list)
          /\ answer.sel = [i \in DOMAIN event_list |-> {counter[i]}]
=============================================================================
