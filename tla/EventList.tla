------------------------------ MODULE EventList ------------------------------
(***************************************************************************)
(* What an EventSet promises of its list of events, whatever is behind it: *)
(* events are kept in the order they were added, a call that fails changes *)
(* nothing, and an event is accepted exactly when it is new, the list has  *)
(* room, none of its native events is the event that overflows, and the    *)
(* native events of the whole list can be counted at once.  One event of   *)
(* the list overflows at a time, and no longer than it is in the list.     *)
(***************************************************************************)
EXTENDS SequencesExt

CONSTANTS
  Events,    \* preset and native event codes
  Terms,     \* the native events an event is made of, in order
  Selector,  \* the counters a native event can be counted on
  NumCntrs,  \* num_cntrs of the substrate
  NoEvent    \* no event overflows

VARIABLES
  added,     \* the events of the set, in order
  overflow,  \* the one that overflows
  result     \* what the last call returned

NativesOf(list) == UNION {ToSet(Terms[c]) : c \in ToSet(list)}

\* Every native event of S has a counter of its own among those it can use.
Countable(S) ==
  \E counter \in [S -> 0..NumCntrs - 1] :
    IsInjective(counter) /\ \A n \in S : counter[n] \in Selector[n]

Init == added = <<>> /\ overflow = NoEvent /\ result = "PAPI_OK"

Add(c) ==
  LET longer == Append(added, c)
      accepted == /\ c \notin ToSet(added)
                  /\ Len(added) < NumCntrs
                  /\ overflow \notin ToSet(Terms[c])
                  /\ Countable(NativesOf(longer))
  IN /\ added' = IF accepted THEN longer ELSE added
     /\ result' = IF accepted THEN "PAPI_OK" ELSE "PAPI_ECNFLCT"
     /\ UNCHANGED overflow

Drop(c) ==
  IF c \in ToSet(added)
  THEN /\ \E i \in DOMAIN added : added[i] = c /\ added' = RemoveAt(added, i)
       /\ overflow' = IF overflow = c THEN NoEvent ELSE overflow
       /\ result' = "PAPI_OK"
  ELSE result' = "PAPI_EINVAL" /\ UNCHANGED <<added, overflow>>

\* PAPI_overflow leaves the events alone.
TurnOn(c) ==
  /\ c \in ToSet(added) /\ Len(Terms[c]) = 1 /\ overflow = NoEvent
  /\ overflow' = c /\ result' = "PAPI_OK" /\ UNCHANGED added

TurnOff ==
  /\ overflow # NoEvent
  /\ overflow' = NoEvent /\ result' = "PAPI_OK" /\ UNCHANGED added

OverflowRefused(c) ==
  /\ result' = IF c \in ToSet(added) THEN "PAPI_EINVAL" ELSE "PAPI_ENOEVNT"
  /\ UNCHANGED <<added, overflow>>

Cleanup == added' = <<>> /\ overflow' = NoEvent /\ result' = "PAPI_OK"

Next == \/ \E c \in Events : Add(c) \/ Drop(c) \/ TurnOn(c) \/ OverflowRefused(c)
        \/ TurnOff \/ Cleanup

Spec == Init /\ [][Next]_<<added, overflow, result>>
=============================================================================
