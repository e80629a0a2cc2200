---------------------------- MODULE OverflowTable ----------------------------
(***************************************************************************)
(* The overflow table of a stopped EventSet (PAPI_overflow in papi.c, laid *)
(* out by _papi_hwi_allocate_EventSet): for each event that overflows, its *)
(* deadline, its threshold, its index in EventInfoArray and its code.      *)
(*                                                                         *)
(* The four arrays share one block, and `mem' is that block in words of    *)
(* four bytes, the size of an int; a deadline is a long_long of two words. *)
(* Each array but the first starts one ELEMENT of the array before it      *)
(* further on, where one whole array was meant.  A store is to the words   *)
(* it reaches.                                                             *)
(*                                                                         *)
(* Overflows are in software: the substrate takes no part.  Every event is *)
(* native, and the handler is never NULL.                                  *)
(***************************************************************************)
EXTENDS Naturals, Sequences, SequencesExt

CONSTANTS
  Events,      \* event codes; numbers, as they share memory with numbers
  Thresholds,  \* thresholds of the program
  NumCntrs     \* num_cntrs of the substrate

VARIABLES
  events,         \* event codes of EventInfoArray, in order
  mem,            \* the block behind overflow.deadline
  event_counter,  \* overflow.event_counter
  overflowing,    \* PAPI_OVERFLOWING is set in state
  asked           \* the threshold of the last PAPI_overflow of each event that
                  \* returned PAPI_OK, 0 if it turned the event off

vars == <<events, mem, event_counter, overflowing, asked>>

Block == 0..5 * NumCntrs - 1

\* The words of element i of each array.
DeadlineLow(i) == 2 * i
DeadlineHigh(i) == 2 * i + 1
Threshold(i) == 2 + i
EventIndex(i) == 3 + i
EventCode(i) == 4 + i

Init ==
  /\ events = <<>>
  /\ mem = [w \in Block |-> 0]
  /\ event_counter = 0 /\ overflowing = FALSE
  /\ asked = [c \in Events |-> 0]

-----------------------------------------------------------------------------
\* The stores of PAPI_overflow, in its order.

\* Element i of every array.
Store(m, i, threshold, index, code) ==
  [m EXCEPT ![DeadlineLow(i)] = threshold, ![DeadlineHigh(i)] = 0,
            ![Threshold(i)] = threshold,
            ![EventIndex(i)] = index,
            ![EventCode(i)] = code]

\* The same without the code, of an event that has an entry.
Restore(m, i, threshold, index) ==
  [m EXCEPT ![DeadlineLow(i)] = threshold, ![DeadlineHigh(i)] = 0,
            ![Threshold(i)] = threshold,
            ![EventIndex(i)] = index]

\* One turn of the compaction: element i becomes element i + 1.
MoveDown(m, i) ==
  LET a == [m EXCEPT ![DeadlineLow(i)] = m[DeadlineLow(i + 1)],
                     ![DeadlineHigh(i)] = m[DeadlineHigh(i + 1)]]
      b == [a EXCEPT ![Threshold(i)] = a[Threshold(i + 1)]]
      c == [b EXCEPT ![EventIndex(i)] = b[EventIndex(i + 1)]]
  IN [c EXCEPT ![EventCode(i)] = c[EventCode(i + 1)]]

\* Element i is taken out of a table of n.
Compact(m, i, n) ==
  Store(FoldLeft(MoveDown, m, [k \in 1..n - 1 - i |-> i + k - 1]), n - 1, 0, 0, 0)

\* Where the search for a code stops: event_counter if it finds none.
Search(c) ==
  CHOOSE i \in 0..event_counter :
    /\ i = event_counter \/ mem[EventCode(i)] = c
    /\ \A k \in 0..i - 1 : mem[EventCode(k)] # c

IndexOf(c) == CHOOSE k \in DOMAIN events : events[k] = c

-----------------------------------------------------------------------------
\* PAPI_overflow with a threshold.
TurnOn(c, threshold) ==
  /\ c \in ToSet(events)
  /\ event_counter < NumCntrs
  /\ LET i == Search(c)
         n == IF i = event_counter THEN event_counter + 1 ELSE event_counter
     IN /\ mem' = IF i = event_counter
                  THEN Store(mem, i, threshold, IndexOf(c) - 1, c)
                  ELSE Restore(mem, i, threshold, IndexOf(c) - 1)
        /\ event_counter' = n
        /\ overflowing' = IF n = 1 THEN ~overflowing ELSE overflowing
  /\ asked' = [asked EXCEPT ![c] = threshold]
  /\ UNCHANGED events

\* PAPI_overflow with threshold 0; it returns an error in a set that does not
\* overflow and for an event that is not in the table.
CanTurnOff(c) == c \in ToSet(events) /\ overflowing /\ Search(c) # event_counter

TurnOff(c) ==
  /\ mem' = Compact(mem, Search(c), event_counter)
  /\ event_counter' = event_counter - 1
  /\ overflowing' = IF event_counter = 1 THEN ~overflowing ELSE overflowing

\* PAPI_overflow
PAPI_overflow(c) ==
  \/ \E threshold \in Thresholds : TurnOn(c, threshold)
  \/ /\ CanTurnOff(c)
     /\ TurnOff(c)
     /\ asked' = [asked EXCEPT ![c] = 0]
     /\ UNCHANGED events

\* PAPI_add_event, which refuses a code that the table of a set that overflows
\* still has.
PAPI_add_event(c) ==
  /\ c \notin ToSet(events) /\ Len(events) < NumCntrs
  /\ ~(overflowing /\ Search(c) # event_counter)
  /\ events' = Append(events, c)
  /\ UNCHANGED <<mem, event_counter, overflowing, asked>>

\* PAPI_remove_event turns the event's overflow off first.  The indices in the
\* table are not adjusted to the shorter list of events.
PAPI_remove_event(c) ==
  /\ c \in ToSet(events)
  /\ IF CanTurnOff(c) THEN TurnOff(c)
     ELSE UNCHANGED <<mem, event_counter, overflowing>>
  /\ events' = Remove(events, c)
  /\ asked' = [asked EXCEPT ![c] = 0]

Next == \E c \in Events :
          PAPI_overflow(c) \/ PAPI_add_event(c) \/ PAPI_remove_event(c)

Spec == Init /\ [][Next]_vars

-----------------------------------------------------------------------------
\* Every event that was asked to overflow has an entry under its code, with the
\* threshold it was given: "More than one event in an event set can be used to
\* trigger overflows" (PAPI_overflow.3).
EachHasItsEntry ==
  \A c \in Events : asked[c] # 0 =>
    \E i \in 0..event_counter - 1 :
      mem[EventCode(i)] = c /\ mem[Threshold(i)] = asked[c]
=============================================================================
