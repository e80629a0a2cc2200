--------------------------- MODULE EventSetNatives ---------------------------
(***************************************************************************)
(* The events of one stopped EventSet, the native events they share, and   *)
(* the counters the P3 substrate programs for them: PAPI_add_event,        *)
(* PAPI_remove_event, PAPI_cleanup_eventset, and hardware PAPI_overflow    *)
(* (papi_internal.c, perfctr-p3.c).  The set is not multiplexed and has no *)
(* profile entries.  It overflows on one event at a time, turned off       *)
(* before it is turned on again: what the table does beyond that is        *)
(* OverflowTable's subject.  Installing and removing the signal's handler  *)
(* works here.                                                             *)
(*                                                                         *)
(* A removal may leave other events on the wrong counters                  *)
(* (EventsReadTheirOwn below), and the program may then turn an overflow   *)
(* on: it goes to the wrong register, nrictrs may later reach -1, and      *)
(* registers that no call clears keep their bits.  All of that is in the   *)
(* model; Clean and Tidy below tell the sets it has not happened to.       *)
(*                                                                         *)
(* The EventSet is one structure, esi, as in the code:                     *)
(*   events       EventInfoArray[0..NumberOfEvents-1]; the slots behind it *)
(*                are empty, with every pos -1                             *)
(*   native       NativeInfoArray, one record per counter of the CPU       *)
(*   NativeCount  how many of them are in use                              *)
(*   evntsel      the commands or'ed into each event select register       *)
(*   enabled      the registers with PERF_INT_ENABLE set                   *)
(*   nractrs, nrictrs   how many registers the kernel is told to program   *)
(*                that count only, and how many behind them that interrupt *)
(*   overflow     the event of the overflow table                          *)
(***************************************************************************)
EXTENDS Integers, SequencesExt

CONSTANTS
  Events,    \* preset and native event codes
  Natives,   \* native event codes
  Terms,     \* the native events an event is made of, in order
  Selector,  \* the counters a native event can be counted on
  NumCntrs,  \* num_cntrs: 2 on a P6, 4 on an Athlon
  NoNative,  \* ni_event of a slot that is not in use
  NoEvent    \* the overflow table is empty

Slots == 0..NumCntrs - 1

ASSUME EventSetNativesAssumption ==
  /\ NumCntrs \in Nat \ {0}
  /\ NoNative \notin Natives /\ NoEvent \notin Events \cup Natives
  /\ Terms \in [Events -> Seq(Natives)]
  /\ \A c \in Events : Terms[c] # <<>> /\ IsInjective(Terms[c])
  /\ Selector \in [Natives -> SUBSET Slots]

VARIABLES
  esi,       \* the EventSetInfo_t
  result     \* what the last call returned

vars == <<esi, result>>

Empty == [ni_event |-> NoNative, ni_position |-> -1, ni_owners |-> 0, ni_bits |-> {}]

Init ==
  /\ esi = [events |-> <<>>, native |-> [k \in Slots |-> Empty], NativeCount |-> 0,
            evntsel |-> [k \in Slots |-> {}], enabled |-> {},
            nractrs |-> 0, nrictrs |-> 0, overflow |-> NoEvent]
  /\ result = "PAPI_OK"

Codes(s) == [i \in DOMAIN s.events |-> s.events[i].event_code]

\* The slots in use that hold native event n.
Mapped(s, n) == {k \in 0..s.NativeCount - 1 : s.native[k].ni_event = n}

\* The registers that the kernel programs, and that clear_cs_events resets.
Programmed(s) == 0..s.nractrs + s.nrictrs - 1

\* Event i reads, for each of its native events, a counter that is programmed
\* for exactly that native event.
ReadsItsOwn(i) ==
  LET e == esi.events[i]
  IN \A j \in DOMAIN e.pos :
       /\ e.pos[j] \in Programmed(esi)
       /\ esi.evntsel[e.pos[j]] = {Terms[e.event_code][j]}

----------------------------------------------------------------------------
\* The substrate (perfctr-p3.c).

\* Mutant: any free counter will do.
AllocatableAnywhere(S) == \E counter \in [S -> Slots] : IsInjective(counter)

\* _papi_hwi_bipartite_alloc finds an assignment whenever there is one.
Allocatable(S) ==
  \E counter \in [S -> Slots] :
    IsInjective(counter) /\ \A n \in S : counter[n] \in Selector[n]

\* _papi_hwd_allocate_registers, when every native event finds a counter: the
\* array is numbered in the order it is in, not by the counters found.
Allocate(s) ==
  [s EXCEPT !.native = [k \in Slots |->
     IF k < s.NativeCount
     THEN [@[k] EXCEPT !.ni_bits = {s.native[k].ni_event}, !.ni_position = k]
     ELSE @[k]]]

\* _papi_hwd_update_control_state: clears the registers it programmed, their
\* interrupts too, then or's in the bits of the native events.
UpdateControl(s) ==
  [s EXCEPT
     !.evntsel = [k \in Slots |->
        (IF k \in Programmed(s) THEN {} ELSE @[k])
          \cup (IF k < s.NativeCount THEN s.native[k].ni_bits ELSE {})],
     !.enabled = @ \ Programmed(s),
     !.nractrs = s.NativeCount, !.nrictrs = 0]

Exchange(k, a, b) == IF k = a THEN b ELSE IF k = b THEN a ELSE k

\* Mutant: the events are not told.
SwapRegisters(s, a, b) ==
  [s EXCEPT !.native = [k \in Slots |->
              IF k < s.NativeCount
              THEN [s.native[k] EXCEPT !.ni_position = Exchange(@, a, b)] ELSE @[k]],
            !.evntsel = [k \in Slots |-> @[Exchange(k, a, b)]],
            !.enabled = {Exchange(k, a, b) : k \in @}]

\* swap_events: two registers change places, with all that points to them.
Swap(s, a, b) ==
  [s EXCEPT !.native = [k \in Slots |->
              IF k < s.NativeCount
              THEN [s.native[k] EXCEPT !.ni_position = Exchange(@, a, b)] ELSE @[k]],
            !.events = [i \in DOMAIN @ |->
              [s.events[i] EXCEPT !.pos = [j \in DOMAIN @ |-> Exchange(@[j], a, b)]]],
            !.evntsel = [k \in Slots |-> @[Exchange(k, a, b)]],
            !.enabled = {Exchange(k, a, b) : k \in @}]

\* Mutant: the register stays where it is.
EnableInPlace(s, i) ==
  [s EXCEPT !.enabled = @ \cup {i}, !.nrictrs = @ + 1, !.nractrs = @ - 1]

\* _papi_hwd_set_overflow with a threshold, for the event on register i: it
\* joins the interrupting registers at the end of the list.
Enable(s, i) ==
  LET on == [s EXCEPT !.enabled = @ \cup {i}, !.nrictrs = @ + 1, !.nractrs = @ - 1]
  IN IF i < on.nractrs THEN Swap(on, i, on.nractrs) ELSE on

\* The same with threshold 0.
Disable(s, i) ==
  LET off == IF i \in s.enabled
             THEN [s EXCEPT !.enabled = @ \ {i}, !.nrictrs = @ - 1, !.nractrs = @ + 1]
             ELSE s
  IN IF i >= off.nractrs THEN Swap(off, i, off.nractrs - 1) ELSE off

----------------------------------------------------------------------------
\* Adding (papi_internal.c).  The outcome of the loop over the natives of an
\* event: the structure, how many natives were done, whether the array is full.

\* _papi_hwi_add_native_precheck, and the slot taken when it finds nothing.
AddNative(a, n) ==
  LET s == a.esi
  IN IF a.full THEN a
     ELSE IF Mapped(s, n) # {}
     THEN [a EXCEPT !.esi = [s EXCEPT !.native[Min(Mapped(s, n))].ni_owners = @ + 1],
                    !.done = @ + 1]
     ELSE IF s.NativeCount = NumCntrs
     THEN [a EXCEPT !.full = TRUE]
     ELSE [a EXCEPT !.esi = [s EXCEPT !.native[s.NativeCount] =
                                        [@ EXCEPT !.ni_event = n, !.ni_owners = 1],
                                      !.NativeCount = @ + 1],
                    !.done = @ + 1]

\* Mutant: only a slot with no other owner is cleaned.
FailCleanSlots(s, n) ==
  LET held == {k \in Slots : s.native[k].ni_event = n}
      k == Min(held)
  IN IF held # {} /\ s.native[k].ni_owners = 1
     THEN [s EXCEPT !.native[k] = Empty, !.NativeCount = @ - 1]
     ELSE s

\* add_native_fail_clean
FailClean(s, n) ==
  LET held == {k \in Slots : s.native[k].ni_event = n}
      k == Min(held)
  IN IF held = {} THEN s
     ELSE IF s.native[k].ni_owners = 1
     THEN [s EXCEPT !.native[k] = Empty, !.NativeCount = @ - 1]
     ELSE [s EXCEPT !.native[k].ni_owners = @ - 1]

\* Mutant: only the event that was added is given its positions.
RemapNewest(s) ==
  [s EXCEPT !.events = [i \in DOMAIN @ |->
     IF i < Len(s.events) THEN @[i] ELSE
     [s.events[i] EXCEPT !.pos = [j \in DOMAIN @ |->
        LET at == Mapped(s, Terms[s.events[i].event_code][j])
        IN IF at = {} THEN @[j] ELSE s.native[Min(at)].ni_position]]]]

\* remap_event_position, and the positions taken over when nothing is remapped.
Remap(s) ==
  [s EXCEPT !.events = [i \in DOMAIN @ |->
     [s.events[i] EXCEPT !.pos = [j \in DOMAIN @ |->
        LET at == Mapped(s, Terms[s.events[i].event_code][j])
        IN IF at = {} THEN @[j] ELSE s.native[Min(at)].ni_position]]]]

Return(s, r) == esi' = s /\ result' = r

\* The event in the lowest free slot, its positions not filled in.
Extend(s, c) ==
  [s EXCEPT !.events =
     Append(@, [event_code |-> c, pos |-> [j \in DOMAIN Terms[c] |-> -1]])]

\* The positions of the new event only, when no native event was new.
TakePositions(s) ==
  LET last == Len(s.events)
  IN [s EXCEPT !.events[last] = Remap(s).events[last]]

\* PAPI_add_event of a stopped set: get_free_EventCodeIndex, the test for a
\* native event that overflows, add_native_events with its two ways back, and
\* the new event.
AddEvent(c) ==
  IF \/ c \in ToSet(Codes(esi)) \/ Len(esi.events) = NumCntrs
     \/ esi.overflow \in ToSet(Terms[c])
  THEN Return(esi, "PAPI_ECNFLCT")
  ELSE
    LET a == FoldLeft(AddNative, [esi |-> esi, done |-> 0, full |-> FALSE], Terms[c])
        s == a.esi
        fits == Allocatable({s.native[k].ni_event : k \in 0..s.NativeCount - 1})
    IN CASE a.full ->
              Return(FoldLeft(FailClean, s, SubSeq(Terms[c], 1, a.done)), "PAPI_ECNFLCT")
         [] ~a.full /\ s.NativeCount = esi.NativeCount ->
              Return(TakePositions(Extend(s, c)), "PAPI_OK")
         [] ~a.full /\ s.NativeCount > esi.NativeCount /\ fits ->
              Return(Remap(Extend(UpdateControl(Allocate(s)), c)), "PAPI_OK")
         [] ~a.full /\ s.NativeCount > esi.NativeCount /\ ~fits ->
              Return(FoldLeft(FailClean, s, Terms[c]), "PAPI_ECNFLCT")

----------------------------------------------------------------------------
\* Removing.

Disown(s, n) ==
  IF Mapped(s, n) = {} THEN s
  ELSE [s EXCEPT !.native[Min(Mapped(s, n))].ni_owners = @ - 1]

\* Mutant: the first native event still owned moves down, not the last.
FillSlotFirst(s, i) ==
  LET live == {j \in i + 1..s.NativeCount - 1 :
                 s.native[j].ni_event # NoNative /\ s.native[j].ni_owners # 0}
  IN IF s.native[i].ni_event = NoNative \/ s.native[i].ni_owners # 0 THEN s
     ELSE IF live = {} THEN [s EXCEPT !.native[i] = Empty]
     ELSE [s EXCEPT
             !.native[i] = [s.native[Min(live)] EXCEPT !.ni_bits = s.native[i].ni_bits],
             !.native[Min(live)] = Empty]

\* One turn of the compaction loop: a slot nobody owns takes the last native
\* event still owned, and keeps the bits it had.
FillSlot(s, i) ==
  LET live == {j \in i + 1..s.NativeCount - 1 :
                 s.native[j].ni_event # NoNative /\ s.native[j].ni_owners # 0}
  IN IF s.native[i].ni_event = NoNative \/ s.native[i].ni_owners # 0 THEN s
     ELSE IF live = {} THEN [s EXCEPT !.native[i] = Empty]
     ELSE [s EXCEPT
             !.native[i] = [s.native[Max(live)] EXCEPT !.ni_bits = s.native[i].ni_bits],
             !.native[Max(live)] = Empty]

\* Mutant: every native event of the event is counted out, shared or not.
RemoveNativesAll(s, c) ==
  LET d == FoldLeft(Disown, s, Terms[c])
      dense == FoldLeft(FillSlot, d, [i \in 1..s.NativeCount |-> i - 1])
  IN UpdateControl([dense EXCEPT !.NativeCount = @ - Len(Terms[c])])

\* remove_native_events: the control state is rewritten only if a native event
\* lost its last owner; no position is recomputed.
RemoveNatives(s, c) ==
  LET d == FoldLeft(Disown, s, Terms[c])
      zero == {k \in 0..s.NativeCount - 1 :
                 d.native[k].ni_owners = 0 /\ s.native[k].ni_owners # 0}
      dense == FoldLeft(FillSlot, d, [i \in 1..s.NativeCount |-> i - 1])
      counted == [dense EXCEPT !.NativeCount = @ - Cardinality(zero)]
  IN IF zero = {} THEN counted ELSE UpdateControl(counted)

\* _papi_hwi_remove_event of the event at index i.
RemoveAtIndex(s, i) ==
  [RemoveNatives(s, s.events[i].event_code) EXCEPT !.events = RemoveAt(@, i)]

Indices(c) == {i \in DOMAIN esi.events : esi.events[i].event_code = c}

\* PAPI_overflow with threshold 0 of the event in the table.
TurnOff(s) ==
  IF s.overflow = NoEvent THEN s
  ELSE [Disable(s, s.events[Min(Indices(s.overflow))].pos[1])
          EXCEPT !.overflow = NoEvent]

\* PAPI_remove_event: turns the overflow of that event off, if it is the one in
\* the table, then removes it.
RemoveEvent(c) ==
  LET quiet == IF esi.overflow = c THEN TurnOff(esi) ELSE esi
  IN IF Indices(c) = {} THEN Return(esi, "PAPI_EINVAL")
     ELSE Return(RemoveAtIndex(quiet, Min(Indices(c))), "PAPI_OK")

\* PAPI_cleanup_eventset turns overflows off and removes every event, the last
\* one first.
Cleanup ==
  Return(FoldLeft(RemoveAtIndex, TurnOff(esi),
                  Reverse([i \in DOMAIN esi.events |-> i])),
         "PAPI_OK")

----------------------------------------------------------------------------
\* PAPI_overflow of a stopped set: with a threshold, while the table is empty,
\* and with threshold 0.

SetOverflow(c) ==
  /\ esi.overflow = NoEvent
  /\ IF Indices(c) = {} THEN Return(esi, "PAPI_ENOEVNT")
     ELSE IF Len(Terms[c]) > 1   \* derived
     THEN Return(esi, "PAPI_EINVAL")
     ELSE Return([Enable(esi, esi.events[Min(Indices(c))].pos[1])
                    EXCEPT !.overflow = c],
                 "PAPI_OK")

ClearOverflow(c) ==
  IF Indices(c) = {} THEN Return(esi, "PAPI_ENOEVNT")
  ELSE IF esi.overflow # c THEN Return(esi, "PAPI_EINVAL")
  ELSE Return(TurnOff(esi), "PAPI_OK")

Next == \/ \E c \in Events : \/ AddEvent(c) \/ RemoveEvent(c)
                            \/ SetOverflow(c) \/ ClearOverflow(c)
        \/ Cleanup

Spec == Init /\ [][Next]_vars

----------------------------------------------------------------------------
TypeOK ==
  /\ esi.events \in Seq([event_code : Events, pos : Seq(Slots \cup {-1})])
  /\ esi.native \in [Slots -> [ni_event : Natives \cup {NoNative},
                               ni_position : Slots \cup {-1},
                               ni_owners : Nat, ni_bits : SUBSET Natives]]
  /\ esi.NativeCount \in 0..NumCntrs
  /\ esi.evntsel \in [Slots -> SUBSET Natives]
  /\ esi.enabled \subseteq Slots
  /\ esi.nractrs \in 0..NumCntrs /\ esi.nrictrs \in -1..1
  /\ esi.overflow \in Events \cup {NoEvent}
  /\ result \in {"PAPI_OK", "PAPI_ECNFLCT", "PAPI_EINVAL", "PAPI_ENOEVNT"}

\* The native array is exactly what the events need: dense, each native event
\* once, owned by as many events as are made of it, and none that no event uses;
\* so no counter is lost or freed under an event, whatever adds failed halfway.
OwnersMatch ==
  LET users(n) == {i \in DOMAIN esi.events : n \in ToSet(Terms[esi.events[i].event_code])}
      used == {n \in Natives : users(n) # {}}
  IN /\ esi.NativeCount = Cardinality(used)
     /\ \A k \in Slots : k >= esi.NativeCount => esi.native[k] = Empty
     /\ \A n \in used : \E k \in 0..esi.NativeCount - 1 :
          /\ esi.native[k].ni_event = n
          /\ esi.native[k].ni_owners = Cardinality(users(n))

\* Removing an event leaves the others reading the counters that count them:
\* "clear the now empty slots, reinitialize the index, and update the count.
\* Then send the info down to the substrate" (papi_internal.c:800-802).
EventsReadTheirOwn == \A i \in DOMAIN esi.events : ReadsItsOwn(i)

\* Nothing is left in the registers that clear_cs_events does not reach.
Clean ==
  \A k \in Slots \ Programmed(esi) : esi.evntsel[k] = {} /\ k \notin esi.enabled

\* "Perfctr requires that interrupting counters appear at the end of the pmc
\* list": the registers that interrupt are the last nrictrs of the list, and
\* are the overflowing event's.
InterruptsLast ==
  /\ esi.enabled = esi.nractrs..esi.nractrs + esi.nrictrs - 1
  /\ esi.enabled # {} =>
       \E i \in DOMAIN esi.events : /\ esi.events[i].event_code = esi.overflow
                                    /\ ToSet(esi.events[i].pos) = esi.enabled

Tidy == Clean /\ InterruptsLast

\* Only one thing brings the interrupting registers out of their place at the
\* end, or leaves bits behind them: turning an overflow on or off in a set that
\* a removal has left wrong.  Adds, failed adds, removals before and during an
\* overflow, and overflows in a set that is right keep them in place.
InterruptsStayLast ==
  [][Tidy /\ ~Tidy' => ~EventsReadTheirOwn /\ esi'.overflow # esi.overflow]_vars

\* An add that brings in a native event leaves every event of the set, old and
\* new, on counters of its own, even after removals that mixed them up, unless
\* bits were left in registers that are not cleared; an add that brings none
\* keeps the set right if it was.
AddSetsRight ==
  [][Len(esi'.events) > Len(esi.events)
     /\ (IF esi'.NativeCount > esi.NativeCount THEN Clean ELSE EventsReadTheirOwn)
       => EventsReadTheirOwn']_vars

\* Turning an overflow on or off moves registers about; in a set that is right
\* and tidy every event still reads its own.
OverflowMovesRight ==
  [][Tidy /\ EventsReadTheirOwn
     /\ esi'.overflow # esi.overflow /\ Codes(esi') = Codes(esi)
       => EventsReadTheirOwn']_vars

\* A call that reports an error has changed nothing, whichever native event of
\* a preset it failed at.
FailureLeavesNoTrace == [][result' # "PAPI_OK" => UNCHANGED esi]_vars

\* The whole implements what an EventSet promises of its list of events.
Promise == INSTANCE EventList WITH added <- Codes(esi), overflow <- esi.overflow
KeepsPromise == Promise!Spec
=============================================================================
