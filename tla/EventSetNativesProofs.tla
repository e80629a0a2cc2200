------------------------ MODULE EventSetNativesProofs ------------------------
(***************************************************************************)
(* EventSetNatives for any events, native events and counters.             *)
(*                                                                         *)
(* The loops of the code are folds.  Each is unfolded into a chain of      *)
(* values, one per turn (FoldChain), with a loop invariant: Adding for the *)
(* natives counted in, Undoing for the way back, Disowned for the owners   *)
(* given up, Moved for the compaction.  On these stand the steps from one  *)
(* call to the next: JoinFresh and JoinShared for an event that joins,     *)
(* EventLeaves, AllLeave, TurnedOn and TurnedOff.  They keep StateInv:     *)
(* Core, what holds of the list, the native array and the counts, and      *)
(* OverInv, how far an overflow can bring nrictrs when it is turned on and *)
(* off in a set that removals left wrong.  TidyInv and AllRight are no     *)
(* invariants; the steps say when a set keeps them.  Kinds sums up what a  *)
(* step of Next can be, from which every theorem at the end follows.       *)
(***************************************************************************)
EXTENDS EventSetNatives, FiniteSetTheorems, WellFoundedInduction, TLAPS

USE EventSetNativesAssumption DEF Slots

-----------------------------------------------------------------------------
(* Loops.  A fold is the last of a chain of values, one for each prefix of *)
(* the sequence; what holds of the first and passes from each to the next  *)
(* holds of the last.                                                      *)

\* Induction over the turns of a loop.
LEMMA Along ==
  ASSUME NEW n \in Nat, NEW Good, 0 \in Good,
         \A j \in 1..n : j - 1 \in Good => j \in Good
  PROVE  \A j \in 0..n : j \in Good
<1> DEFINE Bad == {j \in 0..n : j \notin Good}
           Less == {ss \in Nat \X Nat : ss[1] < ss[2]}
<1> SUFFICES ASSUME Bad # {} PROVE FALSE
  OBVIOUS
<1>1. IsWellFoundedOn(Less, Nat)
  BY NatLessThanWellFounded DEF OpToRel
<1>2. Bad \in SUBSET Nat
  OBVIOUS
<1>3. PICK x \in Bad : \A y \in Bad : ~ (<<y, x>> \in Less)
  BY <1>1, <1>2, WFMin
<1>4. x \in 1..n /\ x - 1 \in 0..n
  BY <1>3
<1>5. x - 1 \in Bad
  BY <1>3, <1>4
<1>6. <<x - 1, x>> \in Nat \X Nat /\ <<x - 1, x>>[1] = x - 1 /\ <<x - 1, x>>[2] = x
  BY <1>4
<1> HIDE DEF Bad
<1>7. <<x - 1, x>> \in Less
  BY <1>4, <1>6
<1> QED BY <1>3, <1>5, <1>7

\* The slots below a count, and the places of a list.
LEMMA Below ==
  ASSUME NEW n \in Nat
  PROVE  IsFiniteSet(0..n - 1) /\ Cardinality(0..n - 1) = n /\ IsFiniteSet(1..n)
<1>1. 0 \in Int /\ 1 \in Int /\ n \in Int /\ n - 1 \in Int
  OBVIOUS
<1>2. IsFiniteSet(0..n - 1)
      /\ Cardinality(0..n - 1) = IF 0 > n - 1 THEN 0 ELSE (n - 1) - 0 + 1
  BY <1>1, FS_Interval
<1>3. (IF 0 > n - 1 THEN 0 ELSE (n - 1) - 0 + 1) = n
  OBVIOUS
<1>4. IsFiniteSet(1..n)
  BY <1>1, FS_Interval
<1> QED BY <1>2, <1>3, <1>4

LEMMA MaxIn ==
  ASSUME NEW S \in SUBSET Int, NEW m \in S, \A x \in S : x <= m
  PROVE  Max(S) = m
<1>1. m \in S /\ \A y \in S : m >= y
  OBVIOUS
<1>2. \A z \in S : (\A y \in S : z >= y) => z = m
  OBVIOUS
<1> QED BY <1>1, <1>2 DEF Max

\* The loops of this module, by name: a lemma can be about all of them, but not
\* about any operator.
Turn(loop, x, y) ==
  CASE loop = "AddNative" -> AddNative(x, y)
    [] loop = "FailClean" -> FailClean(x, y)
    [] loop = "Disown" -> Disown(x, y)
    [] loop = "FillSlot" -> FillSlot(x, y)
    [] loop = "RemoveAtIndex" -> RemoveAtIndex(x, y)

\* What MapThenFoldSet defines for one set of places of the sequence, and the
\* function that it is the value of.
Part(loop, b, seq, it, s) ==
  IF s = {} THEN b ELSE Turn(loop, it[s \ {Max(s)}], seq[Max(s)])
Solves(loop, b, seq, it, m) == it = [s \in SUBSET (1..m) |-> Part(loop, b, seq, it, s)]

\* g[j] is the value after j turns.
Chain(loop, b, seq, g) ==
  g[0] = b /\ \A j \in 1..Len(seq) : g[j] = Turn(loop, g[j - 1], seq[j])

\* The function by which MapThenFoldSet is defined exists.
LEMMA FoldExists ==
  ASSUME NEW loop, NEW b, NEW A, NEW seq \in Seq(A)
  PROVE  \E it : Solves(loop, b, seq, it, Len(seq))
<1> USE DEF Solves, Part
<1> DEFINE n == Len(seq)
           Good == {m \in 0..n : \E it : Solves(loop, b, seq, it, m)}
<1>1. n \in Nat
  OBVIOUS
<1>2. 0 \in Good
  <2> DEFINE it == [s \in SUBSET (1..0) |-> b]
  <2>1. Solves(loop, b, seq, it, 0)
    OBVIOUS
  <2> QED BY <1>1, <2>1
<1>3. ASSUME NEW m \in 1..n, m - 1 \in Good PROVE m \in Good
  <2>1. PICK it : Solves(loop, b, seq, it, m - 1)
    BY <1>3
  <2> DEFINE more == [s \in SUBSET (1..m) |->
                        IF m \in s THEN Turn(loop, it[s \ {m}], seq[m]) ELSE it[s]]
  <2>2. ASSUME NEW s \in SUBSET (1..m)
        PROVE  more[s] = IF m \in s THEN Turn(loop, it[s \ {m}], seq[m]) ELSE it[s]
    OBVIOUS
  <2> HIDE DEF more
  <2>3. ASSUME NEW s \in SUBSET (1..m) PROVE more[s] = Part(loop, b, seq, more, s)
    <3>1. CASE m \in s
      <4>1. Max(s) = m /\ s # {}
        BY <3>1, MaxIn
      <4>2. s \ {m} \in SUBSET (1..m) /\ m \notin s \ {m}
        OBVIOUS
      <4>3. more[s \ {m}] = it[s \ {m}]
        BY <2>2, <4>2
      <4> QED BY <2>2, <3>1, <4>1, <4>3
    <3>2. CASE m \notin s
      <4>1. s \in SUBSET (1..m - 1)
        BY <3>2
      <4>2. it[s] = Part(loop, b, seq, it, s)
        BY <2>1, <4>1
      <4>3. CASE s = {}
        BY <2>2, <4>2, <4>3
      <4>4. CASE s # {}
        <5>1. s \ {Max(s)} \in SUBSET (1..m) /\ m \notin s \ {Max(s)}
          BY <3>2
        <5>2. more[s \ {Max(s)}] = it[s \ {Max(s)}] /\ more[s] = it[s]
          BY <2>2, <3>2, <5>1
        <5> QED BY <4>2, <4>4, <5>2
      <4> QED BY <4>3, <4>4
    <3> QED BY <3>1, <3>2
  <2>4. more = [s \in SUBSET (1..m) |-> more[s]]
    BY DEF more
  <2>5. Solves(loop, b, seq, more, m)
    BY <2>3, <2>4
  <2>6. m \in 0..n
    OBVIOUS
  <2> HIDE DEF Solves, n
  <2> QED BY Zenon, <2>5, <2>6
<1>4. \E it : Solves(loop, b, seq, it, n)
  <2>1. \A m \in 1..n : m - 1 \in Good => m \in Good
    BY Zenon, <1>3
  <2> HIDE DEF Good, n
  <2>2. \A m \in 0..n : m \in Good
    BY Zenon, <1>1, <1>2, <2>1, Along
  <2>3. n \in Good
    BY <1>1, <2>2
  <2> QED BY <2>3 DEF Good
<1> QED BY <1>4

\* It takes the loop from each prefix of the sequence to the next.
LEMMA FoldChain ==
  ASSUME NEW loop, NEW b, NEW A, NEW seq \in Seq(A), NEW it,
         Solves(loop, b, seq, it, Len(seq))
  PROVE  \E g : Chain(loop, b, seq, g) /\ it[DOMAIN seq] = g[Len(seq)]
<1> USE DEF Solves, Part
<1> DEFINE n == Len(seq)
           g == [j \in 0..n |-> it[1..j]]
<1>1. n \in Nat /\ DOMAIN seq = 1..n
  OBVIOUS
<1>2. it[DOMAIN seq] = g[n] /\ g[0] = b
  <2>1. it[1..0] = Part(loop, b, seq, it, 1..0)
    <3>1. 1..0 \in SUBSET (1..n)
      OBVIOUS
    <3> QED BY <3>1
  <2>2. it[1..0] = b
    BY <2>1
  <2> QED BY <1>1, <2>2
<1>3. ASSUME NEW j \in 1..n PROVE g[j] = Turn(loop, g[j - 1], seq[j])
  <2>1. (1..j) \ {j} = 1..j - 1 /\ 1..j # {} /\ Max(1..j) = j
    <3>1. 1..j \in SUBSET Int /\ j \in 1..j /\ \A x \in 1..j : x <= j
      BY <1>1
    <3>2. Max(1..j) = j
      BY <3>1, MaxIn
    <3>3. j \in 1..j /\ \A x : x \in (1..j) \ {j} <=> x \in 1..j - 1
      BY <1>1
    <3> QED BY <3>2, <3>3
  <2>2. 1..j \in SUBSET (1..n)
    BY <1>1
  <2>3. it[1..j] = Part(loop, b, seq, it, 1..j)
    BY <2>2
  <2>4. (1..j) \ {Max(1..j)} = 1..j - 1
    BY <2>1
  <2>5. it[1..j] = Turn(loop, it[1..j - 1], seq[j])
    <3>1. Part(loop, b, seq, it, 1..j) =
            Turn(loop, it[(1..j) \ {Max(1..j)}], seq[Max(1..j)])
      BY <2>1
    <3> HIDE DEF Part, Solves
    <3> QED BY <2>1, <2>3, <2>4, <3>1
  <2>6. g[j] = it[1..j] /\ g[j - 1] = it[1..j - 1]
    <3>1. j \in 0..n /\ j - 1 \in 0..n
      BY <1>1
    <3> HIDE DEF n
    <3> QED BY <3>1
  <2> QED BY <2>5, <2>6
<1> QED BY <1>2, <1>3 DEF Chain

\* So each of the five loops is a chain.
LEMMA AddNativeChain ==
  ASSUME NEW b, NEW A, NEW seq \in Seq(A)
  PROVE  \E g : Chain("AddNative", b, seq, g) /\ FoldLeft(AddNative, b, seq) = g[Len(seq)]
<1> DEFINE it == CHOOSE it : it = [s \in SUBSET DOMAIN seq |->
                   IF s = {} THEN b ELSE AddNative(it[s \ {Max(s)}], seq[Max(s)])]
<1>1. ASSUME NEW f PROVE
        Solves("AddNative", b, seq, f, Len(seq)) <=>
          f = [s \in SUBSET DOMAIN seq |->
                 IF s = {} THEN b ELSE AddNative(f[s \ {Max(s)}], seq[Max(s)])]
  <2>1. \A s : Part("AddNative", b, seq, f, s) =
                IF s = {} THEN b ELSE AddNative(f[s \ {Max(s)}], seq[Max(s)])
    BY DEF Turn, Part
  <2>2. DOMAIN seq = 1..Len(seq)
    OBVIOUS
  <2> QED BY <2>1, <2>2 DEF Solves
<1>2. Solves("AddNative", b, seq, it, Len(seq))
  BY <1>1, FoldExists
<1>3. FoldLeft(AddNative, b, seq) = it[DOMAIN seq]
  BY Zenon DEF FoldLeft, MapThenFoldSet
<1> HIDE DEF it
<1> QED BY <1>2, <1>3, FoldChain

LEMMA FailCleanChain ==
  ASSUME NEW b, NEW A, NEW seq \in Seq(A)
  PROVE  \E g : Chain("FailClean", b, seq, g) /\ FoldLeft(FailClean, b, seq) = g[Len(seq)]
<1> DEFINE it == CHOOSE it : it = [s \in SUBSET DOMAIN seq |->
                   IF s = {} THEN b ELSE FailClean(it[s \ {Max(s)}], seq[Max(s)])]
<1>1. ASSUME NEW f PROVE
        Solves("FailClean", b, seq, f, Len(seq)) <=>
          f = [s \in SUBSET DOMAIN seq |->
                 IF s = {} THEN b ELSE FailClean(f[s \ {Max(s)}], seq[Max(s)])]
  <2>1. \A s : Part("FailClean", b, seq, f, s) =
                IF s = {} THEN b ELSE FailClean(f[s \ {Max(s)}], seq[Max(s)])
    BY DEF Turn, Part
  <2>2. DOMAIN seq = 1..Len(seq)
    OBVIOUS
  <2> QED BY <2>1, <2>2 DEF Solves
<1>2. Solves("FailClean", b, seq, it, Len(seq))
  BY <1>1, FoldExists
<1>3. FoldLeft(FailClean, b, seq) = it[DOMAIN seq]
  BY Zenon DEF FoldLeft, MapThenFoldSet
<1> HIDE DEF it
<1> QED BY <1>2, <1>3, FoldChain

LEMMA DisownChain ==
  ASSUME NEW b, NEW A, NEW seq \in Seq(A)
  PROVE  \E g : Chain("Disown", b, seq, g) /\ FoldLeft(Disown, b, seq) = g[Len(seq)]
<1> DEFINE it == CHOOSE it : it = [s \in SUBSET DOMAIN seq |->
                   IF s = {} THEN b ELSE Disown(it[s \ {Max(s)}], seq[Max(s)])]
<1>1. ASSUME NEW f PROVE
        Solves("Disown", b, seq, f, Len(seq)) <=>
          f = [s \in SUBSET DOMAIN seq |->
                 IF s = {} THEN b ELSE Disown(f[s \ {Max(s)}], seq[Max(s)])]
  <2>1. \A s : Part("Disown", b, seq, f, s) =
                IF s = {} THEN b ELSE Disown(f[s \ {Max(s)}], seq[Max(s)])
    BY DEF Turn, Part
  <2>2. DOMAIN seq = 1..Len(seq)
    OBVIOUS
  <2> QED BY <2>1, <2>2 DEF Solves
<1>2. Solves("Disown", b, seq, it, Len(seq))
  BY <1>1, FoldExists
<1>3. FoldLeft(Disown, b, seq) = it[DOMAIN seq]
  BY Zenon DEF FoldLeft, MapThenFoldSet
<1> HIDE DEF it
<1> QED BY <1>2, <1>3, FoldChain

LEMMA FillSlotChain ==
  ASSUME NEW b, NEW A, NEW seq \in Seq(A)
  PROVE  \E g : Chain("FillSlot", b, seq, g) /\ FoldLeft(FillSlot, b, seq) = g[Len(seq)]
<1> DEFINE it == CHOOSE it : it = [s \in SUBSET DOMAIN seq |->
                   IF s = {} THEN b ELSE FillSlot(it[s \ {Max(s)}], seq[Max(s)])]
<1>1. ASSUME NEW f PROVE
        Solves("FillSlot", b, seq, f, Len(seq)) <=>
          f = [s \in SUBSET DOMAIN seq |->
                 IF s = {} THEN b ELSE FillSlot(f[s \ {Max(s)}], seq[Max(s)])]
  <2>1. \A s : Part("FillSlot", b, seq, f, s) =
                IF s = {} THEN b ELSE FillSlot(f[s \ {Max(s)}], seq[Max(s)])
    BY DEF Turn, Part
  <2>2. DOMAIN seq = 1..Len(seq)
    OBVIOUS
  <2> QED BY <2>1, <2>2 DEF Solves
<1>2. Solves("FillSlot", b, seq, it, Len(seq))
  BY <1>1, FoldExists
<1>3. FoldLeft(FillSlot, b, seq) = it[DOMAIN seq]
  BY Zenon DEF FoldLeft, MapThenFoldSet
<1> HIDE DEF it
<1> QED BY <1>2, <1>3, FoldChain

LEMMA RemoveAtIndexChain ==
  ASSUME NEW b, NEW A, NEW seq \in Seq(A)
  PROVE  \E g : /\ Chain("RemoveAtIndex", b, seq, g)
              /\ FoldLeft(RemoveAtIndex, b, seq) = g[Len(seq)]
<1> DEFINE it == CHOOSE it : it = [s \in SUBSET DOMAIN seq |->
                   IF s = {} THEN b ELSE RemoveAtIndex(it[s \ {Max(s)}], seq[Max(s)])]
<1>1. ASSUME NEW f PROVE
        Solves("RemoveAtIndex", b, seq, f, Len(seq)) <=>
          f = [s \in SUBSET DOMAIN seq |->
                 IF s = {} THEN b ELSE RemoveAtIndex(f[s \ {Max(s)}], seq[Max(s)])]
  <2>1. \A s : Part("RemoveAtIndex", b, seq, f, s) =
                IF s = {} THEN b ELSE RemoveAtIndex(f[s \ {Max(s)}], seq[Max(s)])
    BY DEF Turn, Part
  <2>2. DOMAIN seq = 1..Len(seq)
    OBVIOUS
  <2> QED BY <2>1, <2>2 DEF Solves
<1>2. Solves("RemoveAtIndex", b, seq, it, Len(seq))
  BY <1>1, FoldExists
<1>3. FoldLeft(RemoveAtIndex, b, seq) = it[DOMAIN seq]
  BY Zenon DEF FoldLeft, MapThenFoldSet
<1> HIDE DEF it
<1> QED BY <1>2, <1>3, FoldChain

-----------------------------------------------------------------------------
(* The state of an EventSet, and a structure with another table of natives.*)

Entries ==
  [ni_event : Natives \cup {NoNative}, ni_position : Slots \cup {-1},
   ni_owners : Nat, ni_bits : SUBSET Natives]
Tables == [Slots -> Entries]
EventRecs == [event_code : Events, pos : Seq(Slots \cup {-1})]
EventLists == Seq(EventRecs)
Counts == 0..NumCntrs
Interrupts == -1..1
Selects == [Slots -> SUBSET Natives]
Registers == SUBSET Slots
Overflows == Events \cup {NoEvent}
Structs ==
  [events : EventLists, native : Tables, NativeCount : Counts,
   evntsel : Selects, enabled : Registers, nractrs : Counts, nrictrs : Interrupts,
   overflow : Overflows]

LEMMA MinIn ==
  ASSUME NEW S \in SUBSET Nat, S # {}
  PROVE  Min(S) \in S /\ \A x \in S : Min(S) <= x
<1> DEFINE Less == {ss \in Nat \X Nat : ss[1] < ss[2]}
<1>1. IsWellFoundedOn(Less, Nat)
  BY NatLessThanWellFounded DEF OpToRel
<1>2. PICK x \in S : \A y \in S : ~ (<<y, x>> \in Less)
  BY <1>1, WFMin
<1>3. ASSUME NEW y \in S PROVE ~ (y < x)
  <2> SUFFICES ASSUME y < x PROVE <<y, x>> \in Less
    BY <1>2
  <2>1. <<y, x>> \in Nat \X Nat /\ <<y, x>>[1] = y /\ <<y, x>>[2] = x
    OBVIOUS
  <2> QED BY <2>1
<1>4. \A y \in S : x =< y
  BY <1>3
<1>5. \A z \in S : (\A y \in S : z =< y) => z = x
  BY <1>4
<1> QED BY <1>4, <1>5 DEF Min

\* Two structures that differ in their tables of natives at most.
Kept(s, t) ==
  /\ t.events = s.events /\ t.evntsel = s.evntsel /\ t.enabled = s.enabled
  /\ t.nractrs = s.nractrs /\ t.nrictrs = s.nrictrs /\ t.overflow = s.overflow

LEMMA SameStruct ==
  ASSUME NEW s \in Structs, NEW t \in Structs, Kept(s, t),
         t.native = s.native, t.NativeCount = s.NativeCount
  PROVE  t = s
BY DEF Structs, Kept

\* Fields and slots that are written keep their types.
LEMMA EntryUpdate ==
  ASSUME NEW e \in Entries
  PROVE  /\ e.ni_owners \in Nat
         /\ \A m \in Nat : [e EXCEPT !.ni_owners = m] \in Entries
         /\ \A m \in Nat, n \in Natives :
              [e EXCEPT !.ni_event = n, !.ni_owners = m] \in Entries
         /\ \A p \in Slots \cup {-1} : [e EXCEPT !.ni_position = p] \in Entries
<1>1. \A n \in Natives : n \in Natives \cup {NoNative}
  OBVIOUS
<1> QED BY Zenon, <1>1 DEF Entries

LEMMA TableUpdate ==
  ASSUME NEW nat \in Tables, NEW k \in Slots, NEW e \in Entries
  PROVE  [nat EXCEPT ![k] = e] \in Tables /\ nat[k] \in Entries
BY DEF Tables

Adds == [esi : Structs, done : Nat, full : BOOLEAN]

\* One native event is looked for in the array; it is there, or takes a slot.
LEMMA AddNativeTurn ==
  ASSUME NEW a \in Adds, NEW n \in Natives
  PROVE  LET s == a.esi
             r == AddNative(a, n)
             held == Mapped(s, n)
             k == Min(held)
             c == s.NativeCount
         IN /\ r \in Adds
            /\ Kept(s, r.esi)
            /\ a.full => r = a
            /\ ~a.full /\ held # {} =>
                 /\ k \in held
                 /\ r.esi.native = [s.native EXCEPT ![k].ni_owners = @ + 1]
                 /\ r.esi.NativeCount = c /\ r.done = a.done + 1 /\ ~r.full
            /\ ~a.full /\ held = {} /\ c = NumCntrs =>
                 r.full /\ r.esi = s /\ r.done = a.done
            /\ ~a.full /\ held = {} /\ c # NumCntrs =>
                 /\ r.esi.native = [s.native EXCEPT
                      ![c] = [@ EXCEPT !.ni_event = n, !.ni_owners = 1]]
                 /\ r.esi.NativeCount = c + 1 /\ r.done = a.done + 1 /\ ~r.full
<1> DEFINE s == a.esi
           r == AddNative(a, n)
           held == Mapped(s, n)
           k == Min(held)
           c == s.NativeCount
<1>1. /\ s \in Structs /\ a.done \in Nat
      /\ s.NativeCount \in Counts /\ s.native \in Tables
  BY DEF Adds, Structs
<1>2. held # {} => k \in held /\ k \in Slots
  <2>1. held \in SUBSET Nat /\ held \subseteq Slots
    BY <1>1 DEF Mapped, Counts
  <2> QED BY <2>1, MinIn
<1>3. CASE a.full
  BY <1>3, <1>1 DEF AddNative, Kept
<1>4. CASE ~a.full /\ held # {}
  <2>1. r = [a EXCEPT !.esi = [s EXCEPT !.native[k].ni_owners = @ + 1], !.done = @ + 1]
    BY <1>4 DEF AddNative
  <2> HIDE DEF k, r, held
  <2> DEFINE nat == [s.native EXCEPT ![k].ni_owners = @ + 1]
             t == [s EXCEPT !.native = nat]
  <2>2. nat \in Tables
    <3>1. k \in Slots /\ s.native[k] \in Entries
      BY <1>1, <1>2, <1>4 DEF k, held, Tables
    <3>2. s.native[k].ni_owners + 1 \in Nat
      BY <3>1 DEF Entries
    <3> DEFINE e == [s.native[k] EXCEPT !.ni_owners = s.native[k].ni_owners + 1]
    <3>3. e \in Entries
      BY Zenon, <3>1, <3>2, EntryUpdate
    <3>4. nat = [s.native EXCEPT ![k] = e]
      OBVIOUS
    <3> HIDE DEF e
    <3> QED BY <1>1, <3>1, <3>3, <3>4, TableUpdate
  <2>3. r = [a EXCEPT !.esi = t, !.done = @ + 1]
    BY <2>1
  <2> HIDE DEF nat
  <2>4. t \in Structs /\ Kept(s, t) /\ t.native = nat /\ t.NativeCount = c
    BY <1>1, <2>2 DEF Structs, Kept
  <2> HIDE DEF t
  <2>5. r \in Adds
    <3>1. a.done + 1 \in Nat
      BY <1>1
    <3> QED BY <2>3, <2>4, <3>1 DEF Adds
  <2>6. r.esi = t /\ r.done = a.done + 1 /\ r.full = FALSE
    BY <1>4, <2>3 DEF Adds
  <2> QED BY <1>2, <1>4, <2>4, <2>5, <2>6 DEF k, r, held, nat
<1>5. CASE ~a.full /\ held = {} /\ c = NumCntrs
  BY <1>1, <1>5 DEF AddNative, Adds, Kept
<1>6. CASE ~a.full /\ held = {} /\ c # NumCntrs
  <2>1. r = [a EXCEPT !.esi = [s EXCEPT !.native[c] = [@ EXCEPT !.ni_event = n,
                                                               !.ni_owners = 1],
                                        !.NativeCount = @ + 1],
                      !.done = @ + 1]
    BY <1>6 DEF AddNative
  <2> HIDE DEF r, held
  <2> DEFINE nat == [s.native EXCEPT ![c] = [@ EXCEPT !.ni_event = n, !.ni_owners = 1]]
             t == [s EXCEPT !.native = nat, !.NativeCount = c + 1]
  <2>2. nat \in Tables /\ c + 1 \in Counts
    <3>1. c \in Slots /\ s.native[c] \in Entries /\ c + 1 \in Counts
      BY <1>1, <1>6 DEF Tables, Counts
    <3> DEFINE e == [s.native[c] EXCEPT !.ni_event = n, !.ni_owners = 1]
    <3>2. e \in Entries
      BY Zenon, <3>1, EntryUpdate
    <3> HIDE DEF e
    <3>3. nat = [s.native EXCEPT ![c] = e]
      BY DEF e
    <3> QED BY <1>1, <3>1, <3>2, <3>3, TableUpdate
  <2>3. r = [a EXCEPT !.esi = t, !.done = @ + 1]
    BY <2>1
  <2> HIDE DEF nat
  <2>4. t \in Structs /\ Kept(s, t) /\ t.native = nat /\ t.NativeCount = c + 1
    BY <1>1, <2>2 DEF Structs, Kept
  <2> HIDE DEF t
  <2>5. r \in Adds
    <3>1. a.done + 1 \in Nat
      BY <1>1
    <3> QED BY <2>3, <2>4, <3>1 DEF Adds
  <2>6. r.esi = t /\ r.done = a.done + 1 /\ r.full = FALSE
    BY <1>6, <2>3 DEF Adds
  <2> QED BY <1>6, <2>4, <2>5, <2>6 DEF r, held, nat
<1> QED BY <1>3, <1>4, <1>5, <1>6

-----------------------------------------------------------------------------
(* The table of native events against the events of the set.               *)

\* The events of C made of n, and all that the events of C are made of.
Makers(C, n) == {c \in C : n \in ToSet(Terms[c])}
NativesOf(C) == UNION {ToSet(Terms[c]) : c \in C}

\* The first count slots are in use, by different native events, and no other.
Dense(nat, count) ==
  /\ \A k \in count..NumCntrs - 1 : nat[k] = Empty
  /\ \A k \in 0..count - 1 : nat[k].ni_event \in Natives
  /\ \A k, l \in 0..count - 1 : nat[k].ni_event = nat[l].ni_event => k = l

\* The natives of the events C, each counted once for each event made of it.
Table(nat, count, C) ==
  /\ Dense(nat, count)
  /\ \A k \in 0..count - 1 :
       /\ nat[k].ni_event \in NativesOf(C)
       /\ nat[k].ni_owners = Cardinality(Makers(C, nat[k].ni_event))
  /\ \A n \in NativesOf(C) : \E k \in 0..count - 1 : nat[k].ni_event = n

\* What a loop over seq has met after d turns.
Firsts(seq, d) == {seq[i] : i \in 1..d}

\* A slot with one owner more, and a slot just taken.
One(e) == [e EXCEPT !.ni_owners = @ + 1]
New(n) == [Empty EXCEPT !.ni_event = n, !.ni_owners = 1]

\* s after the native events D of a new event were counted in, which is t.
Adding(s, t, D) ==
  /\ t \in Structs /\ Kept(s, t)
  /\ s.NativeCount <= t.NativeCount
  /\ Dense(t.native, t.NativeCount)
  /\ \A k \in 0..s.NativeCount - 1 :
       t.native[k] = IF s.native[k].ni_event \in D THEN One(s.native[k]) ELSE s.native[k]
  /\ \A k \in s.NativeCount..t.NativeCount - 1 :
       /\ t.native[k].ni_event \in D
       /\ \A l \in 0..s.NativeCount - 1 : s.native[l].ni_event # t.native[k].ni_event
       /\ t.native[k] = New(t.native[k].ni_event)
  /\ \A n \in D : \E k \in 0..t.NativeCount - 1 : t.native[k].ni_event = n

LEMMA EmptyEntry ==
  /\ Empty \in Entries /\ Empty.ni_event = NoNative
  /\ \A n \in Natives : New(n) \in Entries /\ New(n).ni_event = n /\ New(n) # Empty
  /\ \A e \in Entries : One(e) \in Entries /\ One(e).ni_event = e.ni_event
                        /\ One(e).ni_owners = e.ni_owners + 1
<1>1. Empty \in Entries /\ Empty.ni_event = NoNative
  BY DEF Empty, Entries
<1>2. ASSUME NEW n \in Natives PROVE New(n) \in Entries /\ New(n).ni_event = n /\ New(n) # Empty
  <2>1. New(n) \in Entries
    BY Zenon, <1>1, EntryUpdate DEF New
  <2>2. New(n).ni_event = n
    BY <1>1 DEF New, Entries
  <2> QED BY <1>1, <2>1, <2>2
<1>3. ASSUME NEW e \in Entries
      PROVE One(e) \in Entries /\ One(e).ni_event = e.ni_event
            /\ One(e).ni_owners = e.ni_owners + 1
  <2>1. e.ni_owners + 1 \in Nat
    BY DEF Entries
  <2>2. One(e) \in Entries
    <3> DEFINE m == e.ni_owners + 1
    <3>1. One(e) = [e EXCEPT !.ni_owners = m]
      BY DEF One
    <3> HIDE DEF m
    <3>2. m \in Nat
      BY <2>1 DEF m
    <3> QED BY Zenon, <3>1, <3>2, EntryUpdate
  <2>3. One(e).ni_event = e.ni_event /\ One(e).ni_owners = e.ni_owners + 1
    BY DEF One, Entries
  <2> QED BY <2>2, <2>3
<1> QED BY <1>1, <1>2, <1>3

LEMMA AddingParts ==
  ASSUME NEW s, NEW t, NEW D,
         t \in Structs, Kept(s, t), s.NativeCount <= t.NativeCount,
         Dense(t.native, t.NativeCount),
         \A k \in 0..s.NativeCount - 1 :
           t.native[k] = IF s.native[k].ni_event \in D THEN One(s.native[k]) ELSE s.native[k],
         \A k \in s.NativeCount..t.NativeCount - 1 :
           /\ t.native[k].ni_event \in D
           /\ \A l \in 0..s.NativeCount - 1 : s.native[l].ni_event # t.native[k].ni_event
           /\ t.native[k] = New(t.native[k].ni_event),
         \A n \in D : \E k \in 0..t.NativeCount - 1 : t.native[k].ni_event = n
  PROVE  Adding(s, t, D)
BY Zenon DEF Adding

\* One turn of the loop of add_native_events that finds the native event or a slot.
LEMMA AddingOne ==
  ASSUME NEW s \in Structs, NEW a \in Adds, NEW D \in SUBSET Natives, NEW n \in Natives \ D,
         Adding(s, a.esi, D), ~a.full, ~AddNative(a, n).full
  PROVE  Adding(s, AddNative(a, n).esi, D \cup {n})
<1> DEFINE t == a.esi
           u == AddNative(a, n).esi
           held == Mapped(t, n)
           c == t.NativeCount
<1>1. t \in Structs /\ t.native \in Tables /\ c \in Counts
      /\ s.native \in Tables /\ s.NativeCount \in Counts
  BY DEF Adds, Structs
<1>2. u \in Structs /\ Kept(s, u)
  <2>1. AddNative(a, n) \in Adds /\ Kept(t, u)
    BY Zenon, AddNativeTurn
  <2>2. u \in Structs
    BY <2>1 DEF Adds
  <2>3. Kept(s, t)
    BY DEF Adding
  <2> HIDE DEF t, u
  <2> QED BY <2>1, <2>2, <2>3 DEF Kept
<1>3. CASE held # {}
  <2> DEFINE k == Min(held)
  <2>1. k \in held /\ u.native = [t.native EXCEPT ![k].ni_owners = @ + 1]
        /\ u.NativeCount = c
    BY Zenon, <1>3, AddNativeTurn
  <2> HIDE DEF k, u
  <2>2. k \in 0..c - 1 /\ k \in Slots /\ t.native[k].ni_event = n
    BY <1>1, <2>1 DEF Mapped, Counts
  <2>3. u.native = [t.native EXCEPT ![k] = One(t.native[k])]
    BY <2>1 DEF One
  <2>4. k < s.NativeCount
    BY <1>1, <2>2 DEF Adding, Counts
  <2>5. t.native[k] = s.native[k]
    <3>1. k \in 0..s.NativeCount - 1
      BY <1>1, <2>2, <2>4 DEF Counts
    <3>2. t.native[k] = IF s.native[k].ni_event \in D THEN One(s.native[k])
                        ELSE s.native[k]
      BY <3>1 DEF Adding
    <3>3. One(s.native[k]).ni_event = s.native[k].ni_event
      BY <1>1, <2>2, EmptyEntry DEF Tables
    <3> QED BY <2>2, <3>2, <3>3
  <2>6. \A l \in Slots : u.native[l] = IF l = k THEN One(t.native[l]) ELSE t.native[l]
    BY <1>1, <2>2, <2>3 DEF Tables
  <2>7. \A l \in Slots : u.native[l].ni_event = t.native[l].ni_event
    BY <1>1, <2>6, EmptyEntry DEF Tables
  <2>8. Dense(u.native, c)
    <3>1. Dense(t.native, c)
      BY DEF Adding
    <3>2. \A l \in c..NumCntrs - 1 : l \in Slots /\ l # k
      BY <1>1, <2>2 DEF Counts
    <3>3. 0..c - 1 \subseteq Slots
      BY <1>1 DEF Counts
    <3> QED BY <2>6, <2>7, <3>1, <3>2, <3>3 DEF Dense
  <2>9. \A l \in 0..s.NativeCount - 1 :
          u.native[l] = IF s.native[l].ni_event \in D \cup {n} THEN One(s.native[l])
                        ELSE s.native[l]
    <3> SUFFICES ASSUME NEW l \in 0..s.NativeCount - 1
                 PROVE  u.native[l] = IF s.native[l].ni_event \in D \cup {n}
                                      THEN One(s.native[l]) ELSE s.native[l]
      OBVIOUS
    <3>1. l \in Slots /\ l \in 0..c - 1
      BY <1>1 DEF Counts, Adding
    <3>2. t.native[l] = IF s.native[l].ni_event \in D THEN One(s.native[l])
                        ELSE s.native[l]
      BY DEF Adding
    <3>3. CASE l = k
      BY <2>2, <2>5, <2>6, <3>1, <3>3
    <3>4. CASE l # k
      <4>1. t.native[l].ni_event # n
        BY <2>2, <3>1, <3>4 DEF Adding, Dense
      <4>2. s.native[l].ni_event # n
        BY <1>1, <3>1, <3>2, <4>1, EmptyEntry DEF Tables
      <4> QED BY <2>6, <3>1, <3>2, <3>4, <4>2
    <3> QED BY <3>3, <3>4
  <2>10. \A l \in s.NativeCount..u.NativeCount - 1 : u.native[l] = t.native[l]
    BY <1>1, <2>1, <2>4, <2>6 DEF Counts
  <2>11. \A m \in D \cup {n} : \E l \in 0..u.NativeCount - 1 : u.native[l].ni_event = m
    <3>1. \A l \in 0..c - 1 : u.native[l].ni_event = t.native[l].ni_event
      BY <1>1, <2>7 DEF Counts
    <3> QED BY <2>1, <2>2, <3>1 DEF Adding
  <2>12. s.NativeCount <= u.NativeCount /\ Dense(u.native, u.NativeCount)
    BY <2>1, <2>8 DEF Adding
  <2>13. \A l \in s.NativeCount..u.NativeCount - 1 :
           /\ u.native[l].ni_event \in D \cup {n}
           /\ \A m \in 0..s.NativeCount - 1 : s.native[m].ni_event # u.native[l].ni_event
           /\ u.native[l] = New(u.native[l].ni_event)
    <3>1. \A l \in s.NativeCount..t.NativeCount - 1 :
            /\ t.native[l].ni_event \in D
            /\ \A m \in 0..s.NativeCount - 1 : s.native[m].ni_event # t.native[l].ni_event
            /\ t.native[l] = New(t.native[l].ni_event)
      BY DEF Adding
    <3>2. u.NativeCount = t.NativeCount
      BY <2>1
    <3> HIDE DEF t, u
    <3> QED BY <2>10, <3>1, <3>2
  <2> HIDE DEF t, u, c
  <2>14. Adding(s, u, D \cup {n})
    BY Zenon, <1>2, <2>9, <2>11, <2>12, <2>13, AddingParts
  <2> QED BY <2>14 DEF u
<1>4. CASE held = {}
  <2>1. c # NumCntrs /\ u.NativeCount = c + 1
        /\ u.native = [t.native EXCEPT ![c] = [@ EXCEPT !.ni_event = n, !.ni_owners = 1]]
    BY Zenon, <1>4, AddNativeTurn
  <2> HIDE DEF u
  <2>2. c \in Slots /\ t.native[c] = Empty
    BY <1>1, <2>1 DEF Adding, Dense, Counts
  <2>3. \A l \in Slots : u.native[l] = IF l = c THEN New(n) ELSE t.native[l]
    BY <1>1, <2>1, <2>2 DEF Tables, New
  <2>4. \A l \in 0..c - 1 : l \in Slots /\ l # c /\ t.native[l].ni_event # n
    BY <1>1, <1>4 DEF Mapped, Counts
  <2>5. Dense(u.native, c + 1)
    <3>1. Dense(t.native, c)
      BY DEF Adding
    <3>2. \A l \in c + 1..NumCntrs - 1 : l \in Slots /\ l # c /\ l \in c..NumCntrs - 1
      BY <1>1 DEF Counts
    <3>3. \A l \in 0..(c + 1) - 1 : l \in Slots /\ (l = c \/ l \in 0..c - 1)
      BY <1>1, <2>2 DEF Counts
    <3>4. New(n).ni_event = n
      BY EmptyEntry
    <3>5. \A l \in c + 1..NumCntrs - 1 : u.native[l] = Empty
      BY <2>3, <3>1, <3>2 DEF Dense
    <3>6. \A l \in 0..(c + 1) - 1 : u.native[l].ni_event \in Natives
      BY <2>3, <3>1, <3>3, <3>4 DEF Dense
    <3>7. \A l, m \in 0..(c + 1) - 1 : u.native[l].ni_event = u.native[m].ni_event => l = m
      BY <2>3, <2>4, <3>1, <3>3, <3>4 DEF Dense
    <3> QED BY <3>5, <3>6, <3>7 DEF Dense
  <2>6. \A l \in 0..s.NativeCount - 1 : u.native[l] = t.native[l] /\ s.native[l].ni_event # n
    <3> SUFFICES ASSUME NEW l \in 0..s.NativeCount - 1
                 PROVE  u.native[l] = t.native[l] /\ s.native[l].ni_event # n
      OBVIOUS
    <3>1. l \in 0..c - 1
      BY <1>1 DEF Adding, Counts
    <3>2. u.native[l] = t.native[l] /\ t.native[l].ni_event # n /\ l \in Slots
      BY <2>3, <2>4, <3>1
    <3>3. t.native[l] = IF s.native[l].ni_event \in D THEN One(s.native[l])
                        ELSE s.native[l]
      BY DEF Adding
    <3> QED BY <1>1, <3>2, <3>3, EmptyEntry DEF Tables
  <2>7. \A l \in s.NativeCount..u.NativeCount - 1 :
          l = c \/ (l \in s.NativeCount..c - 1 /\ l \in 0..c - 1)
    BY <1>1, <2>1 DEF Counts
  <2>8. \A l \in s.NativeCount..u.NativeCount - 1 :
          /\ u.native[l].ni_event \in D \cup {n}
          /\ \A m \in 0..s.NativeCount - 1 : s.native[m].ni_event # u.native[l].ni_event
          /\ u.native[l] = New(u.native[l].ni_event)
    <3> SUFFICES ASSUME NEW l \in s.NativeCount..u.NativeCount - 1
                 PROVE  /\ u.native[l].ni_event \in D \cup {n}
                        /\ \A m \in 0..s.NativeCount - 1 :
                             s.native[m].ni_event # u.native[l].ni_event
                        /\ u.native[l] = New(u.native[l].ni_event)
      OBVIOUS
    <3>1. CASE l = c
      <4>1. u.native[l] = New(n) /\ New(n).ni_event = n
        BY <2>2, <2>3, <3>1, EmptyEntry
      <4> QED BY <2>6, <4>1
    <3>2. CASE l \in s.NativeCount..c - 1 /\ l \in 0..c - 1
      <4>1. u.native[l] = t.native[l]
        BY <2>3, <2>4, <3>2
      <4> QED BY <3>2, <4>1 DEF Adding
    <3> QED BY <2>7, <3>1, <3>2
  <2>9. \A m \in D \cup {n} : \E l \in 0..u.NativeCount - 1 : u.native[l].ni_event = m
    <3>1. c \in 0..u.NativeCount - 1 /\ u.native[c].ni_event = n
      BY <1>1, <2>1, <2>2, <2>3, EmptyEntry DEF Counts
    <3>2. \A l \in 0..c - 1 : l \in 0..u.NativeCount - 1 /\ u.native[l] = t.native[l]
      BY <1>1, <2>1, <2>3, <2>4 DEF Counts
    <3>3. \A m \in D : \E l \in 0..c - 1 : t.native[l].ni_event = m
      BY DEF Adding
    <3> QED BY <3>1, <3>2, <3>3
  <2>10. s.NativeCount <= u.NativeCount
    BY <1>1, <2>1 DEF Adding, Counts
  <2>11. Dense(u.native, u.NativeCount)
    BY <2>1, <2>5
  <2>12. \A l \in 0..s.NativeCount - 1 :
           u.native[l] = IF s.native[l].ni_event \in D \cup {n} THEN One(s.native[l])
                         ELSE s.native[l]
    <3> SUFFICES ASSUME NEW l \in 0..s.NativeCount - 1
                 PROVE  u.native[l] = IF s.native[l].ni_event \in D \cup {n}
                                      THEN One(s.native[l]) ELSE s.native[l]
      OBVIOUS
    <3>1. t.native[l] = IF s.native[l].ni_event \in D THEN One(s.native[l])
                        ELSE s.native[l]
      BY DEF Adding
    <3> QED BY <2>6, <3>1
  <2> HIDE DEF t, u
  <2> QED BY <1>2, <2>8, <2>9, <2>10, <2>11, <2>12, AddingParts DEF u
<1> QED BY <1>3, <1>4

\* add_native_events, first half: the natives of a new event are counted in up to
\* the first that finds no slot.
LEMMA AddLoop ==
  ASSUME NEW s \in Structs, Dense(s.native, s.NativeCount),
         NEW seq \in Seq(Natives), IsInjective(seq)
  PROVE  LET a == FoldLeft(AddNative, [esi |-> s, done |-> 0, full |-> FALSE], seq)
         IN /\ a \in Adds /\ a.done \in 0..Len(seq)
            /\ Adding(s, a.esi, Firsts(seq, a.done))
            /\ ~a.full => a.done = Len(seq)
            /\ a.full => /\ a.esi.NativeCount = NumCntrs /\ a.done < Len(seq)
                         /\ Mapped(a.esi, seq[a.done + 1]) = {}
<1> DEFINE b == [esi |-> s, done |-> 0, full |-> FALSE]
           Sound(a, j) ==
             /\ a \in Adds /\ a.done \in 0..j
             /\ Adding(s, a.esi, Firsts(seq, a.done))
             /\ ~a.full => a.done = j
             /\ a.full => /\ a.esi.NativeCount = NumCntrs /\ a.done < j
                          /\ Mapped(a.esi, seq[a.done + 1]) = {}
<1>1. PICK g : Chain("AddNative", b, seq, g) /\ FoldLeft(AddNative, b, seq) = g[Len(seq)]
  BY AddNativeChain
<1> DEFINE Good == {j \in 0..Len(seq) : Sound(g[j], j)}
<1>2. 0 \in Good
  <2>1. g[0] = b /\ b \in Adds /\ b.esi = s /\ b.done = 0 /\ ~b.full
    BY <1>1 DEF Chain, Adds
  <2>2. Firsts(seq, 0) = {}
    BY DEF Firsts
  <2>3. Adding(s, s, {})
    BY DEF Adding, Kept, Structs, Counts
  <2> HIDE DEF b
  <2>4. Sound(b, 0)
    <3>1. Firsts(seq, b.done) = {} /\ b.done \in 0..0
      BY <2>1, <2>2
    <3>2. Adding(s, b.esi, Firsts(seq, b.done))
      BY <2>1, <2>3, <3>1
    <3> QED BY <2>1, <3>1, <3>2
  <2> HIDE DEF Sound
  <2> QED BY <2>1, <2>4
<1>3. ASSUME NEW j \in 1..Len(seq), j - 1 \in Good PROVE j \in Good
  <2> DEFINE a == g[j - 1]
             D == Firsts(seq, j - 1)
             n == seq[j]
             r == AddNative(a, n)
  <2>1. g[j] = r
    BY <1>1 DEF Chain, Turn
  <2>2. Sound(a, j - 1)
    BY <1>3
  <2> HIDE DEF a
  <2>3. n \in Natives /\ j \in Nat
    OBVIOUS
  <2>4. CASE a.full
    <3>1. r = a
      BY Zenon, <2>2, <2>3, <2>4, AddNativeTurn
    <3>2. Sound(a, j)
      BY <2>2, <2>3, <2>4
    <3> HIDE DEF Sound, r
    <3> QED BY <2>1, <3>1, <3>2
  <2>5. CASE ~a.full /\ r.full
    <3>1. a.done = j - 1
      BY <2>2, <2>5
    <3>2. /\ r \in Adds /\ r.esi = a.esi /\ r.done = a.done
          /\ a.esi.NativeCount = NumCntrs /\ Mapped(a.esi, n) = {}
      BY Zenon, <2>2, <2>3, <2>5, AddNativeTurn
    <3>3. seq[r.done + 1] = n /\ r.done < j /\ r.done \in 0..j
      BY <2>3, <3>1, <3>2
    <3> HIDE DEF r
    <3>4. Sound(r, j)
      BY <2>2, <2>5, <3>1, <3>2, <3>3
    <3> HIDE DEF Sound
    <3> QED BY <2>1, <3>4
  <2>6. CASE ~a.full /\ ~r.full
    <3>1. a.done = j - 1
      BY <2>2, <2>6
    <3>2. n \notin D /\ D \in SUBSET Natives
      <4>1. \A i \in 1..j - 1 : i \in DOMAIN seq /\ j \in DOMAIN seq /\ i # j
        BY <2>3
      <4> QED BY <4>1 DEF Firsts, IsInjective
    <3>3. Firsts(seq, j) = D \cup {n}
      <4>1. \A i : i \in 1..j <=> i \in 1..j - 1 \/ i = j
        BY <2>3
      <4> QED BY <4>1 DEF Firsts
    <3>4. Adding(s, r.esi, D \cup {n})
      <4>1. Adding(s, a.esi, D)
        BY <2>2, <3>1
      <4> HIDE DEF D
      <4> QED BY <2>2, <2>3, <2>6, <3>2, <4>1, AddingOne
    <3>5. r \in Adds /\ r.done = j
      <4>1. r \in Adds /\ r.done = a.done + 1
        BY Zenon, <2>2, <2>3, <2>6, AddNativeTurn
      <4> QED BY <2>3, <3>1, <4>1
    <3> HIDE DEF r, D
    <3>6. Sound(r, j)
      <4>1. Firsts(seq, r.done) = D \cup {n} /\ r.done \in 0..j
        BY <2>3, <3>3, <3>5
      <4>2. Adding(s, r.esi, Firsts(seq, r.done))
        BY <3>4, <4>1
      <4> QED BY <2>6, <3>5, <4>1, <4>2
    <3> HIDE DEF Sound
    <3> QED BY <2>1, <3>6
  <2> QED BY <2>4, <2>5, <2>6
<1>4. Len(seq) \in Nat
  OBVIOUS
<1>5. Len(seq) \in Good
  <2>1. \A j \in 1..Len(seq) : j - 1 \in Good => j \in Good
    BY Zenon, <1>3
  <2> HIDE DEF Good
  <2>2. \A j \in 0..Len(seq) : j \in Good
    BY Zenon, <1>2, <1>4, <2>1, Along
  <2> QED BY <1>4, <2>2
<1> QED BY <1>1, <1>5

-----------------------------------------------------------------------------
(* The way back.                                                           *)

Filled(nat) == {k \in Slots : nat[k] # Empty}

\* The slots in use can be counted, and are no more than there are slots.
LEMMA FilledCount ==
  ASSUME NEW nat \in Tables
  PROVE  IsFiniteSet(Filled(nat)) /\ Cardinality(Filled(nat)) \in Counts
<1>1. IsFiniteSet(Slots) /\ Cardinality(Slots) = NumCntrs
  BY Below
<1> HIDE DEF Slots
<1>2. Filled(nat) \in SUBSET Slots
  BY DEF Filled
<1>3. IsFiniteSet(Filled(nat)) /\ Cardinality(Filled(nat)) <= NumCntrs
  BY <1>1, <1>2, FS_Subset
<1>4. Cardinality(Filled(nat)) \in Nat
  BY <1>3, FS_CardinalityType
<1> QED BY <1>3, <1>4 DEF Counts

\* s after the native events D were counted in, t, and E of them out again, u.
Undoing(s, t, u, D, E) ==
  /\ u \in Structs /\ Kept(s, u)
  /\ \A k \in 0..s.NativeCount - 1 :
       u.native[k] = IF s.native[k].ni_event \in D \ E THEN One(s.native[k])
                     ELSE s.native[k]
  /\ \A k \in s.NativeCount..NumCntrs - 1 :
       u.native[k] = IF t.native[k].ni_event \in E THEN Empty ELSE t.native[k]
  /\ u.NativeCount = Cardinality(Filled(u.native))

LEMMA FailCleanTurn ==
  ASSUME NEW u \in Structs, NEW n \in Natives,
         {k \in Slots : u.native[k].ni_event = n} # {}
  PROVE  LET k == Min({j \in Slots : u.native[j].ni_event = n})
             v == FailClean(u, n)
         IN /\ k \in Slots /\ u.native[k].ni_event = n
            /\ v.native \in Tables /\ v.NativeCount \in Counts => v \in Structs
            /\ Kept(u, v)
            /\ u.native[k].ni_owners = 1 =>
                 v.native = [u.native EXCEPT ![k] = Empty]
                 /\ v.NativeCount = u.NativeCount - 1
            /\ u.native[k].ni_owners # 1 =>
                 v.native = [u.native EXCEPT ![k].ni_owners = @ - 1]
                 /\ v.NativeCount = u.NativeCount
<1> DEFINE held == {k \in Slots : u.native[k].ni_event = n}
           k == Min(held)
           v == FailClean(u, n)
<1>1. k \in held
  <2>1. held \in SUBSET Nat
    OBVIOUS
  <2> QED BY <2>1, MinIn
<1>2. CASE u.native[k].ni_owners = 1
  <2>1. v = [u EXCEPT !.native[k] = Empty, !.NativeCount = @ - 1]
    BY <1>2 DEF FailClean
  <2> HIDE DEF k, v, held
  <2> DEFINE nat == [u.native EXCEPT ![k] = Empty]
  <2>2. v = [u EXCEPT !.native = nat, !.NativeCount = @ - 1]
    BY <2>1
  <2> HIDE DEF nat
  <2>3. v.native = nat /\ v.NativeCount = u.NativeCount - 1 /\ Kept(u, v)
    BY <2>2 DEF Structs, Kept
  <2>4. nat \in Tables /\ v.NativeCount \in Counts => v \in Structs
    BY Zenon, <2>2, <2>3 DEF Structs
  <2> QED BY <1>1, <1>2, <2>3, <2>4 DEF nat, k, v, held
<1>3. CASE u.native[k].ni_owners # 1
  <2>1. v = [u EXCEPT !.native[k].ni_owners = @ - 1]
    BY <1>3 DEF FailClean
  <2> HIDE DEF k, v, held
  <2> DEFINE nat == [u.native EXCEPT ![k].ni_owners = @ - 1]
  <2>2. v = [u EXCEPT !.native = nat]
    BY <2>1
  <2> HIDE DEF nat
  <2>3. v.native = nat /\ v.NativeCount = u.NativeCount /\ Kept(u, v)
    BY <2>2 DEF Structs, Kept
  <2>4. nat \in Tables => v \in Structs
    BY <2>2 DEF Structs
  <2> QED BY Zenon, <1>1, <1>3, <2>3, <2>4 DEF nat, k, v, held
<1> QED BY <1>2, <1>3

\* One turn of add_native_fail_clean.
LEMMA UndoingOne ==
  ASSUME NEW s \in Structs, NEW t, NEW u, NEW D \in SUBSET Natives,
         NEW E \in SUBSET D, NEW n \in D \ E,
         Dense(s.native, s.NativeCount),
         \A k \in 0..s.NativeCount - 1 : s.native[k].ni_owners > 0,
         Adding(s, t, D), Undoing(s, t, u, D, E)
  PROVE  Undoing(s, t, FailClean(u, n), D, E \cup {n})
<1> DEFINE held == {j \in Slots : u.native[j].ni_event = n}
           k == Min(held)
           v == FailClean(u, n)
<1>1. /\ t \in Structs /\ u \in Structs /\ s.native \in Tables /\ t.native \in Tables
      /\ u.native \in Tables /\ s.NativeCount \in Counts /\ t.NativeCount \in Counts
      /\ u.NativeCount \in Counts /\ s.NativeCount <= t.NativeCount
  BY DEF Adding, Undoing, Structs
<1>2. \A l \in Slots : s.native[l] \in Entries /\ t.native[l] \in Entries
                       /\ u.native[l] \in Entries
  BY <1>1 DEF Tables
\* Who held a native event of the old set still does.
<1>3. ASSUME NEW l \in 0..s.NativeCount - 1
      PROVE  l \in Slots /\ l \in 0..t.NativeCount - 1
             /\ t.native[l].ni_event = s.native[l].ni_event
             /\ u.native[l].ni_event = s.native[l].ni_event
  <2>1. l \in Slots /\ l \in 0..t.NativeCount - 1 /\ s.native[l] \in Entries
    BY <1>1, <1>2 DEF Counts
  <2>2. t.native[l] = One(s.native[l]) \/ t.native[l] = s.native[l]
    BY DEF Adding
  <2>3. u.native[l] = One(s.native[l]) \/ u.native[l] = s.native[l]
    BY DEF Undoing
  <2> QED BY <2>1, <2>2, <2>3, EmptyEntry
<1>4. ASSUME NEW l \in Slots, u.native[l].ni_event # NoNative
      PROVE  l \in 0..t.NativeCount - 1 /\ t.native[l].ni_event = u.native[l].ni_event
  <2>1. CASE l \in 0..s.NativeCount - 1
    BY <1>3, <2>1
  <2>2. CASE l \in s.NativeCount..NumCntrs - 1
    <3>1. u.native[l] = t.native[l]
      BY <1>4, <2>2, EmptyEntry DEF Undoing
    <3>2. l \notin t.NativeCount..NumCntrs - 1
      BY <1>4, <3>1, EmptyEntry DEF Adding, Dense
    <3> QED BY <1>1, <3>1, <3>2 DEF Counts
  <2> QED BY <1>1, <2>1, <2>2 DEF Counts
<1>5. held # {}
  <2>1. PICK l \in 0..t.NativeCount - 1 : t.native[l].ni_event = n
    BY DEF Adding
  <2>2. CASE l \in 0..s.NativeCount - 1
    BY <1>3, <2>1, <2>2
  <2>3. CASE l \in s.NativeCount..NumCntrs - 1
    <3>1. u.native[l] = t.native[l]
      BY <2>1, <2>3 DEF Undoing
    <3> QED BY <1>1, <2>1, <2>3, <3>1 DEF Counts
  <2> QED BY <1>1, <2>1, <2>2, <2>3 DEF Counts
<1>6. /\ k \in Slots /\ u.native[k].ni_event = n
      /\ v.native \in Tables /\ v.NativeCount \in Counts => v \in Structs
      /\ Kept(u, v)
      /\ u.native[k].ni_owners = 1 =>
           v.native = [u.native EXCEPT ![k] = Empty] /\ v.NativeCount = u.NativeCount - 1
      /\ u.native[k].ni_owners # 1 =>
           v.native = [u.native EXCEPT ![k].ni_owners = @ - 1]
           /\ v.NativeCount = u.NativeCount
  BY <1>1, <1>5, FailCleanTurn
<1> HIDE DEF held, k, v
<1>7. n \in Natives /\ n # NoNative
  OBVIOUS
\* Nobody else holds n.
<1>8. ASSUME NEW l \in Slots, l # k PROVE u.native[l].ni_event # n
  <2> SUFFICES ASSUME u.native[l].ni_event = n PROVE FALSE
    OBVIOUS
  <2>1. /\ l \in 0..t.NativeCount - 1 /\ t.native[l].ni_event = n
        /\ k \in 0..t.NativeCount - 1 /\ t.native[k].ni_event = n
    BY <1>4, <1>6, <1>7
  <2> QED BY <1>8, <2>1 DEF Adding, Dense
<1>9. Kept(s, v)
  BY <1>6 DEF Undoing, Kept
<1>10. CASE k \in 0..s.NativeCount - 1
  <2>1. s.native[k].ni_event = n /\ u.native[k] = One(s.native[k])
    BY <1>3, <1>6, <1>10 DEF Undoing
  <2>2. s.native[k].ni_owners \in Nat /\ s.native[k].ni_owners > 0
        /\ u.native[k].ni_owners = s.native[k].ni_owners + 1
    BY <1>2, <1>6, <1>10, <2>1, EmptyEntry DEF Entries
  <2>3. v.native = [u.native EXCEPT ![k].ni_owners = @ - 1]
        /\ v.NativeCount = u.NativeCount
    BY <1>6, <2>2
  <2>4. [u.native[k] EXCEPT !.ni_owners = @ - 1] = s.native[k]
    <3> DEFINE e == s.native[k]
    <3>1. e \in Entries
      BY <1>2, <1>6
    <3> HIDE DEF e
    <3>2. One(e) \in Entries /\ One(e).ni_owners = e.ni_owners + 1
          /\ One(e).ni_event = e.ni_event /\ One(e).ni_position = e.ni_position
          /\ One(e).ni_bits = e.ni_bits
      BY <3>1, EmptyEntry DEF One, Entries
    <3>3. e.ni_owners \in Nat /\ One(e).ni_owners - 1 = e.ni_owners
      BY <3>1, <3>2 DEF Entries
    <3>4. [One(e) EXCEPT !.ni_owners = e.ni_owners] = e
      BY <3>1, <3>2 DEF Entries
    <3>5. [One(e) EXCEPT !.ni_owners = @ - 1] = [One(e) EXCEPT !.ni_owners = e.ni_owners]
      BY <3>3
    <3> QED BY <2>1, <3>4, <3>5 DEF e
  <2>5. v.native = [u.native EXCEPT ![k] = s.native[k]]
    BY <2>3, <2>4
  <2>6. \A l \in Slots : v.native[l] = IF l = k THEN s.native[k] ELSE u.native[l]
    BY <1>1, <1>6, <2>5 DEF Tables
  <2>7. v \in Structs
    BY <1>1, <1>2, <1>6, <2>3, <2>5, TableUpdate
  <2>8. \A l \in 0..s.NativeCount - 1 :
          v.native[l] = IF s.native[l].ni_event \in D \ (E \cup {n}) THEN One(s.native[l])
                        ELSE s.native[l]
    <3> SUFFICES ASSUME NEW l \in 0..s.NativeCount - 1
                 PROVE  v.native[l] = IF s.native[l].ni_event \in D \ (E \cup {n})
                                      THEN One(s.native[l]) ELSE s.native[l]
      OBVIOUS
    <3>1. CASE l = k
      BY <1>6, <2>1, <2>6, <3>1
    <3>2. CASE l # k
      <4>1. s.native[l].ni_event # n /\ v.native[l] = u.native[l]
        BY <1>3, <1>8, <2>6, <3>2
      <4> QED BY <4>1 DEF Undoing
    <3> QED BY <3>1, <3>2
  <2>9. \A l \in s.NativeCount..NumCntrs - 1 :
          v.native[l] = IF t.native[l].ni_event \in E \cup {n} THEN Empty ELSE t.native[l]
    <3> SUFFICES ASSUME NEW l \in s.NativeCount..NumCntrs - 1
                 PROVE  v.native[l] = IF t.native[l].ni_event \in E \cup {n} THEN Empty
                                      ELSE t.native[l]
      OBVIOUS
    <3>1. l \in Slots /\ l # k
      BY <1>1, <1>10 DEF Counts
    <3>2. t.native[l].ni_event # n \/ t.native[l].ni_event \in E
      BY <1>8, <3>1 DEF Undoing
    <3> QED BY <2>6, <3>1, <3>2 DEF Undoing
  <2>10. Filled(v.native) = Filled(u.native)
    <3>1. v.native[k] # Empty /\ u.native[k] # Empty
      BY <1>6, <1>7, <2>1, <2>6, EmptyEntry
    <3> QED BY <2>6, <3>1 DEF Filled
  <2> QED BY <1>9, <2>3, <2>7, <2>8, <2>9, <2>10 DEF Undoing, v
<1>11. CASE k \in s.NativeCount..NumCntrs - 1
  <2>1. u.native[k] = New(n)
    <3>1. u.native[k] = t.native[k]
      BY <1>6, <1>7, <1>11, EmptyEntry DEF Undoing
    <3>2. k \in s.NativeCount..t.NativeCount - 1 /\ t.native[k].ni_event = n
      BY <1>1, <1>4, <1>6, <1>7, <1>11 DEF Counts
    <3> QED BY <3>1, <3>2 DEF Adding
  <2>2. New(n).ni_owners = 1
    BY Zenon, EmptyEntry DEF New, Entries
  <2>3. v.native = [u.native EXCEPT ![k] = Empty] /\ v.NativeCount = u.NativeCount - 1
    BY <1>6, <2>1, <2>2
  <2>4. \A l \in Slots : v.native[l] = IF l = k THEN Empty ELSE u.native[l]
    BY <1>1, <1>6, <2>3 DEF Tables
  <2>5. v.native \in Tables
    BY <1>1, <1>6, <2>3, TableUpdate, EmptyEntry
  <2>6. v.NativeCount = Cardinality(Filled(v.native))
    <3>1. Filled(v.native) = Filled(u.native) \ {k}
      BY <2>4, <1>6 DEF Filled
    <3>2. k \in Filled(u.native)
      BY <1>6, <1>7, EmptyEntry DEF Filled
    <3> QED BY <1>1, <2>3, <3>1, <3>2, FilledCount, FS_RemoveElement DEF Undoing
  <2>7. v \in Structs
    BY <1>6, <2>5, <2>6, FilledCount
  <2>8. \A l \in 0..s.NativeCount - 1 :
          v.native[l] = IF s.native[l].ni_event \in D \ (E \cup {n}) THEN One(s.native[l])
                        ELSE s.native[l]
    <3> SUFFICES ASSUME NEW l \in 0..s.NativeCount - 1
                 PROVE  v.native[l] = IF s.native[l].ni_event \in D \ (E \cup {n})
                                      THEN One(s.native[l]) ELSE s.native[l]
      OBVIOUS
    <3>1. l # k
      BY <1>1, <1>11 DEF Counts
    <3>2. s.native[l].ni_event # n /\ v.native[l] = u.native[l]
      BY <1>3, <1>8, <2>4, <3>1
    <3> QED BY <3>2 DEF Undoing
  <2>9. \A l \in s.NativeCount..NumCntrs - 1 :
          v.native[l] = IF t.native[l].ni_event \in E \cup {n} THEN Empty ELSE t.native[l]
    <3> SUFFICES ASSUME NEW l \in s.NativeCount..NumCntrs - 1
                 PROVE  v.native[l] = IF t.native[l].ni_event \in E \cup {n} THEN Empty
                                      ELSE t.native[l]
      OBVIOUS
    <3>1. l \in Slots
      BY <1>1 DEF Counts
    <3>2. CASE l = k
      BY <1>4, <1>6, <1>7, <2>4, <3>1, <3>2
    <3>3. CASE l # k
      <4>1. t.native[l].ni_event # n \/ t.native[l].ni_event \in E
        BY <1>8, <3>1, <3>3 DEF Undoing
      <4> QED BY <2>4, <3>1, <3>3, <4>1 DEF Undoing
    <3> QED BY <3>2, <3>3
  <2> QED BY <1>9, <2>6, <2>7, <2>8, <2>9 DEF Undoing, v
<1> QED BY <1>1, <1>6, <1>10, <1>11 DEF Counts

LEMMA DenseFilled ==
  ASSUME NEW nat, NEW c \in Counts, Dense(nat, c)
  PROVE  Filled(nat) = 0..c - 1 /\ Cardinality(Filled(nat)) = c
<1>1. \A k \in Slots : k \in 0..c - 1 \/ k \in c..NumCntrs - 1
  BY DEF Counts
<1>2. \A k \in 0..c - 1 : k \in Slots /\ nat[k] # Empty
  BY EmptyEntry DEF Dense, Counts
<1>3. Filled(nat) = 0..c - 1
  BY <1>1, <1>2 DEF Filled, Dense
<1>4. Cardinality(0..c - 1) = c
  BY Below DEF Counts
<1> QED BY <1>3, <1>4

\* add_native_events, second half: when the natives of the event do not fit, what
\* was counted in is counted out again, and the structure is what it was.
LEMMA UndoLoop ==
  ASSUME NEW s \in Structs, Dense(s.native, s.NativeCount),
         \A k \in 0..s.NativeCount - 1 : s.native[k].ni_owners > 0,
         NEW seq \in Seq(Natives), IsInjective(seq),
         NEW t, Adding(s, t, Firsts(seq, Len(seq)))
  PROVE  FoldLeft(FailClean, t, seq) = s
<1> DEFINE D == Firsts(seq, Len(seq))
<1>1. PICK g : Chain("FailClean", t, seq, g) /\ FoldLeft(FailClean, t, seq) = g[Len(seq)]
  BY FailCleanChain
<1>2. Len(seq) \in Nat /\ D \in SUBSET Natives
  BY DEF Firsts
<1> DEFINE Good == {j \in 0..Len(seq) : Undoing(s, t, g[j], D, Firsts(seq, j))}
<1>3. s.NativeCount \in Counts /\ t.NativeCount \in Counts /\ s.NativeCount <= t.NativeCount
      /\ t \in Structs /\ Kept(s, t)
  BY DEF Structs, Adding
<1>4. 0 \in Good
  <2>1. g[0] = t /\ Firsts(seq, 0) = {}
    BY <1>1 DEF Chain, Firsts
  <2>2. t.NativeCount = Cardinality(Filled(t.native))
    BY <1>3, DenseFilled DEF Adding
  <2> HIDE DEF D
  <2>3. Undoing(s, t, t, D, {})
    BY <1>3, <2>2 DEF Adding, Undoing, D
  <2>4. Undoing(s, t, g[0], D, Firsts(seq, 0))
    BY <2>1, <2>3
  <2> QED BY <1>2, <2>4
<1>5. ASSUME NEW j \in 1..Len(seq), j - 1 \in Good PROVE j \in Good
  <2> DEFINE E == Firsts(seq, j - 1)
             n == seq[j]
  <2>1. g[j] = FailClean(g[j - 1], n)
    BY <1>1 DEF Chain, Turn
  <2>2. \A i \in 1..j - 1 : i \in 1..Len(seq) /\ i # j
    BY <1>2
  <2>3. E \in SUBSET D /\ n \in D \ E
    BY <2>2 DEF Firsts, IsInjective
  <2>4. Firsts(seq, j) = E \cup {n}
    <3>1. \A i : i \in 1..j <=> i \in 1..j - 1 \/ i = j
      BY <1>2
    <3> QED BY <3>1 DEF Firsts
  <2>5. Undoing(s, t, g[j - 1], D, E)
    BY <1>5
  <2> HIDE DEF D, E, n
  <2>6. Undoing(s, t, g[j], D, E \cup {n})
    BY <1>2, <2>1, <2>3, <2>5, UndoingOne DEF D
  <2>7. Undoing(s, t, g[j], D, Firsts(seq, j))
    BY <2>4, <2>6
  <2> QED BY <1>2, <2>7
<1>6. Len(seq) \in Good
  <2>1. \A j \in 1..Len(seq) : j - 1 \in Good => j \in Good
    BY Zenon, <1>5
  <2> HIDE DEF Good
  <2>2. \A j \in 0..Len(seq) : j \in Good
    BY Zenon, <1>2, <1>4, <2>1, Along
  <2> QED BY <1>2, <2>2
<1> DEFINE u == g[Len(seq)]
<1>7. Undoing(s, t, u, D, D)
  BY <1>6
<1> HIDE DEF u, D
<1>8. u.native = s.native
  <2>1. u.native \in Tables /\ s.native \in Tables
    BY <1>7 DEF Undoing, Structs
  <2>2. \A k \in 0..s.NativeCount - 1 : u.native[k] = s.native[k]
    BY <1>7 DEF Undoing
  <2>3. ASSUME NEW k \in s.NativeCount..NumCntrs - 1 PROVE u.native[k] = s.native[k]
    <3>1. s.native[k] = Empty
      BY DEF Dense
    <3>2. CASE k < t.NativeCount
      BY <1>3, <1>7, <3>1, <3>2 DEF Undoing, Adding, Counts, D
    <3>3. CASE k >= t.NativeCount
      <4>1. t.native[k] = Empty
        BY <1>3, <3>3 DEF Adding, Dense, Counts
      <4> QED BY <1>7, <3>1, <4>1 DEF Undoing
    <3> QED BY <1>3, <3>2, <3>3 DEF Counts
  <2>4. \A k \in Slots : k \in 0..s.NativeCount - 1 \/ k \in s.NativeCount..NumCntrs - 1
    BY <1>3 DEF Counts
  <2>5. \A k \in Slots : u.native[k] = s.native[k]
    BY <2>2, <2>3, <2>4
  <2> DEFINE p == u.native
             q == s.native
  <2>6. p \in [Slots -> Entries] /\ q \in [Slots -> Entries]
        /\ \A k \in Slots : p[k] = q[k]
    BY <2>1, <2>5 DEF Tables
  <2> HIDE DEF p, q, Slots
  <2>7. p = q
    BY <2>6
  <2> QED BY <2>7 DEF p, q
<1>9. u.NativeCount = s.NativeCount
  BY <1>3, <1>7, <1>8, DenseFilled DEF Undoing
<1>10. u = s
  BY <1>7, <1>8, <1>9, SameStruct DEF Undoing
<1> QED BY <1>1, <1>10 DEF u

-----------------------------------------------------------------------------
(* The structure between two calls.                                        *)

\* The array is dense, and every slot in use has an owner.
Owned(s) ==
  /\ s \in Structs /\ Dense(s.native, s.NativeCount)
  /\ \A k \in 0..s.NativeCount - 1 : s.native[k].ni_owners > 0

LEMMA StructParts ==
  ASSUME NEW s \in Structs
  PROVE  /\ s.events \in EventLists /\ s.native \in Tables /\ s.NativeCount \in Counts
         /\ s.evntsel \in Selects /\ s.enabled \in Registers /\ s.nractrs \in Counts
         /\ s.nrictrs \in Interrupts /\ s.overflow \in Overflows
         /\ 0..s.NativeCount - 1 \subseteq Slots
         /\ \A k \in Slots : s.native[k] \in Entries
<1>1. /\ s.events \in EventLists /\ s.native \in Tables /\ s.NativeCount \in Counts
      /\ s.evntsel \in Selects /\ s.enabled \in Registers /\ s.nractrs \in Counts
      /\ s.nrictrs \in Interrupts /\ s.overflow \in Overflows
  BY DEF Structs
<1> QED BY <1>1 DEF Counts, Tables

LEMMA NewTable ==
  ASSUME NEW s \in Structs, NEW nat \in Tables, NEW c \in Counts
  PROVE  LET t == [s EXCEPT !.native = nat, !.NativeCount = c]
             u == [s EXCEPT !.native = nat]
         IN /\ t \in Structs /\ Kept(s, t) /\ t.native = nat /\ t.NativeCount = c
            /\ u \in Structs /\ Kept(s, u) /\ u.native = nat
            /\ u.NativeCount = s.NativeCount
BY DEF Structs, Kept

\* add_native_events fails at an event whose natives do not fit.
LEMMA NothingLeft ==
  ASSUME NEW s, Owned(s), NEW seq \in Seq(Natives), IsInjective(seq)
  PROVE  LET a == FoldLeft(AddNative, [esi |-> s, done |-> 0, full |-> FALSE], seq)
         IN /\ a.full => FoldLeft(FailClean, a.esi, SubSeq(seq, 1, a.done)) = s
            /\ ~a.full => FoldLeft(FailClean, a.esi, seq) = s
<1> DEFINE a == FoldLeft(AddNative, [esi |-> s, done |-> 0, full |-> FALSE], seq)
<1>1. /\ a \in Adds /\ a.done \in 0..Len(seq)
      /\ Adding(s, a.esi, Firsts(seq, a.done))
      /\ ~a.full => a.done = Len(seq)
  BY AddLoop DEF Owned
<1> HIDE DEF a
<1>2. CASE a.full
  <2> DEFINE front == SubSeq(seq, 1, a.done)
  <2>1. front \in Seq(Natives) /\ Len(front) = a.done
        /\ \A i \in 1..a.done : front[i] = seq[i] /\ i \in 1..Len(seq)
    BY <1>1
  <2>2. IsInjective(front)
    BY <2>1 DEF IsInjective
  <2>3. Firsts(front, Len(front)) = Firsts(seq, a.done)
    BY <2>1 DEF Firsts
  <2> HIDE DEF front
  <2>4. FoldLeft(FailClean, a.esi, front) = s
    <3>1. Adding(s, a.esi, Firsts(front, Len(front)))
      BY <1>1, <2>3
    <3> QED BY <2>1, <2>2, <3>1, UndoLoop DEF Owned
  <2> QED BY <1>2, <2>4 DEF front, a
<1>3. CASE ~a.full
  <2>1. Adding(s, a.esi, Firsts(seq, Len(seq)))
    BY <1>1, <1>3
  <2>2. FoldLeft(FailClean, a.esi, seq) = s
    BY <2>1, UndoLoop DEF Owned
  <2> QED BY <1>3, <2>2 DEF a
<1> QED BY <1>2, <1>3 DEF a

-----------------------------------------------------------------------------
(* Removing the native events of an event.                                 *)

Less(e) == [e EXCEPT !.ni_owners = @ - 1]

\* s after the native events D of an event were counted out.
Disowned(s, t, D) ==
  /\ t \in Structs /\ Kept(s, t) /\ t.NativeCount = s.NativeCount
  /\ \A k \in Slots :
       t.native[k] = IF s.native[k].ni_event \in D THEN Less(s.native[k])
                     ELSE s.native[k]

LEMMA LessEntry ==
  ASSUME NEW e \in Entries, e.ni_owners > 0
  PROVE  /\ Less(e) \in Entries /\ Less(e).ni_event = e.ni_event
         /\ Less(e).ni_owners = e.ni_owners - 1
         /\ Less(e).ni_position = e.ni_position
<1> DEFINE m == e.ni_owners - 1
<1>1. m \in Nat
  BY DEF Entries
<1>2. Less(e) = [e EXCEPT !.ni_owners = m]
  BY DEF Less
<1> HIDE DEF m
<1>3. Less(e) \in Entries
  BY Zenon, <1>1, <1>2, EntryUpdate
<1> QED BY <1>2, <1>3 DEF Entries, m

\* One turn of the loop that gives up owners.
LEMMA DisownOne ==
  ASSUME NEW s, Owned(s), NEW t, NEW D \in SUBSET Natives, NEW n \in Natives \ D,
         Disowned(s, t, D)
  PROVE  Disowned(s, Disown(t, n), D \cup {n})
<1> DEFINE held == Mapped(t, n)
           k == Min(held)
           v == Disown(t, n)
<1>1. /\ s \in Structs /\ t \in Structs /\ t.NativeCount = s.NativeCount
      /\ Kept(s, t)
  BY DEF Owned, Disowned
<1>2. ASSUME NEW l \in Slots
      PROVE  /\ s.native[l] \in Entries /\ t.native[l] \in Entries
             /\ t.native[l].ni_event = s.native[l].ni_event
  <2>1. s.native[l] \in Entries /\ t.native[l] \in Entries
    BY <1>1, StructParts
  <2>2. s.native[l].ni_event \in D => l \in 0..s.NativeCount - 1
    <3>1. l \in s.NativeCount..NumCntrs - 1 => s.native[l] = Empty
      BY DEF Owned, Dense
    <3> QED BY <1>1, <3>1, StructParts, EmptyEntry DEF Counts
  <2>3. s.native[l].ni_event \in D => Less(s.native[l]).ni_event = s.native[l].ni_event
    BY <2>1, <2>2, LessEntry DEF Owned
  <2> QED BY <2>1, <2>3 DEF Disowned
<1>3. ASSUME NEW l \in Slots, s.native[l].ni_event = n PROVE l \in held
  <2>1. l \in s.NativeCount..NumCntrs - 1 => s.native[l] = Empty
    BY DEF Owned, Dense
  <2> QED BY <1>1, <1>2, <1>3, <2>1, StructParts, EmptyEntry DEF Counts, Mapped
<1>4. CASE held = {}
  <2>1. v = t
    BY <1>4 DEF Disown
  <2>2. \A l \in Slots : s.native[l].ni_event # n
    BY <1>3, <1>4
  <2> QED BY <2>1, <2>2 DEF Disowned
<1>5. CASE held # {}
  <2>1. k \in held /\ k \in Slots /\ k \in 0..s.NativeCount - 1
    <3>1. held \in SUBSET Nat /\ held \subseteq Slots
          /\ held \subseteq 0..s.NativeCount - 1
      BY <1>1, StructParts DEF Mapped
    <3> QED BY <1>5, <3>1, MinIn
  <2>2. v = [t EXCEPT !.native[k].ni_owners = @ - 1]
    BY <1>5 DEF Disown
  <2>3. s.native[k].ni_event = n
    BY <1>2, <2>1 DEF Mapped
  <2>4. t.native[k] = s.native[k]
    BY <2>1, <2>3 DEF Disowned
  <2> HIDE DEF held, k, v
  <2> DEFINE nat == [t.native EXCEPT ![k] = Less(t.native[k])]
  <2>5. v = [t EXCEPT !.native = nat]
    BY <2>2 DEF Less
  <2>6. Less(s.native[k]) \in Entries
    BY <1>2, <2>1, LessEntry DEF Owned
  <2>7. nat \in Tables
    BY <1>1, <2>1, <2>4, <2>6, TableUpdate, StructParts
  <2>8. \A l \in Slots : nat[l] = IF l = k THEN Less(t.native[k]) ELSE t.native[l]
    BY <1>1, <2>1, StructParts DEF Tables
  <2> HIDE DEF nat
  <2>9. v \in Structs /\ Kept(t, v) /\ v.native = nat /\ v.NativeCount = t.NativeCount
    BY Zenon, <1>1, <2>5, <2>7, NewTable DEF Structs
  <2>10. ASSUME NEW l \in Slots, l # k PROVE s.native[l].ni_event # n
    <3> SUFFICES ASSUME s.native[l].ni_event = n PROVE FALSE
      OBVIOUS
    <3>1. l \in 0..s.NativeCount - 1
      BY <1>1, <1>3 DEF Mapped, held
    <3> QED BY <2>1, <2>3, <2>10, <3>1 DEF Owned, Dense
  <2>11. ASSUME NEW l \in Slots
         PROVE  v.native[l] = IF s.native[l].ni_event \in D \cup {n}
                              THEN Less(s.native[l]) ELSE s.native[l]
    <3>1. CASE l = k
      BY <2>3, <2>4, <2>8, <2>9, <3>1
    <3>2. CASE l # k
      BY <2>8, <2>9, <2>10, <3>2 DEF Disowned
    <3> QED BY <3>1, <3>2
  <2>12. Kept(s, v)
    BY <1>1, <2>9 DEF Kept
  <2> QED BY <1>1, <2>9, <2>11, <2>12 DEF Disowned, v
<1> QED BY <1>4, <1>5

\* remove_native_events, first half: each native event has an owner less.
LEMMA DisownLoop ==
  ASSUME NEW s, Owned(s), NEW seq \in Seq(Natives), IsInjective(seq)
  PROVE  Disowned(s, FoldLeft(Disown, s, seq), Firsts(seq, Len(seq)))
<1>1. PICK g : Chain("Disown", s, seq, g) /\ FoldLeft(Disown, s, seq) = g[Len(seq)]
  BY DisownChain
<1> DEFINE Good == {j \in 0..Len(seq) : Disowned(s, g[j], Firsts(seq, j))}
<1>2. Len(seq) \in Nat
  OBVIOUS
<1>3. 0 \in Good
  <2>1. g[0] = s /\ Firsts(seq, 0) = {}
    BY <1>1 DEF Chain, Firsts
  <2>2. Disowned(s, s, {})
    BY DEF Disowned, Owned, Kept
  <2>3. Disowned(s, g[0], Firsts(seq, 0))
    BY <2>1, <2>2
  <2> QED BY <1>2, <2>3
<1>4. ASSUME NEW j \in 1..Len(seq), j - 1 \in Good PROVE j \in Good
  <2> DEFINE D == Firsts(seq, j - 1)
             n == seq[j]
  <2>1. g[j] = Disown(g[j - 1], n)
    BY <1>1 DEF Chain, Turn
  <2>2. \A i \in 1..j - 1 : i \in 1..Len(seq) /\ i # j
    BY <1>2
  <2>3. D \in SUBSET Natives /\ n \in Natives \ D
    BY <2>2 DEF Firsts, IsInjective
  <2>4. Firsts(seq, j) = D \cup {n}
    <3>1. \A i : i \in 1..j <=> i \in 1..j - 1 \/ i = j
      BY <1>2
    <3> QED BY <3>1 DEF Firsts
  <2>5. Disowned(s, g[j - 1], D)
    BY <1>4
  <2> HIDE DEF D, n
  <2>6. Disowned(s, g[j], D \cup {n})
    BY <2>1, <2>3, <2>5, DisownOne
  <2>7. Disowned(s, g[j], Firsts(seq, j))
    BY <2>4, <2>6
  <2> QED BY <1>2, <2>7
<1>5. Len(seq) \in Good
  <2>1. \A j \in 1..Len(seq) : j - 1 \in Good => j \in Good
    BY Zenon, <1>4
  <2> HIDE DEF Good
  <2>2. \A j \in 0..Len(seq) : j \in Good
    BY Zenon, <1>2, <1>3, <2>1, Along
  <2> QED BY <1>2, <2>2
<1> QED BY <1>1, <1>5

-----------------------------------------------------------------------------
(* Closing the gaps that are left.                                         *)

LEMMA MaxOf ==
  ASSUME NEW b \in Nat, NEW S \in SUBSET (0..b), S # {}
  PROVE  Max(S) \in S /\ \A x \in S : x <= Max(S)
<1> DEFINE T == {b - x : x \in S}
<1>1. T \in SUBSET Nat /\ T # {}
  <2>1. \A x \in S : b - x \in Nat
    OBVIOUS
  <2>2. PICK x \in S : TRUE
    OBVIOUS
  <2>3. b - x \in T
    OBVIOUS
  <2> QED BY <2>1, <2>3
<1> DEFINE Under == {ss \in Nat \X Nat : ss[1] < ss[2]}
<1>2. IsWellFoundedOn(Under, Nat)
  BY NatLessThanWellFounded DEF OpToRel
<1>3. PICK y \in T : \A z \in T : ~ (<<z, y>> \in Under)
  BY <1>1, <1>2, WFMin
<1>4. ASSUME NEW z \in T PROVE ~ (z < y)
  <2> SUFFICES ASSUME z < y PROVE <<z, y>> \in Under
    BY <1>3
  <2>1. <<z, y>> \in Nat \X Nat /\ <<z, y>>[1] = z /\ <<z, y>>[2] = y
    BY <1>1
  <2> QED BY <2>1
<1>5. PICK m \in S : y = b - m
  OBVIOUS
<1>6. \A x \in S : x <= m
  <2> SUFFICES ASSUME NEW x \in S PROVE x <= m
    OBVIOUS
  <2>1. ~ (b - x < b - m)
    BY <1>4, <1>5
  <2>2. x \in Nat /\ m \in Nat
    OBVIOUS
  <2> HIDE DEF T
  <2> QED BY <2>1, <2>2
<1>7. S \in SUBSET Int
  OBVIOUS
<1>8. Max(S) = m
  BY <1>6, <1>7, MaxIn
<1> QED BY <1>6, <1>8

\* The slots that hold a native event somebody owns.
Live(s) ==
  {k \in 0..s.NativeCount - 1 :
     s.native[k].ni_event # NoNative /\ s.native[k].ni_owners # 0}

\* The same record up to the bits.
Same(e, f) ==
  /\ e.ni_event = f.ni_event /\ e.ni_owners = f.ni_owners
  /\ e.ni_position = f.ni_position

\* d after the slots below i were looked at, v.
Moved(d, v, i) ==
  /\ v \in Structs /\ Kept(d, v) /\ v.NativeCount = d.NativeCount
  /\ \A k \in d.NativeCount..NumCntrs - 1 : v.native[k] = Empty
  /\ \A k \in 0..d.NativeCount - 1 : v.native[k] = Empty \/ v.native[k].ni_event \in Natives
  /\ \A k \in 0..i - 1 : v.native[k] = Empty \/ k \in Live(v)
  /\ \A k \in 0..d.NativeCount - 1, l \in Live(v) : v.native[k] = Empty => l < k
  /\ \A k \in Live(d) : \E l \in Live(v) : Same(v.native[l], d.native[k])
  /\ \A l \in Live(v) : \E k \in Live(d) : Same(v.native[l], d.native[k])
  /\ \A k, l \in Live(v) : v.native[k].ni_event = v.native[l].ni_event => k = l
  /\ Cardinality(Live(v)) = Cardinality(Live(d))

\* So can the slots that still have an owner.
LEMMA LiveCount ==
  ASSUME NEW s \in Structs
  PROVE  IsFiniteSet(Live(s)) /\ Cardinality(Live(s)) \in Nat
<1>1. IsFiniteSet(0..s.NativeCount - 1)
  <2>1. s.NativeCount \in Nat
    BY StructParts DEF Counts
  <2> QED BY <2>1, Below
<1>2. IsFiniteSet(Live(s))
  BY <1>1, FS_Subset DEF Live
<1> QED BY <1>2, FS_CardinalityType

LEMMA FillSlotTurn ==
  ASSUME NEW u \in Structs, NEW i \in 0..u.NativeCount - 1
  PROVE  LET v == FillSlot(u, i)
             dead == u.native[i].ni_event # NoNative /\ i \notin Live(u)
             behind == {j \in Live(u) : j > i}
         IN /\ ~dead => v = u
            /\ v \in Structs /\ Kept(u, v) /\ v.NativeCount = u.NativeCount
            /\ dead /\ behind = {} =>
                 \A k \in Slots : v.native[k] = IF k = i THEN Empty ELSE u.native[k]
            /\ dead /\ behind # {} =>
                 \E m \in behind :
                   /\ \A j \in behind : j <= m
                   /\ Same(v.native[i], u.native[m])
                   /\ \A k \in Slots \ {i} :
                        v.native[k] = IF k = m THEN Empty ELSE u.native[k]
<1> DEFINE v == FillSlot(u, i)
           dead == u.native[i].ni_event # NoNative /\ i \notin Live(u)
           behind == {j \in Live(u) : j > i}
           live == {j \in i + 1..u.NativeCount - 1 :
                      u.native[j].ni_event # NoNative /\ u.native[j].ni_owners # 0}
<1>1. /\ u.native \in Tables /\ u.NativeCount \in Counts /\ i \in Slots
      /\ \A k \in Slots : u.native[k] \in Entries
  BY StructParts
<1>2. live = behind
  BY <1>1 DEF Live, Counts
<1>3. dead <=> ~ (u.native[i].ni_event = NoNative \/ u.native[i].ni_owners # 0)
  BY DEF Live
<1> HIDE DEF dead
<1>4. CASE ~dead
  <2>1. v = u
    BY <1>3, <1>4 DEF FillSlot
  <2> QED BY <1>4, <2>1 DEF Kept, dead
<1>5. CASE dead /\ behind = {}
  <2>1. v = [u EXCEPT !.native[i] = Empty]
    BY <1>2, <1>3, <1>5 DEF FillSlot
  <2> HIDE DEF v, behind
  <2> DEFINE nat == [u.native EXCEPT ![i] = Empty]
  <2>2. nat \in Tables /\ \A k \in Slots : nat[k] = IF k = i THEN Empty ELSE u.native[k]
    BY <1>1, TableUpdate, EmptyEntry DEF Tables
  <2>3. v = [u EXCEPT !.native = nat]
    BY <2>1
  <2> HIDE DEF nat
  <2>4. v \in Structs /\ Kept(u, v) /\ v.native = nat /\ v.NativeCount = u.NativeCount
    BY Zenon, <1>1, <2>2, <2>3, NewTable
  <2> QED BY <1>5, <2>2, <2>4 DEF v, behind, dead
<1>6. CASE dead /\ behind # {}
  <2> DEFINE m == Max(live)
  <2>1. live \in SUBSET (0..NumCntrs) /\ live # {} /\ NumCntrs \in Nat
    BY <1>1, <1>2, <1>6 DEF Counts
  <2>2. m \in live /\ \A j \in live : j <= m
    BY <2>1, MaxOf
  <2>3. v = [u EXCEPT !.native[i] = [u.native[m] EXCEPT !.ni_bits = u.native[i].ni_bits],
                      !.native[m] = Empty]
    BY <1>2, <1>3, <1>6 DEF FillSlot
  <2>4. m \in Slots /\ m # i /\ m \in behind
    <3>1. m \in behind
      BY Zenon, <1>2, <2>2
    <3> HIDE DEF m, live
    <3>2. m \in i + 1..u.NativeCount - 1
      BY <2>2 DEF live
    <3> QED BY <1>1, <3>1, <3>2 DEF Counts
  <2> HIDE DEF v, behind, live, m
  <2> DEFINE e == [u.native[m] EXCEPT !.ni_bits = u.native[i].ni_bits]
             nat == [[u.native EXCEPT ![i] = e] EXCEPT ![m] = Empty]
  <2>5. v = [u EXCEPT !.native = nat]
    BY <2>3
  <2>6. e \in Entries /\ Same(e, u.native[m])
    <3>1. u.native[m] \in Entries /\ u.native[i] \in Entries
      BY <1>1, <2>4
    <3> QED BY <3>1 DEF Entries, Same
  <2> HIDE DEF e
  <2>7. nat \in Tables
    <3>1. [u.native EXCEPT ![i] = e] \in Tables
      BY <1>1, <2>6, TableUpdate
    <3> QED BY <2>4, <3>1, TableUpdate, EmptyEntry
  <2>8. \A k \in Slots : nat[k] = IF k = m THEN Empty ELSE IF k = i THEN e ELSE u.native[k]
    BY <1>1, <2>4 DEF Tables
  <2> HIDE DEF nat
  <2>9. v \in Structs /\ Kept(u, v) /\ v.native = nat /\ v.NativeCount = u.NativeCount
    BY Zenon, <1>1, <2>5, <2>7, NewTable
  <2>10. /\ \A j \in behind : j <= m
         /\ Same(v.native[i], u.native[m])
         /\ \A k \in Slots \ {i} : v.native[k] = IF k = m THEN Empty ELSE u.native[k]
    BY <1>1, <1>2, <2>2, <2>4, <2>6, <2>8, <2>9
  <2> QED BY <1>6, <2>4, <2>9, <2>10 DEF v, behind, dead
<1> QED BY <1>4, <1>5, <1>6

LEMMA KeptTwice ==
  ASSUME NEW s, NEW u, NEW v, Kept(s, u), Kept(u, v)
  PROVE  Kept(s, v)
  BY DEF Kept

\* One turn of the compaction: a slot nobody owns takes the last live one.
LEMMA MovedOne ==
  ASSUME NEW d \in Structs, NEW u, NEW i \in 0..d.NativeCount - 1, Moved(d, u, i)
  PROVE  Moved(d, FillSlot(u, i), i + 1)
<1> DEFINE v == FillSlot(u, i)
           N == d.NativeCount
           dead == u.native[i].ni_event # NoNative /\ i \notin Live(u)
           behind == {j \in Live(u) : j > i}
<1>1. /\ u \in Structs /\ u.NativeCount = N /\ N \in Counts /\ Kept(d, u)
      /\ i \in Slots /\ 0..N - 1 \subseteq Slots
      /\ \A k \in Slots : u.native[k] \in Entries
  BY StructParts DEF Moved
<1>2. \A k : k \in 0..(i + 1) - 1 <=> k \in 0..i - 1 \/ k = i
  BY <1>1
<1>3. /\ ~dead => v = u
      /\ v \in Structs /\ Kept(u, v) /\ v.NativeCount = N
      /\ dead /\ behind = {} =>
           \A k \in Slots : v.native[k] = IF k = i THEN Empty ELSE u.native[k]
      /\ dead /\ behind # {} =>
           \E m \in behind :
             /\ \A j \in behind : j <= m
             /\ Same(v.native[i], u.native[m])
             /\ \A k \in Slots \ {i} : v.native[k] = IF k = m THEN Empty ELSE u.native[k]
  <2>1. i \in 0..u.NativeCount - 1
    BY <1>1
  <2> HIDE DEF N
  <2> QED BY ONLY <1>1, <2>1, FillSlotTurn
<1>4. Kept(d, v)
  <2>1. Kept(d, u)
    BY <1>1
  <2>2. Kept(u, v)
    BY <1>3
  <2> QED BY Zenon, <2>1, <2>2, KeptTwice
<1>5. Live(u) \subseteq 0..N - 1 /\ Live(v) \subseteq 0..N - 1
  BY <1>1, <1>3 DEF Live
<1> HIDE DEF v
<1>6. CASE ~dead
  <2>1. u.native[i] = Empty \/ i \in Live(u)
    BY <1>1, <1>6, EmptyEntry DEF Moved
  <2>2. Moved(d, u, i + 1)
    BY <1>2, <2>1 DEF Moved
  <2> QED BY <1>3, <1>6, <2>2 DEF v
<1>7. CASE dead /\ behind = {}
  <2>1. \A k \in Slots : v.native[k] = IF k = i THEN Empty ELSE u.native[k]
    BY <1>3, <1>7
  <2>2. Live(v) = Live(u)
    <3>1. \A k \in 0..N - 1 : k \in Live(v) <=> k \in Live(u)
      BY <1>1, <1>3, <1>7, <2>1, EmptyEntry DEF Live
    <3> QED BY <1>5, <3>1
  <2>3. \A k \in N..NumCntrs - 1 : v.native[k] = Empty
    <3>1. \A k \in N..NumCntrs - 1 : k \in Slots /\ k # i
      BY <1>1 DEF Counts
    <3> QED BY <2>1, <3>1 DEF Moved
  <2>4. \A k \in 0..N - 1 : v.native[k] = Empty \/ v.native[k].ni_event \in Natives
    BY <1>1, <2>1 DEF Moved
  <2>5. \A k \in 0..(i + 1) - 1 : v.native[k] = Empty \/ k \in Live(v)
    <3>1. \A k \in 0..i - 1 : k \in Slots /\ k # i
      BY <1>1
    <3> QED BY <1>1, <1>2, <2>1, <2>2, <3>1 DEF Moved
  <2>6. \A k \in 0..N - 1, l \in Live(v) : v.native[k] = Empty => l < k
    <3>1. \A l \in Live(v) : l < i
      BY <1>5, <1>7, <2>2, <1>1
    <3>2. \A k \in 0..N - 1 : k = i \/ v.native[k] = u.native[k]
      BY <1>1, <2>1
    <3> QED BY <2>2, <3>1, <3>2 DEF Moved
  <2>7. \A k \in Live(v) : v.native[k] = u.native[k]
    BY <1>1, <1>5, <1>7, <2>1, <2>2
  <2> QED BY <1>3, <1>4, <2>2, <2>3, <2>4, <2>5, <2>6, <2>7 DEF Moved, v
<1>8. CASE dead /\ behind # {}
  <2>1. PICK m \in behind :
             /\ \A j \in behind : j <= m
             /\ Same(v.native[i], u.native[m])
             /\ \A k \in Slots \ {i} : v.native[k] = IF k = m THEN Empty ELSE u.native[k]
    BY <1>3, <1>8
  <2>2. m \in Live(u) /\ m \in 0..N - 1 /\ m > i /\ m \in Slots /\ i \notin Live(u)
        /\ u.native[m].ni_event \in Natives /\ u.native[m].ni_event # NoNative
    BY <1>1, <1>5, <1>8, <2>1, EmptyEntry DEF Moved, Live
  <2>3. v.native[i].ni_event = u.native[m].ni_event
        /\ v.native[i].ni_owners = u.native[m].ni_owners
    BY <2>1 DEF Same
  <2>4. Live(v) = (Live(u) \ {m}) \cup {i}
    <3>1. i \in Live(v)
      BY <1>1, <1>3, <2>2, <2>3 DEF Live
    <3>2. m \notin Live(v) /\ v.native[m] = Empty
      BY <2>1, <2>2, EmptyEntry DEF Live
    <3>3. \A k \in 0..N - 1 : k # m /\ k # i => (k \in Live(v) <=> k \in Live(u))
      BY <1>1, <1>3, <2>1 DEF Live
    <3> QED BY <1>5, <2>2, <3>1, <3>2, <3>3
  <2>5. \A k \in N..NumCntrs - 1 : v.native[k] = Empty
    <3>1. \A k \in N..NumCntrs - 1 : k \in Slots \ {i}
      BY <1>1 DEF Counts
    <3> QED BY <2>1, <3>1 DEF Moved
  <2>6. \A k \in 0..N - 1 : v.native[k] = Empty \/ v.native[k].ni_event \in Natives
    BY <1>1, <2>1, <2>2, <2>3 DEF Moved
  <2>7. \A k \in 0..(i + 1) - 1 : v.native[k] = Empty \/ k \in Live(v)
    <3>1. \A k \in 0..i - 1 : k \in Slots \ {i} /\ k # m
      BY <1>1, <2>2
    <3> QED BY <1>2, <2>1, <2>4, <3>1 DEF Moved
  <2>8. \A k \in 0..N - 1, l \in Live(v) : v.native[k] = Empty => l < k
    <3> SUFFICES ASSUME NEW k \in 0..N - 1, NEW l \in Live(v), v.native[k] = Empty
                 PROVE  l < k
      OBVIOUS
    <3>1. k # i
      BY <2>2, <2>3, EmptyEntry
    <3>2. l \in 0..N - 1
      BY <1>5
    <3>3. CASE k = m
      BY <1>1, <2>1, <2>2, <2>4, <3>2, <3>3
    <3>4. CASE k # m
      <4>1. u.native[k] = Empty
        BY <1>1, <2>1, <3>1, <3>4
      <4>2. m < k
        BY <2>2, <4>1 DEF Moved
      <4>3. l = i \/ l \in Live(u)
        BY <2>4
      <4>4. l \in Live(u) => l < k
        BY <4>1 DEF Moved
      <4>5. l = i => l < k
        BY <1>1, <2>2, <3>2, <4>2
      <4> QED BY <4>3, <4>4, <4>5
    <3> QED BY <3>3, <3>4
  <2>9. \A k \in Live(v) \ {i} : k \in Live(u) /\ k # m /\ v.native[k] = u.native[k]
    BY <1>1, <1>5, <2>1, <2>4
  <2>10. \A k \in Live(d) : \E l \in Live(v) : Same(v.native[l], d.native[k])
    <3> SUFFICES ASSUME NEW k \in Live(d)
                 PROVE  \E l \in Live(v) : Same(v.native[l], d.native[k])
      OBVIOUS
    <3>1. PICK l \in Live(u) : Same(u.native[l], d.native[k])
      BY DEF Moved
    <3>2. CASE l = m
      <4>1. Same(v.native[i], d.native[k])
        BY <2>1, <3>1, <3>2 DEF Same
      <4> QED BY <2>4, <4>1
    <3>3. CASE l # m
      <4>1. l \in Live(v) /\ l # i
        BY <2>2, <2>4, <3>3
      <4> QED BY <2>9, <3>1, <4>1
    <3> QED BY <3>2, <3>3
  <2>11. \A l \in Live(v) : \E k \in Live(d) : Same(v.native[l], d.native[k])
    <3> SUFFICES ASSUME NEW l \in Live(v)
                 PROVE  \E k \in Live(d) : Same(v.native[l], d.native[k])
      OBVIOUS
    <3>1. CASE l = i
      <4>1. PICK k \in Live(d) : Same(u.native[m], d.native[k])
        BY <2>2 DEF Moved
      <4> QED BY <2>1, <3>1, <4>1 DEF Same
    <3>2. CASE l # i
      BY <2>9, <3>2 DEF Moved
    <3> QED BY <3>1, <3>2
  <2>12. \A k, l \in Live(v) : v.native[k].ni_event = v.native[l].ni_event => k = l
    <3>1. ASSUME NEW k \in Live(v) \ {i} PROVE v.native[k].ni_event # v.native[i].ni_event
      BY <2>2, <2>3, <2>9 DEF Moved
    <3>2. \A k, l \in Live(v) \ {i} :
            v.native[k].ni_event = v.native[l].ni_event => k = l
      BY <2>9 DEF Moved
    <3> QED BY <3>1, <3>2
  <2>13. Cardinality(Live(v)) = Cardinality(Live(d))
    <3>1. IsFiniteSet(Live(u)) /\ IsFiniteSet(Live(u) \ {m})
          /\ Cardinality(Live(u)) \in Nat
      BY <1>1, LiveCount, FS_RemoveElement
    <3>2. Cardinality(Live(u) \ {m}) = Cardinality(Live(u)) - 1
      BY <2>2, <3>1, FS_RemoveElement
    <3>3. Cardinality((Live(u) \ {m}) \cup {i}) = Cardinality(Live(u) \ {m}) + 1
      BY <2>2, <3>1, FS_AddElement
    <3> QED BY <2>4, <3>1, <3>2, <3>3 DEF Moved
  <2> QED BY <1>3, <1>4, <2>5, <2>6, <2>7, <2>8, <2>10, <2>11, <2>12, <2>13 DEF Moved, v
<1> QED BY <1>6, <1>7, <1>8

\* The whole compaction, one turn for each slot that was in use.
LEMMA FillLoop ==
  ASSUME NEW d \in Structs, Dense(d.native, d.NativeCount)
  PROVE  Moved(d, FoldLeft(FillSlot, d, [i \in 1..d.NativeCount |-> i - 1]), d.NativeCount)
<1> DEFINE N == d.NativeCount
           seq == [i \in 1..N |-> i - 1]
<1>1. N \in Nat /\ N \in Counts
  BY StructParts DEF Counts
<1>2. seq \in Seq(Nat) /\ Len(seq) = N /\ \A j \in 1..N : seq[j] = j - 1
  BY <1>1
<1> HIDE DEF seq
<1>3. PICK g : Chain("FillSlot", d, seq, g) /\ FoldLeft(FillSlot, d, seq) = g[Len(seq)]
  BY <1>2, FillSlotChain
<1> DEFINE Good == {j \in 0..N : Moved(d, g[j], j)}
<1>4. 0 \in Good
  <2>1. g[0] = d
    BY <1>3 DEF Chain
  <2>2. Live(d) \subseteq 0..N - 1
    BY DEF Live
  <2>3. \A k \in 0..N - 1 : d.native[k].ni_event \in Natives /\ d.native[k] # Empty
    BY EmptyEntry DEF Dense
  <2>4. \A k \in Live(d) : Same(d.native[k], d.native[k])
    BY DEF Same
  <2>5. \A k, l \in Live(d) : d.native[k].ni_event = d.native[l].ni_event => k = l
    BY <2>2 DEF Dense
  <2>6. \A k \in N..NumCntrs - 1 : d.native[k] = Empty
    BY DEF Dense
  <2>7. Kept(d, d)
    BY DEF Kept
  <2>8. Moved(d, d, 0)
    BY <2>3, <2>4, <2>5, <2>6, <2>7 DEF Moved
  <2>9. Moved(d, g[0], 0)
    BY <2>1, <2>8
  <2> QED BY <1>1, <2>9
<1>5. ASSUME NEW j \in 1..N, j - 1 \in Good PROVE j \in Good
  <2>1. g[j] = FillSlot(g[j - 1], j - 1)
    BY <1>2, <1>3 DEF Chain, Turn
  <2>2. Moved(d, g[j - 1], j - 1)
    BY <1>5
  <2>3. j - 1 \in 0..N - 1 /\ (j - 1) + 1 = j
    BY <1>1
  <2>4. Moved(d, FillSlot(g[j - 1], j - 1), (j - 1) + 1)
    BY <2>2, <2>3, MovedOne
  <2>5. Moved(d, g[j], j)
    BY <2>1, <2>3, <2>4
  <2> QED BY <1>1, <2>5
<1>6. N \in Good
  <2>1. \A j \in 1..N : j - 1 \in Good => j \in Good
    BY Zenon, <1>5
  <2> HIDE DEF Good, N
  <2>2. \A j \in 0..N : j \in Good
    BY Zenon, <1>1, <1>4, <2>1, Along
  <2> QED BY <1>1, <2>2
<1> QED BY <1>2, <1>3, <1>6 DEF seq

\* When every slot was looked at, the live ones are the first.
LEMMA Compacted ==
  ASSUME NEW d \in Structs, NEW v, Moved(d, v, d.NativeCount)
  PROVE  LET p == Cardinality(Live(d))
         IN /\ p \in 0..d.NativeCount /\ Live(v) = 0..p - 1
            /\ Dense(v.native, p)
<1> DEFINE N == d.NativeCount
           p == Cardinality(Live(d))
<1>1. v \in Structs /\ v.NativeCount = N /\ N \in Counts
  BY StructParts DEF Moved
<1>2. Live(v) \subseteq 0..N - 1
  BY <1>1 DEF Live
<1>3. PICK q \in 0..N : Live(v) = 0..q - 1
  <2> DEFINE gaps == {k \in 0..N - 1 : v.native[k] = Empty}
  <2>1. \A k \in 0..N - 1 : k \in gaps \/ k \in Live(v)
    BY DEF Moved
  <2>2. CASE gaps = {}
    <3>1. Live(v) = 0..N - 1
      BY <1>2, <2>1, <2>2
    <3> QED BY <1>1, <3>1 DEF Counts
  <2>3. CASE gaps # {}
    <3>1. PICK q \in gaps : \A k \in gaps : q <= k
      <4>1. gaps \in SUBSET Nat
        BY <1>1 DEF Counts
      <4>2. Min(gaps) \in gaps /\ \A x \in gaps : Min(gaps) <= x
        BY <2>3, <4>1, MinIn
      <4> QED BY <4>2
    <3>2. q \in 0..N - 1
      OBVIOUS
    <3>3. \A l \in Live(v) : l < q
      BY DEF Moved
    <3>4. \A k \in 0..q - 1 : k \in 0..N - 1 /\ k \notin gaps
      BY <1>1, <3>1, <3>2 DEF Counts
    <3>5. Live(v) = 0..q - 1
      <4>1. \A k \in 0..q - 1 : k \in Live(v)
        BY <2>1, <3>4
      <4>2. \A k \in Live(v) : k \in 0..q - 1
        BY <1>1, <1>2, <3>2, <3>3 DEF Counts
      <4> QED BY <4>1, <4>2
    <3> QED BY <1>1, <3>2, <3>5 DEF Counts
  <2> QED BY <2>2, <2>3
<1>4. p = q
  <2>1. p = Cardinality(0..q - 1)
    BY <1>3 DEF Moved
  <2>2. q \in Nat
    BY <1>1 DEF Counts
  <2>3. Cardinality(0..q - 1) = q
    BY <2>2, Below
  <2> QED BY <2>1, <2>3
<1>5. Dense(v.native, q)
  <2>1. \A k \in q..NumCntrs - 1 : v.native[k] = Empty
    <3>1. ASSUME NEW k \in q..NumCntrs - 1 PROVE v.native[k] = Empty
      <4>1. k \in 0..N - 1 \/ k \in N..NumCntrs - 1
        BY <1>1 DEF Counts
      <4>2. k \notin Live(v)
        BY <1>1, <1>3 DEF Counts
      <4> QED BY <4>1, <4>2 DEF Moved
    <3> QED BY <3>1
  <2>2. \A k \in 0..q - 1 : v.native[k].ni_event \in Natives
    <3>1. ASSUME NEW k \in 0..q - 1 PROVE v.native[k].ni_event \in Natives
      <4>1. k \in Live(v) /\ k \in 0..N - 1
        BY <1>2, <1>3
      <4>2. v.native[k] # Empty
        BY <4>1, EmptyEntry DEF Live
      <4> QED BY <4>1, <4>2 DEF Moved
    <3> QED BY <3>1
  <2>3. \A k, l \in 0..q - 1 : v.native[k].ni_event = v.native[l].ni_event => k = l
    BY <1>3 DEF Moved
  <2> QED BY <2>1, <2>2, <2>3 DEF Dense
<1> QED BY <1>1, <1>3, <1>4, <1>5 DEF Counts

-----------------------------------------------------------------------------
(* What removing the native events D leaves.                               *)

Survives(e, D) == e.ni_event \notin D \/ e.ni_owners > 1
After(e, D) == IF e.ni_event \in D THEN Less(e) ELSE e

\* The control state is rewritten for the native events of s.
Rewritten(s, r) ==
  /\ \A k \in Slots : k >= r.NativeCount =>
       r.evntsel[k] = IF k \in Programmed(s) THEN {} ELSE s.evntsel[k]
  /\ r.enabled = s.enabled \ Programmed(s)
  /\ r.nractrs = r.NativeCount /\ r.nrictrs = 0

Removed(s, r, D) ==
  /\ Owned(r) /\ r.events = s.events /\ r.overflow = s.overflow
  /\ r.NativeCount <= s.NativeCount
  /\ \A k \in 0..s.NativeCount - 1 : Survives(s.native[k], D) =>
       \E l \in 0..r.NativeCount - 1 : Same(r.native[l], After(s.native[k], D))
  /\ \A l \in 0..r.NativeCount - 1 : \E k \in 0..s.NativeCount - 1 :
       Survives(s.native[k], D) /\ Same(r.native[l], After(s.native[k], D))
  /\ IF r.NativeCount = s.NativeCount
     THEN /\ r.evntsel = s.evntsel /\ r.enabled = s.enabled
          /\ r.nractrs = s.nractrs /\ r.nrictrs = s.nrictrs
          /\ \A k \in 0..s.NativeCount - 1 : Survives(s.native[k], D)
     ELSE Rewritten(s, r)

LEMMA Updated ==
  ASSUME NEW s \in Structs
  PROVE  LET r == UpdateControl(s)
         IN /\ r \in Structs /\ r.events = s.events /\ r.native = s.native
            /\ r.NativeCount = s.NativeCount /\ r.overflow = s.overflow
            /\ \A k \in Slots : r.evntsel[k] =
                 (IF k \in Programmed(s) THEN {} ELSE s.evntsel[k])
                   \cup (IF k < s.NativeCount THEN s.native[k].ni_bits ELSE {})
            /\ r.enabled = s.enabled \ Programmed(s)
            /\ r.nractrs = s.NativeCount /\ r.nrictrs = 0
<1> DEFINE r == UpdateControl(s)
           sel == [k \in Slots |->
             (IF k \in Programmed(s) THEN {} ELSE s.evntsel[k])
               \cup (IF k < s.NativeCount THEN s.native[k].ni_bits ELSE {})]
           on == s.enabled \ Programmed(s)
<1>1. r = [s EXCEPT !.evntsel = sel, !.enabled = on, !.nractrs = s.NativeCount,
                    !.nrictrs = 0]
  BY DEF UpdateControl
<1>2. sel \in Selects
  <2>1. ASSUME NEW k \in Slots
        PROVE  s.evntsel[k] \in SUBSET Natives /\ s.native[k].ni_bits \in SUBSET Natives
    BY StructParts DEF Selects, Entries
  <2>2. ASSUME NEW k \in Slots
        PROVE  ((IF k \in Programmed(s) THEN {} ELSE s.evntsel[k])
               \cup (IF k < s.NativeCount THEN s.native[k].ni_bits ELSE {})) \in SUBSET Natives
    BY <2>1
  <2> QED BY <2>2 DEF Selects
<1>3. on \in Registers
  BY StructParts DEF Registers
<1>4. 0 \in Interrupts
  BY DEF Interrupts
<1>5. \A k \in Slots : sel[k] =
        (IF k \in Programmed(s) THEN {} ELSE s.evntsel[k])
           \cup (IF k < s.NativeCount THEN s.native[k].ni_bits ELSE {})
  OBVIOUS
<1> HIDE DEF r, sel, on
<1>6. /\ r \in Structs /\ r.events = s.events /\ r.native = s.native
      /\ r.NativeCount = s.NativeCount /\ r.overflow = s.overflow
      /\ r.evntsel = sel /\ r.enabled = on
      /\ r.nractrs = s.NativeCount /\ r.nrictrs = 0
  BY <1>1, <1>2, <1>3, <1>4 DEF Structs
<1> QED BY <1>5, <1>6 DEF r, on

\* All of remove_native_events: loops, new count and control state.
LEMMA NativesRemoved ==
  ASSUME NEW s, Owned(s), NEW c \in Events
  PROVE  Removed(s, RemoveNatives(s, c), ToSet(Terms[c]))
<1> DEFINE D == ToSet(Terms[c])
           N == s.NativeCount
           d == FoldLeft(Disown, s, Terms[c])
           zero == {k \in 0..N - 1 : d.native[k].ni_owners = 0 /\ s.native[k].ni_owners # 0}
           v == FoldLeft(FillSlot, d, [i \in 1..N |-> i - 1])
           u == [v EXCEPT !.NativeCount = @ - Cardinality(zero)]
           r == RemoveNatives(s, c)
<1>1. s \in Structs /\ N \in Counts /\ 0..N - 1 \subseteq Slots
      /\ \A k \in Slots : s.native[k] \in Entries
  BY StructParts DEF Owned
<1>2. r = IF zero = {} THEN u ELSE UpdateControl(u)
  BY DEF RemoveNatives
<1>3. Disowned(s, d, D)
  <2>1. Terms[c] \in Seq(Natives) /\ IsInjective(Terms[c])
    OBVIOUS
  <2>2. Firsts(Terms[c], Len(Terms[c])) = D
    BY <2>1 DEF Firsts, ToSet
  <2>3. Disowned(s, d, Firsts(Terms[c], Len(Terms[c])))
    BY <2>1, DisownLoop
  <2> QED BY <2>2, <2>3
<1>4. D \in SUBSET Natives
  <2>1. Terms[c] \in Seq(Natives)
    OBVIOUS
  <2> QED BY <2>1 DEF ToSet
<1> HIDE DEF D
<1>5. d \in Structs /\ d.NativeCount = N
  BY <1>3 DEF Disowned
<1>6. \A k \in Slots : d.native[k] = After(s.native[k], D)
  BY <1>3 DEF Disowned, After
<1>7. ASSUME NEW k \in 0..N - 1
      PROVE  /\ k \in Slots /\ s.native[k] \in Entries /\ s.native[k].ni_owners > 0
             /\ d.native[k].ni_event = s.native[k].ni_event
             /\ s.native[k].ni_event \in Natives
             /\ d.native[k].ni_owners # 0 <=> Survives(s.native[k], D)
  <2>1. k \in Slots /\ s.native[k] \in Entries /\ s.native[k].ni_owners > 0
        /\ s.native[k].ni_event \in Natives
    BY <1>1 DEF Owned, Dense
  <2>2. s.native[k].ni_owners \in Nat
    BY <2>1 DEF Entries
  <2> QED BY <1>6, <2>1, <2>2, LessEntry DEF After, Survives
<1>8. Dense(d.native, N)
  <2>1. \A k \in N..NumCntrs - 1 : d.native[k] = Empty
    <3>1. \A k \in N..NumCntrs - 1 : k \in Slots /\ s.native[k] = Empty
      BY <1>1 DEF Owned, Dense, Counts
    <3> QED BY <1>4, <1>6, <3>1, EmptyEntry DEF After
  <2> QED BY <1>7, <2>1 DEF Dense, Owned
<1>9. Moved(d, v, N)
  BY <1>5, <1>8, FillLoop
<1>10. Live(d) = {k \in 0..N - 1 : Survives(s.native[k], D)}
  BY <1>5, <1>7 DEF Live
<1>11. zero = (0..N - 1) \ Live(d)
  BY <1>7, <1>10
<1> HIDE DEF d, v, zero, u, r
<1> DEFINE p == Cardinality(Live(d))
<1>12. p \in 0..N /\ Live(v) = 0..p - 1 /\ Dense(v.native, p)
  BY <1>5, <1>9, Compacted
<1>13. Cardinality(zero) = N - p
  <2>1. Live(d) \in SUBSET (0..N - 1)
    BY <1>10
  <2>2. IsFiniteSet(0..N - 1) /\ Cardinality(0..N - 1) = N
    <3>1. N \in Nat
      BY <1>1 DEF Counts
    <3> HIDE DEF N
    <3> QED BY <3>1, Below
  <2>3. (0..N - 1) \cap Live(d) = Live(d)
    BY <2>1
  <2>4. Cardinality((0..N - 1) \ Live(d))
          = Cardinality(0..N - 1) - Cardinality((0..N - 1) \cap Live(d))
    BY <2>2, FS_Difference
  <2> QED BY <1>11, <2>2, <2>3, <2>4
<1>14. /\ v \in Structs /\ v.NativeCount = N /\ v.native \in Tables
       /\ v.events = s.events /\ v.evntsel = s.evntsel /\ v.enabled = s.enabled
       /\ v.nractrs = s.nractrs /\ v.nrictrs = s.nrictrs /\ v.overflow = s.overflow
  <2>1. v \in Structs /\ Kept(d, v) /\ Kept(s, d) /\ v.NativeCount = N
    BY <1>3, <1>5, <1>9 DEF Moved, Disowned
  <2> QED BY <2>1, StructParts DEF Kept
<1>15. /\ u \in Structs /\ u.native = v.native /\ u.NativeCount = p
       /\ u.events = s.events /\ u.evntsel = s.evntsel /\ u.enabled = s.enabled
       /\ u.nractrs = s.nractrs /\ u.nrictrs = s.nrictrs /\ u.overflow = s.overflow
  <2>1. v.NativeCount - Cardinality(zero) = p /\ p \in Counts
    BY <1>1, <1>12, <1>13, <1>14 DEF Counts
  <2>2. u = [v EXCEPT !.NativeCount = p]
    BY <2>1 DEF u
  <2> HIDE DEF p
  <2> QED BY <1>14, <2>1, <2>2 DEF Structs
<1>16. zero = {} <=> p = N
  <2>1. zero = {} => Cardinality(zero) = 0
    BY FS_EmptySet
  <2>2. IsFiniteSet(zero)
    <3>1. IsFiniteSet(0..N - 1)
      <4>1. N \in Nat
        BY <1>1 DEF Counts
      <4> HIDE DEF N
      <4> QED BY <4>1, Below
    <3>2. zero \in SUBSET (0..N - 1)
      BY <1>11
    <3> QED BY Zenon, <3>1, <3>2, FS_Subset
  <2>3. Cardinality(zero) = 0 => zero = {}
    BY <2>2, FS_EmptySet
  <2> QED BY <1>1, <1>12, <1>13, <2>1, <2>3 DEF Counts
<1>17. /\ r \in Structs /\ r.events = s.events /\ r.native = v.native
       /\ r.NativeCount = p /\ r.overflow = s.overflow
       /\ IF p = N
          THEN /\ r.evntsel = s.evntsel /\ r.enabled = s.enabled
               /\ r.nractrs = s.nractrs /\ r.nrictrs = s.nrictrs
          ELSE Rewritten(s, r)
  <2>1. CASE p = N
    BY <1>2, <1>15, <1>16, <2>1 DEF r
  <2>2. CASE p # N
    <3>1. r = UpdateControl(u)
      BY <1>2, <1>16, <2>2
    <3>2. /\ r \in Structs /\ r.events = u.events /\ r.native = u.native
          /\ r.NativeCount = u.NativeCount /\ r.overflow = u.overflow
          /\ \A k \in Slots : r.evntsel[k] =
               (IF k \in Programmed(u) THEN {} ELSE u.evntsel[k])
                 \cup (IF k < u.NativeCount THEN u.native[k].ni_bits ELSE {})
          /\ r.enabled = u.enabled \ Programmed(u)
          /\ r.nractrs = u.NativeCount /\ r.nrictrs = 0
      BY <1>15, <3>1, Updated
    <3>3. Programmed(u) = Programmed(s)
      BY <1>15 DEF Programmed
    <3> HIDE DEF p
    <3>4. \A k \in Slots : k >= p =>
            r.evntsel[k] = IF k \in Programmed(s) THEN {} ELSE s.evntsel[k]
      <4> SUFFICES ASSUME NEW k \in Slots, k >= p
                   PROVE  r.evntsel[k] = IF k \in Programmed(s) THEN {} ELSE s.evntsel[k]
        OBVIOUS
      <4>1. ~ (k < p)
        BY <1>1, <1>12 DEF Counts
      <4>2. u.NativeCount = p /\ u.evntsel = s.evntsel
        BY <1>15
      <4> DEFINE old == IF k \in Programmed(s) THEN {} ELSE s.evntsel[k]
      <4>3. r.evntsel[k] = old \cup (IF k < p THEN u.native[k].ni_bits ELSE {})
        BY <3>2, <3>3, <4>2
      <4> HIDE DEF old
      <4>4. r.evntsel[k] = old
        BY <4>1, <4>3
      <4> QED BY <4>4 DEF old
    <3>5. Rewritten(s, r)
      <4>1. r.NativeCount = p /\ r.enabled = s.enabled \ Programmed(s)
            /\ r.nractrs = p /\ r.nrictrs = 0
        BY <1>15, <3>2, <3>3
      <4> QED BY <3>4, <4>1 DEF Rewritten
    <3> QED BY <1>15, <2>2, <3>2, <3>5
  <2> QED BY <2>1, <2>2
<1> HIDE DEF p
<1>18. Owned(r)
  <2>1. \A k \in 0..p - 1 : v.native[k].ni_owners # 0 /\ v.native[k] \in Entries
    <3>1. \A k \in 0..p - 1 : k \in Slots
      BY <1>1, <1>12 DEF Counts
    <3> QED BY <1>12, <1>14, <3>1 DEF Live, Tables
  <2>2. \A k \in 0..p - 1 : v.native[k].ni_owners > 0
    BY <2>1 DEF Entries
  <2> QED BY <1>12, <1>17, <2>2 DEF Owned
<1>19. ASSUME NEW k \in 0..N - 1, Survives(s.native[k], D)
       PROVE  \E l \in 0..p - 1 : Same(r.native[l], After(s.native[k], D))
  <2>1. k \in Live(d) /\ d.native[k] = After(s.native[k], D)
    BY <1>6, <1>7, <1>10, <1>19
  <2>2. \E l \in Live(v) : Same(v.native[l], d.native[k])
    BY <1>9, <2>1 DEF Moved
  <2> QED BY <1>12, <1>17, <2>1, <2>2
<1>20. ASSUME NEW l \in 0..p - 1
       PROVE  \E k \in 0..N - 1 :
                Survives(s.native[k], D) /\ Same(r.native[l], After(s.native[k], D))
  <2>1. PICK k \in Live(d) : Same(v.native[l], d.native[k])
    BY <1>9, <1>12 DEF Moved
  <2>2. k \in 0..N - 1 /\ Survives(s.native[k], D) /\ k \in Slots
    BY <1>7, <1>10
  <2> QED BY <1>6, <1>17, <2>1, <2>2
<1>21. p <= N
  BY <1>1, <1>12 DEF Counts
<1>22. p = N => \A k \in 0..N - 1 : Survives(s.native[k], D)
  BY <1>10, <1>11, <1>16
<1>23. Removed(s, r, D)
  BY <1>17, <1>18, <1>19, <1>20, <1>21, <1>22 DEF Removed
<1> QED BY <1>23 DEF r, D

-----------------------------------------------------------------------------
(* The table when an event leaves or joins.                                *)

\* How many events are made of a native event, when one joins or leaves.
LEMMA MakersCount ==
  ASSUME NEW C, IsFiniteSet(C), NEW n
  PROVE  /\ Cardinality(Makers(C, n)) \in Nat
         /\ Cardinality(Makers(C, n)) = 0 <=> Makers(C, n) = {}
         /\ \A c \in C : n \in ToSet(Terms[c]) =>
              Cardinality(Makers(C \ {c}, n)) = Cardinality(Makers(C, n)) - 1
         /\ \A c : n \notin ToSet(Terms[c]) => Makers(C \ {c}, n) = Makers(C, n)
         /\ \A c : c \notin C /\ n \in ToSet(Terms[c]) =>
              Cardinality(Makers(C \cup {c}, n)) = Cardinality(Makers(C, n)) + 1
         /\ \A c : n \notin ToSet(Terms[c]) => Makers(C \cup {c}, n) = Makers(C, n)
         /\ n \in NativesOf(C) <=> Makers(C, n) # {}
<1>1. IsFiniteSet(Makers(C, n))
  <2>1. Makers(C, n) \in SUBSET C
    BY DEF Makers
  <2> QED BY <2>1, FS_Subset
<1>2. Cardinality(Makers(C, n)) \in Nat
      /\ (Cardinality(Makers(C, n)) = 0 <=> Makers(C, n) = {})
  BY <1>1, FS_CardinalityType, FS_EmptySet
<1>3. ASSUME NEW c \in C, n \in ToSet(Terms[c])
      PROVE  Cardinality(Makers(C \ {c}, n)) = Cardinality(Makers(C, n)) - 1
  <2>1. Makers(C \ {c}, n) = Makers(C, n) \ {c} /\ c \in Makers(C, n)
    BY <1>3 DEF Makers
  <2> QED BY <1>1, <2>1, FS_RemoveElement
<1>4. ASSUME NEW c, n \notin ToSet(Terms[c])
      PROVE  Makers(C \ {c}, n) = Makers(C, n) /\ Makers(C \cup {c}, n) = Makers(C, n)
  BY <1>4 DEF Makers
<1>5. ASSUME NEW c, c \notin C, n \in ToSet(Terms[c])
      PROVE  Cardinality(Makers(C \cup {c}, n)) = Cardinality(Makers(C, n)) + 1
  <2>1. Makers(C \cup {c}, n) = Makers(C, n) \cup {c} /\ c \notin Makers(C, n)
    BY <1>5 DEF Makers
  <2> QED BY <1>1, <2>1, FS_AddElement
<1>6. n \in NativesOf(C) <=> Makers(C, n) # {}
  BY DEF NativesOf, Makers
<1> QED BY <1>2, <1>3, <1>4, <1>5, <1>6

LEMMA TableOwned ==
  ASSUME NEW s \in Structs, NEW C, IsFiniteSet(C), Table(s.native, s.NativeCount, C)
  PROVE  Owned(s)
<1>1. ASSUME NEW k \in 0..s.NativeCount - 1 PROVE s.native[k].ni_owners > 0
  <2>1. s.native[k].ni_event \in NativesOf(C)
        /\ s.native[k].ni_owners = Cardinality(Makers(C, s.native[k].ni_event))
    BY DEF Table
  <2>2. Cardinality(Makers(C, s.native[k].ni_event)) \in Nat
        /\ Cardinality(Makers(C, s.native[k].ni_event)) # 0
    BY <2>1, MakersCount
  <2> QED BY <2>1, <2>2
<1> QED BY <1>1 DEF Owned, Table

\* The table without an event, and with one more.
LEMMA TableMinus ==
  ASSUME NEW s \in Structs, NEW r, NEW C, IsFiniteSet(C), NEW c \in C,
         Table(s.native, s.NativeCount, C), Removed(s, r, ToSet(Terms[c]))
  PROVE  Table(r.native, r.NativeCount, C \ {c})
<1> DEFINE D == ToSet(Terms[c])
           B == C \ {c}
<1>1. ASSUME NEW k \in 0..s.NativeCount - 1
      PROVE  LET n == s.native[k].ni_event
                 e == After(s.native[k], D)
             IN /\ Survives(s.native[k], D) <=> n \in NativesOf(B)
                /\ e.ni_event = n /\ e.ni_owners = Cardinality(Makers(B, n))
  <2> DEFINE n == s.native[k].ni_event
             m == s.native[k].ni_owners
  <2>1. s.native[k] \in Entries /\ m = Cardinality(Makers(C, n)) /\ n \in NativesOf(C)
    BY StructParts DEF Table
  <2>2. m \in Nat /\ m # 0
    BY <2>1, MakersCount
  <2>3. IsFiniteSet(B)
    BY FS_RemoveElement
  <2> HIDE DEF m, n, B, D
  <2>4. Cardinality(Makers(B, n)) \in Nat
        /\ (n \in NativesOf(B) <=> Cardinality(Makers(B, n)) # 0)
    BY <2>3, MakersCount
  <2>5. CASE n \in D
    <3>1. Cardinality(Makers(B, n)) = m - 1
      BY <2>1, <2>5, MakersCount DEF B, D
    <3>2. Less(s.native[k]).ni_event = n /\ Less(s.native[k]).ni_owners = m - 1
      BY <2>1, <2>2, LessEntry DEF m, n
    <3> QED BY <2>2, <2>4, <2>5, <3>1, <3>2 DEF Survives, After, m, n, B, D
  <2>6. CASE n \notin D
    <3>1. Makers(B, n) = Makers(C, n)
      BY <2>6, MakersCount DEF B, D
    <3> QED BY <2>1, <2>2, <2>4, <2>6, <3>1 DEF Survives, After, m, n, B, D
  <2> QED BY <2>5, <2>6
<1>2. ASSUME NEW l \in 0..r.NativeCount - 1
      PROVE  /\ r.native[l].ni_event \in NativesOf(B)
             /\ r.native[l].ni_owners = Cardinality(Makers(B, r.native[l].ni_event))
  <2>1. PICK k \in 0..s.NativeCount - 1 :
          Survives(s.native[k], D) /\ Same(r.native[l], After(s.native[k], D))
    BY DEF Removed
  <2> QED BY <1>1, <2>1 DEF Same
<1>3. ASSUME NEW n \in NativesOf(B)
      PROVE  \E l \in 0..r.NativeCount - 1 : r.native[l].ni_event = n
  <2>1. n \in NativesOf(C)
    BY DEF NativesOf
  <2>2. PICK k \in 0..s.NativeCount - 1 : s.native[k].ni_event = n
    BY <2>1 DEF Table
  <2>3. PICK l \in 0..r.NativeCount - 1 : Same(r.native[l], After(s.native[k], D))
    BY <1>1, <2>2 DEF Removed
  <2>4. r.native[l].ni_event = n
    BY <1>1, <2>2, <2>3 DEF Same
  <2> QED BY <2>4
<1> QED BY <1>2, <1>3 DEF Table, Removed, Owned

LEMMA TablePlus ==
  ASSUME NEW s \in Structs, NEW t, NEW C, IsFiniteSet(C), NEW c, c \notin C,
         Table(s.native, s.NativeCount, C), Adding(s, t, ToSet(Terms[c]))
  PROVE  Table(t.native, t.NativeCount, C \cup {c})
<1> DEFINE D == ToSet(Terms[c])
           B == C \cup {c}
<1>1. s.NativeCount \in Counts /\ t.NativeCount \in Counts
      /\ s.NativeCount <= t.NativeCount
  BY StructParts DEF Adding
<1>2. \A n : n \in NativesOf(B) <=> n \in NativesOf(C) \/ n \in D
  BY DEF NativesOf
<1>3. \A l \in 0..t.NativeCount - 1 :
        l \in 0..s.NativeCount - 1 \/ l \in s.NativeCount..t.NativeCount - 1
  BY <1>1 DEF Counts
<1>4. ASSUME NEW l \in 0..s.NativeCount - 1
      PROVE  LET n == s.native[l].ni_event
             IN /\ t.native[l].ni_event = n /\ n \in NativesOf(B)
                /\ t.native[l].ni_owners = Cardinality(Makers(B, n))
  <2> DEFINE n == s.native[l].ni_event
             m == s.native[l].ni_owners
  <2>1. s.native[l] \in Entries /\ m = Cardinality(Makers(C, n)) /\ n \in NativesOf(C)
    BY StructParts DEF Table
  <2>2. t.native[l] = IF n \in D THEN One(s.native[l]) ELSE s.native[l]
    BY DEF Adding
  <2>3. One(s.native[l]).ni_event = n /\ One(s.native[l]).ni_owners = m + 1
    BY <2>1, EmptyEntry
  <2> HIDE DEF B, D, n, m
  <2>4. n \in D => Cardinality(Makers(B, n)) = m + 1
    BY <2>1, MakersCount DEF B, D
  <2>5. n \notin D => Makers(B, n) = Makers(C, n)
    BY MakersCount DEF B, D
  <2>6. n \in NativesOf(B)
    BY <1>2, <2>1
  <2> QED BY <2>1, <2>2, <2>3, <2>4, <2>5, <2>6 DEF n, m
<1>5. ASSUME NEW l \in s.NativeCount..t.NativeCount - 1
      PROVE  LET n == t.native[l].ni_event
             IN n \in NativesOf(B) /\ t.native[l].ni_owners = Cardinality(Makers(B, n))
  <2> DEFINE n == t.native[l].ni_event
  <2>1. n \in D /\ t.native[l] = New(n)
        /\ \A k \in 0..s.NativeCount - 1 : s.native[k].ni_event # n
    BY DEF Adding
  <2>2. New(n).ni_owners = 1
    BY Zenon, EmptyEntry DEF New, Entries
  <2> HIDE DEF n
  <2>3. n \notin NativesOf(C)
    BY <2>1 DEF Table
  <2>4. Cardinality(Makers(C, n)) = 0
    BY <2>3, MakersCount
  <2>5. Cardinality(Makers(B, n)) = 0 + 1
    BY <2>1, <2>4, MakersCount
  <2>6. n \in NativesOf(B) /\ t.native[l].ni_owners = Cardinality(Makers(B, n))
    <3> HIDE DEF B, D
    <3>1. t.native[l].ni_owners = 1
      BY <2>1, <2>2
    <3>2. Cardinality(Makers(B, n)) = 1
      BY <2>5
    <3>3. n \in NativesOf(B)
      BY <1>2, <2>1
    <3> QED BY <3>1, <3>2, <3>3
  <2> QED BY <2>6 DEF n
<1>6. \A n \in NativesOf(B) : \E k \in 0..t.NativeCount - 1 : t.native[k].ni_event = n
  <2>1. ASSUME NEW n \in NativesOf(C)
        PROVE  \E k \in 0..t.NativeCount - 1 : t.native[k].ni_event = n
    <3>1. PICK k \in 0..s.NativeCount - 1 : s.native[k].ni_event = n
      BY DEF Table
    <3>2. k \in 0..t.NativeCount - 1 /\ t.native[k].ni_event = n
      BY <1>1, <1>4, <3>1 DEF Counts
    <3> QED BY <3>2
  <2>2. \A n \in D : \E k \in 0..t.NativeCount - 1 : t.native[k].ni_event = n
    BY DEF Adding
  <2> QED BY <1>2, <2>1, <2>2
<1>7. \A l \in 0..t.NativeCount - 1 :
        /\ t.native[l].ni_event \in NativesOf(B)
        /\ t.native[l].ni_owners = Cardinality(Makers(B, t.native[l].ni_event))
  BY <1>3, <1>4, <1>5
<1> QED BY <1>6, <1>7 DEF Table, Adding

-----------------------------------------------------------------------------
(* The events of the set and what points at them.                          *)

\* The codes of the events, and the table as they need it.
CodeSet(s) == {s.events[i].event_code : i \in DOMAIN s.events}

NativesInv(s) == Table(s.native, s.NativeCount, CodeSet(s))

\* The events are different, and each has, for each of its native events that the
\* table holds, the position that the table says.
EventsInv(s) ==
  /\ Len(s.events) <= NumCntrs
  /\ \A i, j \in DOMAIN s.events :
       s.events[i].event_code = s.events[j].event_code => i = j
  /\ \A i \in DOMAIN s.events :
       DOMAIN s.events[i].pos = DOMAIN Terms[s.events[i].event_code]
  /\ \A i \in DOMAIN s.events, k \in 0..s.NativeCount - 1 :
       \A j \in DOMAIN s.events[i].pos :
         s.native[k].ni_event = Terms[s.events[i].event_code][j]
           => s.events[i].pos[j] = s.native[k].ni_position

\* The kernel is told to program a register for each native event, and each has
\* been given a register.
RegInv(s) ==
  /\ s.nractrs + s.nrictrs = s.NativeCount
  /\ \A k \in 0..s.NativeCount - 1 : s.native[k].ni_position \in Slots

Core(s) == s \in Structs /\ NativesInv(s) /\ EventsInv(s) /\ RegInv(s)

AllRight(s) ==
  \A i \in DOMAIN s.events : \A j \in DOMAIN s.events[i].pos :
    /\ s.events[i].pos[j] \in Programmed(s)
    /\ s.evntsel[s.events[i].pos[j]] = {Terms[s.events[i].event_code][j]}

\* How far nrictrs can go wrong: an overflow that is turned off when its event's
\* register is enabled counts one down, which is one too many only if that
\* register is behind those that were ever programmed.
OverInv(s) ==
  /\ s.overflow = NoEvent => s.nrictrs # 1
  /\ s.nrictrs = -1 =>
       /\ s.overflow = NoEvent
       /\ \E k \in 0..s.NativeCount - 1 : s.native[k].ni_position >= s.NativeCount
  /\ s.overflow # NoEvent =>
       /\ Len(Terms[s.overflow]) = 1
       /\ \E i \in DOMAIN s.events :
            /\ s.events[i].event_code = s.overflow
            /\ s.nrictrs = 1 => s.events[i].pos[1] \in s.enabled
            /\ s.nrictrs = 0 /\ s.events[i].pos[1] \in s.enabled
                 => s.events[i].pos[1] >= s.NativeCount

StateInv(s) == Core(s) /\ OverInv(s)

\* Nothing is in the registers behind those in use; and nothing interrupts but
\* the register of the event that overflows, the last one.
Cleared(s) ==
  \A k \in Slots : k >= s.NativeCount => s.evntsel[k] = {} /\ k \notin s.enabled

LastOn(s) ==
  /\ s.nrictrs # 1 => s.enabled = {}
  /\ s.nrictrs = 1 =>
       /\ s.enabled = {s.nractrs}
       /\ \E i \in DOMAIN s.events : /\ s.events[i].event_code = s.overflow
                                     /\ s.events[i].pos[1] = s.nractrs

TidyInv(s) == Cleared(s) /\ LastOn(s)

\* The counts, and the registers that they make Programmed.
LEMMA CoreParts ==
  ASSUME NEW s, Core(s)
  PROVE  /\ s \in Structs /\ s.NativeCount \in Counts /\ s.nractrs \in Counts
         /\ s.nrictrs \in Interrupts /\ s.nractrs + s.nrictrs = s.NativeCount
         /\ Programmed(s) = 0..s.NativeCount - 1 /\ 0..s.NativeCount - 1 \subseteq Slots
         /\ \A k \in Slots : s.native[k] \in Entries
         /\ \A k \in 0..s.NativeCount - 1 : s.native[k].ni_position \in Slots
<1>1. /\ s \in Structs /\ s.NativeCount \in Counts /\ s.nractrs \in Counts
      /\ s.nrictrs \in Interrupts /\ s.nractrs + s.nrictrs = s.NativeCount
      /\ \A k \in Slots : s.native[k] \in Entries
      /\ \A k \in 0..s.NativeCount - 1 : s.native[k].ni_position \in Slots
  BY StructParts DEF Core, RegInv
<1>2. s.nractrs + s.nrictrs - 1 = s.NativeCount - 1
  BY <1>1 DEF Counts, Interrupts
<1>3. 0..s.NativeCount - 1 \subseteq Slots
  BY <1>1 DEF Counts
<1> QED BY <1>1, <1>2, <1>3 DEF Programmed

LEMMA EventParts ==
  ASSUME NEW s \in Structs
  PROVE  /\ Len(s.events) \in Nat /\ DOMAIN s.events = 1..Len(s.events)
         /\ \A i \in DOMAIN s.events :
              /\ s.events[i] \in EventRecs /\ s.events[i].event_code \in Events
              /\ s.events[i].pos \in Seq(Slots \cup {-1})
         /\ CodeSet(s) \in SUBSET Events
         /\ IsFiniteSet(CodeSet(s))
<1>1. s.events \in Seq(EventRecs)
  BY StructParts DEF EventLists
<1>2. Len(s.events) \in Nat /\ DOMAIN s.events = 1..Len(s.events)
      /\ \A i \in DOMAIN s.events : s.events[i] \in EventRecs
  BY <1>1
<1>3. \A e \in EventRecs : e.event_code \in Events /\ e.pos \in Seq(Slots \cup {-1})
  BY DEF EventRecs
<1>4. CodeSet(s) \in SUBSET Events
  BY <1>2, <1>3 DEF CodeSet
<1>5. IsFiniteSet(CodeSet(s))
  <2> DEFINE S == 1..Len(s.events)
             f == [i \in S |-> s.events[i].event_code]
  <2>1. IsFiniteSet(S)
    BY <1>2, Below
  <2>2. CodeSet(s) \in SUBSET {f[i] : i \in S}
    BY <1>2 DEF CodeSet
  <2>3. IsFiniteSet({f[i] : i \in S})
    <3>1. f \in Surjection(S, {f[i] : i \in S})
      BY DEF Surjection
    <3> HIDE DEF S, f
    <3> QED BY <2>1, <3>1, FS_Surjection
  <2> HIDE DEF S, f
  <2> QED BY <2>2, <2>3, FS_Subset
<1> QED BY <1>2, <1>3, <1>4, <1>5

\* A list without one of its elements.
LEMMA ListRemoved ==
  ASSUME NEW A, NEW evs \in Seq(A), NEW i \in DOMAIN evs
  PROVE  LET r == RemoveAt(evs, i)
         IN /\ r \in Seq(A) /\ Len(r) = Len(evs) - 1 /\ DOMAIN r = 1..Len(evs) - 1
            /\ \A j \in 1..Len(evs) - 1 : r[j] = IF j < i THEN evs[j] ELSE evs[j + 1]
<1>1. evs \in Seq(A) /\ i \in 1..Len(evs)
  OBVIOUS
<1> DEFINE a == SubSeq(evs, 1, i - 1)
           b == SubSeq(evs, i + 1, Len(evs))
<1>2. /\ a \in Seq(A) /\ Len(a) = i - 1 /\ \A j \in 1..i - 1 : a[j] = evs[j]
      /\ b \in Seq(A) /\ Len(b) = Len(evs) - i
      /\ \A j \in 1..Len(evs) - i : b[j] = evs[i + j]
  <2>1. i \in Int /\ Len(evs) \in Nat /\ 1 <= i /\ i <= Len(evs)
    BY <1>1
  <2>2. /\ a \in Seq(A) /\ Len(a) = i - 1
    BY <1>1, <2>1
  <2>3. \A j \in 1..i - 1 : a[j] = evs[j]
    BY <1>1, <2>1
  <2>4. b \in Seq(A) /\ Len(b) = Len(evs) - i
    BY SMTT(30), <1>1, <2>1
  <2>5. \A j \in 1..Len(evs) - i : b[j] = evs[i + j]
    BY SMTT(30), <1>1, <2>1
  <2> QED BY <2>2, <2>3, <2>4, <2>5
<1>3. RemoveAt(evs, i) = a \o b
  BY DEF RemoveAt
<1> HIDE DEF a, b
<1>4. a \o b \in Seq(A) /\ Len(a \o b) = Len(evs) - 1
  BY <1>1, <1>2
<1>5. \A j \in 1..Len(evs) - 1 : (a \o b)[j] = IF j < i THEN evs[j] ELSE evs[j + 1]
  <2> SUFFICES ASSUME NEW j \in 1..Len(evs) - 1
               PROVE  (a \o b)[j] = IF j < i THEN evs[j] ELSE evs[j + 1]
    OBVIOUS
  <2>1. CASE j < i
    BY SMTT(30), <1>1, <1>2, <2>1
  <2>2. CASE j >= i
    <3>1. (a \o b)[j] = b[j - (i - 1)] /\ j - (i - 1) \in 1..Len(evs) - i
      BY SMTT(30), <1>1, <1>2, <2>2
    <3>2. i + (j - (i - 1)) = j + 1 /\ ~ (j < i)
      BY <1>1, <2>2
    <3>3. b[j - (i - 1)] = evs[i + (j - (i - 1))]
      BY <1>2, <3>1
    <3> QED BY <3>1, <3>2, <3>3
  <2>3. j < i \/ j >= i
    BY <1>1
  <2> QED BY <2>1, <2>2, <2>3
<1> DEFINE r == RemoveAt(evs, i)
<1>6. r \in Seq(A) /\ Len(r) = Len(evs) - 1
      /\ \A j \in 1..Len(evs) - 1 : r[j] = IF j < i THEN evs[j] ELSE evs[j + 1]
  BY <1>3, <1>4, <1>5
<1> HIDE DEF r
<1>7. DOMAIN r = 1..Len(evs) - 1
  BY <1>6
<1> QED BY <1>6, <1>7 DEF r

\* The list that PAPI_remove_event leaves.
LEMMA EventRemoved ==
  ASSUME NEW evs \in EventLists, NEW i \in DOMAIN evs
  PROVE  LET r == RemoveAt(evs, i)
         IN /\ r \in EventLists /\ Len(r) = Len(evs) - 1
            /\ \A j \in DOMAIN r : r[j] = IF j < i THEN evs[j] ELSE evs[j + 1]
<1> DEFINE r == RemoveAt(evs, i)
<1>1. evs \in Seq(EventRecs)
  BY DEF EventLists
<1>2. /\ r \in Seq(EventRecs) /\ Len(r) = Len(evs) - 1 /\ DOMAIN r = 1..Len(evs) - 1
      /\ \A j \in 1..Len(evs) - 1 : r[j] = IF j < i THEN evs[j] ELSE evs[j + 1]
  BY <1>1, ListRemoved
<1> HIDE DEF r
<1> QED BY <1>2 DEF EventLists, r

\* The events r were left of s when the event at i went.
LEMMA CodesLeft ==
  ASSUME NEW s \in Structs, NEW r \in Structs, NEW i \in DOMAIN s.events,
         EventsInv(s), r.events = RemoveAt(s.events, i)
  PROVE  /\ CodeSet(r) = CodeSet(s) \ {s.events[i].event_code}
         /\ s.events[i].event_code \in CodeSet(s)
         /\ Len(r.events) = Len(s.events) - 1
         /\ \A j \in DOMAIN r.events : \E k \in DOMAIN s.events :
              r.events[j] = s.events[k] /\ k = IF j < i THEN j ELSE j + 1
         /\ \A k \in DOMAIN s.events : k # i =>
              \E j \in DOMAIN r.events : r.events[j] = s.events[k]
<1>1. /\ Len(s.events) \in Nat /\ DOMAIN s.events = 1..Len(s.events)
      /\ Len(r.events) \in Nat /\ DOMAIN r.events = 1..Len(r.events)
  BY EventParts
<1>2. Len(r.events) = Len(s.events) - 1
      /\ \A j \in DOMAIN r.events :
           r.events[j] = IF j < i THEN s.events[j] ELSE s.events[j + 1]
  BY EventRemoved, StructParts
<1>3. \A j \in DOMAIN r.events : \E k \in DOMAIN s.events :
        r.events[j] = s.events[k] /\ k = IF j < i THEN j ELSE j + 1
  <2> SUFFICES ASSUME NEW j \in DOMAIN r.events
               PROVE  \E k \in DOMAIN s.events :
                        r.events[j] = s.events[k] /\ k = IF j < i THEN j ELSE j + 1
    OBVIOUS
  <2> DEFINE k == IF j < i THEN j ELSE j + 1
  <2>1. k \in DOMAIN s.events /\ r.events[j] = s.events[k]
    BY <1>1, <1>2
  <2> QED BY <2>1
<1>4. \A k \in DOMAIN s.events : k # i =>
        \E j \in DOMAIN r.events : r.events[j] = s.events[k]
  <2> SUFFICES ASSUME NEW k \in DOMAIN s.events, k # i
               PROVE  \E j \in DOMAIN r.events : r.events[j] = s.events[k]
    OBVIOUS
  <2>1. CASE k < i
    BY <1>1, <1>2, <2>1
  <2>2. CASE k > i
    <3>1. k - 1 \in DOMAIN r.events /\ ~ (k - 1 < i) /\ (k - 1) + 1 = k
      BY <1>1, <1>2, <2>2
    <3>2. r.events[k - 1] = s.events[k]
      BY <1>2, <3>1
    <3> QED BY <3>1, <3>2
  <2> QED BY <1>1, <2>1, <2>2
<1>5. \A j \in DOMAIN r.events : r.events[j].event_code # s.events[i].event_code
  <2> SUFFICES ASSUME NEW j \in DOMAIN r.events,
                      r.events[j].event_code = s.events[i].event_code
               PROVE  FALSE
    OBVIOUS
  <2>1. PICK k \in DOMAIN s.events :
          r.events[j] = s.events[k] /\ k = IF j < i THEN j ELSE j + 1
    BY <1>3
  <2>2. k = i
    BY <2>1 DEF EventsInv
  <2> QED BY <1>1, <2>1, <2>2
<1> QED BY <1>2, <1>3, <1>4, <1>5 DEF CodeSet
-----------------------------------------------------------------------------
(* Two registers change places.                                            *)

LEMMA Exchanged ==
  ASSUME NEW a \in Slots, NEW b \in Slots
  PROVE  /\ \A k \in Slots : Exchange(k, a, b) \in Slots
         /\ \A k \in Slots \cup {-1} : Exchange(k, a, b) \in Slots \cup {-1}
         /\ \A k : Exchange(Exchange(k, a, b), a, b) = k
         /\ \A k : Exchange(k, a, a) = k
         /\ Exchange(a, a, b) = b
BY DEF Exchange

MovedEntry(e, a, b) == [e EXCEPT !.ni_position = Exchange(@, a, b)]
MovedEvent(e, a, b) == [e EXCEPT !.pos = [j \in DOMAIN @ |-> Exchange(@[j], a, b)]]

\* s with registers a and b exchanged everywhere.
Swapped(s, r, a, b) ==
  /\ r \in Structs /\ r.NativeCount = s.NativeCount
  /\ r.nractrs = s.nractrs /\ r.nrictrs = s.nrictrs /\ r.overflow = s.overflow
  /\ \A k \in Slots : r.native[k] = IF k < s.NativeCount
                                    THEN MovedEntry(s.native[k], a, b) ELSE s.native[k]
  /\ Len(r.events) = Len(s.events)
  /\ \A i \in DOMAIN s.events :
       /\ r.events[i].event_code = s.events[i].event_code
       /\ DOMAIN r.events[i].pos = DOMAIN s.events[i].pos
       /\ \A j \in DOMAIN s.events[i].pos :
            r.events[i].pos[j] = Exchange(s.events[i].pos[j], a, b)
  /\ \A k \in Slots : r.evntsel[k] = s.evntsel[Exchange(k, a, b)]
  /\ r.enabled = {Exchange(k, a, b) : k \in s.enabled}

LEMMA MovedEntryParts ==
  ASSUME NEW e \in Entries, NEW a \in Slots, NEW b \in Slots
  PROVE  LET m == MovedEntry(e, a, b)
         IN /\ m \in Entries /\ m.ni_event = e.ni_event /\ m.ni_owners = e.ni_owners
            /\ m.ni_position = Exchange(e.ni_position, a, b)
            /\ MovedEntry(e, a, a) = e
<1> DEFINE p == Exchange(e.ni_position, a, b)
<1>1. e.ni_position \in Slots \cup {-1} /\ p \in Slots \cup {-1}
  BY Exchanged DEF Entries
<1>2. MovedEntry(e, a, b) = [e EXCEPT !.ni_position = p]
  BY DEF MovedEntry
<1>3. MovedEntry(e, a, a) = [e EXCEPT !.ni_position = e.ni_position]
  BY Exchanged DEF MovedEntry
<1> HIDE DEF p
<1>4. [e EXCEPT !.ni_position = p] \in Entries
  BY Zenon, <1>1, EntryUpdate
<1>5. [e EXCEPT !.ni_position = e.ni_position] = e
  BY DEF Entries
<1> QED BY <1>2, <1>3, <1>4, <1>5 DEF Entries, p

LEMMA MovedEventParts ==
  ASSUME NEW e \in EventRecs, NEW a \in Slots, NEW b \in Slots
  PROVE  LET m == MovedEvent(e, a, b)
         IN /\ m \in EventRecs /\ m.event_code = e.event_code
            /\ DOMAIN m.pos = DOMAIN e.pos
            /\ \A j \in DOMAIN e.pos : m.pos[j] = Exchange(e.pos[j], a, b)
<1> DEFINE p == [j \in DOMAIN e.pos |-> Exchange(e.pos[j], a, b)]
<1>1. e.pos \in Seq(Slots \cup {-1}) /\ e.event_code \in Events
  BY DEF EventRecs
<1>2. MovedEvent(e, a, b) = [e EXCEPT !.pos = p]
  BY DEF MovedEvent
<1>3. p \in Seq(Slots \cup {-1}) /\ DOMAIN p = DOMAIN e.pos
      /\ \A j \in DOMAIN e.pos : p[j] = Exchange(e.pos[j], a, b)
  <2> DEFINE S == Slots \cup {-1}
  <2>1. Len(e.pos) \in Nat /\ DOMAIN e.pos = 1..Len(e.pos)
        /\ \A j \in DOMAIN e.pos : e.pos[j] \in S
    BY <1>1
  <2>2. \A j \in DOMAIN e.pos : Exchange(e.pos[j], a, b) \in S
    BY <2>1, Exchanged
  <2> HIDE DEF S
  <2>3. p \in Seq(S)
    BY <2>1, <2>2
  <2> QED BY <2>3 DEF S
<1> HIDE DEF p
<1>4. [e EXCEPT !.pos = p] \in EventRecs
  BY <1>3 DEF EventRecs
<1> QED BY <1>2, <1>3, <1>4 DEF EventRecs

\* What swap_events does to each part of the structure.
LEMMA SwapParts ==
  ASSUME NEW s \in Structs, NEW a \in Slots, NEW b \in Slots
  PROVE  Swapped(s, Swap(s, a, b), a, b)
<1> DEFINE nat == [k \in Slots |-> IF k < s.NativeCount
                                  THEN MovedEntry(s.native[k], a, b) ELSE s.native[k]]
           evs == [i \in DOMAIN s.events |-> MovedEvent(s.events[i], a, b)]
           sel == [k \in Slots |-> s.evntsel[Exchange(k, a, b)]]
           on == {Exchange(k, a, b) : k \in s.enabled}
           r == Swap(s, a, b)
<1>1. r = [s EXCEPT !.native = nat, !.events = evs, !.evntsel = sel, !.enabled = on]
  <2>1. r = [s EXCEPT !.native = [k \in Slots |->
              IF k < s.NativeCount
              THEN [s.native[k] EXCEPT !.ni_position = Exchange(@, a, b)] ELSE @[k]],
            !.events = [i \in DOMAIN @ |->
              [s.events[i] EXCEPT !.pos = [j \in DOMAIN @ |-> Exchange(@[j], a, b)]]],
            !.evntsel = [k \in Slots |-> @[Exchange(k, a, b)]],
            !.enabled = {Exchange(k, a, b) : k \in @}]
    BY DEF Swap
  <2> QED BY <2>1 DEF MovedEntry, MovedEvent
<1>2. nat \in Tables
  <2>1. \A k \in Slots : (IF k < s.NativeCount
                          THEN MovedEntry(s.native[k], a, b) ELSE s.native[k]) \in Entries
    BY StructParts, MovedEntryParts
  <2> QED BY <2>1 DEF Tables
<1>3. evs \in EventLists /\ Len(evs) = Len(s.events)
  <2>1. Len(s.events) \in Nat /\ DOMAIN s.events = 1..Len(s.events)
        /\ \A i \in DOMAIN s.events : s.events[i] \in EventRecs
    BY EventParts
  <2>2. \A i \in DOMAIN s.events : MovedEvent(s.events[i], a, b) \in EventRecs
    BY <2>1, MovedEventParts
  <2>3. evs \in Seq(EventRecs) /\ Len(evs) = Len(s.events)
    BY <2>1, <2>2
  <2> QED BY <2>3 DEF EventLists
<1>4. sel \in Selects
  <2>1. s.evntsel \in [Slots -> SUBSET Natives]
    BY StructParts DEF Selects
  <2>2. \A k \in Slots : Exchange(k, a, b) \in Slots
    BY Exchanged
  <2>3. \A k \in Slots : s.evntsel[Exchange(k, a, b)] \in SUBSET Natives
    BY <2>1, <2>2
  <2> QED BY <2>3 DEF Selects
<1>5. on \in Registers
  <2>1. s.enabled \in SUBSET Slots
    BY StructParts DEF Registers
  <2>2. \A k \in Slots : Exchange(k, a, b) \in Slots
    BY Exchanged
  <2> QED BY <2>1, <2>2 DEF Registers
<1>6. \A k \in Slots : nat[k] = IF k < s.NativeCount
                                THEN MovedEntry(s.native[k], a, b) ELSE s.native[k]
  OBVIOUS
<1>7. \A i \in DOMAIN s.events : evs[i] = MovedEvent(s.events[i], a, b)
  OBVIOUS
<1>8. \A k \in Slots : sel[k] = s.evntsel[Exchange(k, a, b)]
  OBVIOUS
<1>9. \A i \in DOMAIN s.events :
        /\ evs[i].event_code = s.events[i].event_code
        /\ DOMAIN evs[i].pos = DOMAIN s.events[i].pos
        /\ \A j \in DOMAIN s.events[i].pos :
             evs[i].pos[j] = Exchange(s.events[i].pos[j], a, b)
  <2> HIDE DEF evs
  <2>1. \A i \in DOMAIN s.events : s.events[i] \in EventRecs
    BY EventParts
  <2> QED BY <1>7, <2>1, MovedEventParts
<1> HIDE DEF r, nat, evs, sel
<1>10. /\ r \in Structs /\ r.NativeCount = s.NativeCount
       /\ r.nractrs = s.nractrs /\ r.nrictrs = s.nrictrs /\ r.overflow = s.overflow
       /\ r.native = nat /\ r.events = evs /\ r.evntsel = sel /\ r.enabled = on
  <2> HIDE DEF on
  <2> QED BY <1>1, <1>2, <1>3, <1>4, <1>5 DEF Structs
<1> QED BY <1>3, <1>6, <1>8, <1>9, <1>10 DEF Swapped, r

\* Exchanging a register with itself.
LEMMA SwapNothing ==
  ASSUME NEW s \in Structs, NEW a \in Slots
  PROVE  Swapped(s, s, a, a)
<1>1. \A k \in Slots : s.native[k] = MovedEntry(s.native[k], a, a)
  BY StructParts, MovedEntryParts
<1>2. s.enabled = {Exchange(k, a, a) : k \in s.enabled}
  <2>1. \A k : Exchange(k, a, a) = k
    BY Exchanged
  <2> QED BY <2>1
<1>3. \A k \in Slots : s.evntsel[k] = s.evntsel[Exchange(k, a, a)]
  BY Zenon, Exchanged
<1>4. \A i \in DOMAIN s.events : \A j \in DOMAIN s.events[i].pos :
        s.events[i].pos[j] = Exchange(s.events[i].pos[j], a, a)
  BY Exchanged
<1> QED BY <1>1, <1>2, <1>3, <1>4 DEF Swapped
\* The events are those of another set, in the same order.
SameCodes(s, r) ==
  /\ Len(r.events) = Len(s.events)
  /\ \A i \in DOMAIN s.events : r.events[i].event_code = s.events[i].event_code

LEMMA CodesSame ==
  ASSUME NEW s \in Structs, NEW r \in Structs, SameCodes(s, r)
  PROVE  CodeSet(r) = CodeSet(s) /\ Codes(r) = Codes(s) /\ DOMAIN r.events = DOMAIN s.events
<1>1. DOMAIN r.events = DOMAIN s.events
  BY EventParts DEF SameCodes
<1>2. \A i \in DOMAIN s.events : r.events[i].event_code = s.events[i].event_code
  BY DEF SameCodes
<1> QED BY <1>1, <1>2 DEF CodeSet, Codes

\* s with another split of its registers, or another event that overflows.
Split(s, r) ==
  /\ r \in Structs /\ r.events = s.events /\ r.native = s.native
  /\ r.NativeCount = s.NativeCount /\ r.evntsel = s.evntsel
  /\ r.nractrs + r.nrictrs = s.nractrs + s.nrictrs

LEMMA SplitSound ==
  ASSUME NEW s, Core(s), NEW r, Split(s, r)
  PROVE  /\ Core(r) /\ SameCodes(s, r)
         /\ AllRight(s) => AllRight(r)
<1>1. CodeSet(r) = CodeSet(s)
  BY DEF Split, CodeSet
<1>2. NativesInv(r)
  BY <1>1 DEF Core, NativesInv, Split
<1>3. EventsInv(r)
  BY DEF Core, EventsInv, Split
<1>4. RegInv(r)
  BY DEF Core, RegInv, Split
<1>5. Core(r)
  BY <1>2, <1>3, <1>4 DEF Core, Split
<1>6. Programmed(r) = Programmed(s)
  BY <1>5, CoreParts DEF Split
<1>7. AllRight(s) => AllRight(r)
  BY <1>6 DEF AllRight, Split
<1>8. SameCodes(s, r)
  BY DEF SameCodes, Split
<1> QED BY <1>5, <1>7, <1>8

\* A swap keeps the structure sound, and the events on their own counters if both
\* registers are programmed.
LEMMA SwapSound ==
  ASSUME NEW s, Core(s), NEW a \in Slots, NEW b \in Slots, NEW r, Swapped(s, r, a, b)
  PROVE  /\ Core(r) /\ SameCodes(s, r) /\ DOMAIN r.events = DOMAIN s.events
         /\ \A k \in 0..s.NativeCount - 1 :
              r.native[k].ni_position = Exchange(s.native[k].ni_position, a, b)
         /\ AllRight(s) /\ a < s.NativeCount /\ b < s.NativeCount => AllRight(r)
<1> DEFINE N == s.NativeCount
<1>1. /\ s \in Structs /\ NativesInv(s) /\ EventsInv(s) /\ RegInv(s) /\ r \in Structs
      /\ N \in Counts /\ r.NativeCount = N
  BY CoreParts DEF Core, Swapped
<1>2. SameCodes(s, r) /\ DOMAIN r.events = DOMAIN s.events
  <2>1. SameCodes(s, r)
    BY DEF SameCodes, Swapped
  <2> QED BY <1>1, <2>1, CodesSame
<1>3. \A j \in DOMAIN s.events :
        /\ r.events[j].event_code = s.events[j].event_code
        /\ DOMAIN r.events[j].pos = DOMAIN s.events[j].pos
        /\ \A x \in DOMAIN s.events[j].pos :
             r.events[j].pos[x] = Exchange(s.events[j].pos[x], a, b)
  BY DEF Swapped
<1>4. \A k \in Slots : r.native[k] = IF k < N THEN MovedEntry(s.native[k], a, b)
                                     ELSE s.native[k]
  BY DEF Swapped
<1>5. ASSUME NEW k \in 0..N - 1
      PROVE  /\ k \in Slots /\ r.native[k].ni_event = s.native[k].ni_event
             /\ r.native[k].ni_owners = s.native[k].ni_owners
             /\ r.native[k].ni_position = Exchange(s.native[k].ni_position, a, b)
  <2>1. k \in Slots /\ s.native[k] \in Entries /\ k < N
    BY <1>1, StructParts DEF Counts
  <2>2. r.native[k] = MovedEntry(s.native[k], a, b)
    BY <1>4, <2>1
  <2> DEFINE e == s.native[k]
             f == MovedEntry(e, a, b)
  <2>3. f.ni_event = e.ni_event /\ f.ni_owners = e.ni_owners
        /\ f.ni_position = Exchange(e.ni_position, a, b)
    <3>1. e \in Entries
      BY <2>1
    <3> HIDE DEF e
    <3> QED BY <3>1, MovedEntryParts
  <2> HIDE DEF f
  <2> QED BY <2>1, <2>2, <2>3 DEF f
<1>6. NativesInv(r)
  <2>1. \A k \in N..NumCntrs - 1 : r.native[k] = s.native[k]
    BY <1>1, <1>4 DEF Counts
  <2>2. Table(s.native, N, CodeSet(s))
    BY <1>1 DEF NativesInv
  <2>3. CodeSet(r) = CodeSet(s)
    BY <1>1, <1>2, CodesSame
  <2>4. Table(r.native, N, CodeSet(s))
    <3>1. Dense(r.native, N)
      BY <1>5, <2>1, <2>2 DEF Table, Dense
    <3> QED BY <1>5, <2>2, <3>1 DEF Table
  <2> QED BY <1>1, <2>3, <2>4 DEF NativesInv
<1>7. EventsInv(r)
  <2>1. Len(r.events) <= NumCntrs
    BY <1>1, <1>2 DEF EventsInv, SameCodes
  <2>2. \A j, k \in DOMAIN r.events :
          r.events[j].event_code = r.events[k].event_code => j = k
    BY <1>1, <1>2, <1>3 DEF EventsInv
  <2>3. \A j \in DOMAIN r.events :
          DOMAIN r.events[j].pos = DOMAIN Terms[r.events[j].event_code]
    BY <1>1, <1>2, <1>3 DEF EventsInv
  <2>4. ASSUME NEW j \in DOMAIN r.events, NEW k \in 0..r.NativeCount - 1,
               NEW x \in DOMAIN r.events[j].pos,
               r.native[k].ni_event = Terms[r.events[j].event_code][x]
        PROVE  r.events[j].pos[x] = r.native[k].ni_position
    <3>1. j \in DOMAIN s.events /\ k \in 0..N - 1 /\ x \in DOMAIN s.events[j].pos
          /\ s.native[k].ni_event = Terms[s.events[j].event_code][x]
      BY <1>1, <1>2, <1>3, <1>5, <2>4
    <3>2. s.events[j].pos[x] = s.native[k].ni_position
      BY <1>1, <3>1 DEF EventsInv
    <3> QED BY <1>3, <1>5, <3>1, <3>2
  <2>5. \A j \in DOMAIN r.events, k \in 0..r.NativeCount - 1 :
          \A x \in DOMAIN r.events[j].pos :
            r.native[k].ni_event = Terms[r.events[j].event_code][x]
              => r.events[j].pos[x] = r.native[k].ni_position
    BY <2>4
  <2> QED BY Zenon, <2>1, <2>2, <2>3, <2>5 DEF EventsInv
<1>8. RegInv(r)
  <2>1. r.nractrs + r.nrictrs = r.NativeCount
    BY <1>1 DEF RegInv, Swapped
  <2>2. ASSUME NEW k \in 0..N - 1 PROVE r.native[k].ni_position \in Slots
    <3>1. s.native[k].ni_position \in Slots
      BY <1>1 DEF RegInv
    <3>2. \A p \in Slots : Exchange(p, a, b) \in Slots
      BY Zenon, Exchanged
    <3>3. r.native[k].ni_position = Exchange(s.native[k].ni_position, a, b)
      BY <1>5
    <3> QED BY Zenon, <3>1, <3>2, <3>3
  <2> QED BY <1>1, <2>1, <2>2 DEF RegInv
<1>9. Core(r)
  BY <1>1, <1>6, <1>7, <1>8 DEF Core
<1>10. ASSUME AllRight(s), a < N, b < N PROVE AllRight(r)
  <2>1. Programmed(r) = 0..N - 1 /\ Programmed(s) = 0..N - 1
    BY <1>1, <1>9, CoreParts
  <2>2. a \in 0..N - 1 /\ b \in 0..N - 1
    BY <1>1, <1>10 DEF Counts
  <2>3. ASSUME NEW j \in DOMAIN s.events, NEW x \in DOMAIN s.events[j].pos
        PROVE  /\ r.events[j].pos[x] \in Programmed(r)
               /\ r.evntsel[r.events[j].pos[x]] = {Terms[r.events[j].event_code][x]}
    <3> DEFINE y == s.events[j].pos[x]
               z == Exchange(y, a, b)
    <3>1. y \in 0..N - 1 /\ s.evntsel[y] = {Terms[s.events[j].event_code][x]}
      BY <1>10, <2>1 DEF AllRight
    <3>2. r.events[j].pos[x] = z /\ r.events[j].event_code = s.events[j].event_code
      BY <1>3
    <3> HIDE DEF y
    <3>3. z \in 0..N - 1 /\ z \in Slots /\ Exchange(z, a, b) = y
      <4>1. z \in 0..N - 1
        BY <2>2, <3>1 DEF Exchange
      <4>2. z \in Slots
        BY <1>1, <4>1 DEF Counts
      <4>3. \A k : Exchange(Exchange(k, a, b), a, b) = k
        BY DEF Exchange
      <4>4. Exchange(z, a, b) = y
        BY <4>3
      <4> QED BY Zenon, <4>1, <4>2, <4>4
    <3> HIDE DEF z
    <3>4. r.evntsel[z] = s.evntsel[y]
      BY <3>3 DEF Swapped
    <3> QED BY <2>1, <3>1, <3>2, <3>3, <3>4
  <2> QED BY <1>2, <1>3, <2>3 DEF AllRight
<1> QED BY <1>2, <1>5, <1>9, <1>10
-----------------------------------------------------------------------------
(* Turning the overflow on and off.                                        *)

\* Which event of the set has code c.
LEMMA IndexOf ==
  ASSUME Core(esi), NEW i \in DOMAIN esi.events
  PROVE  Indices(esi.events[i].event_code) = {i}
         /\ Min(Indices(esi.events[i].event_code)) = i
<1>1. Indices(esi.events[i].event_code) = {i}
  BY DEF Core, EventsInv, Indices
<1>2. i \in Nat
  BY EventParts DEF Core
<1>3. Min({i}) = i
  <2>1. {i} \in SUBSET Nat /\ {i} # {}
    BY <1>2
  <2>2. Min({i}) \in {i}
    BY <2>1, MinIn
  <2> QED BY <2>2
<1> QED BY <1>1, <1>3

\* Every native event of an event of the set is in the table, where the event
\* says it is.
LEMMA SoundPlaced ==
  ASSUME NEW s, Core(s), NEW i \in DOMAIN s.events, NEW j \in DOMAIN s.events[i].pos
  PROVE  \E k \in 0..s.NativeCount - 1 :
           /\ s.native[k].ni_event = Terms[s.events[i].event_code][j]
           /\ s.events[i].pos[j] = s.native[k].ni_position
<1> DEFINE c == s.events[i].event_code
<1>1. c \in Events /\ c \in CodeSet(s) /\ j \in DOMAIN Terms[c]
  BY EventParts DEF Core, EventsInv, CodeSet
<1>2. Terms[c][j] \in NativesOf(CodeSet(s))
  <2>1. Terms[c][j] \in ToSet(Terms[c])
    BY <1>1 DEF ToSet
  <2> QED BY <1>1, <2>1 DEF NativesOf
<1>3. PICK k \in 0..s.NativeCount - 1 : s.native[k].ni_event = Terms[c][j]
  BY <1>2 DEF Core, NativesInv, Table
<1>4. s.events[i].pos[j] = s.native[k].ni_position
  BY <1>3 DEF Core, EventsInv
<1> QED BY <1>3, <1>4

\* The other way round: what is in the table is in an event.
LEMMA HeldIsUsed ==
  ASSUME NEW s, Core(s), NEW k \in 0..s.NativeCount - 1
  PROVE  \E i \in DOMAIN s.events : \E j \in DOMAIN s.events[i].pos :
           /\ Terms[s.events[i].event_code][j] = s.native[k].ni_event
           /\ s.events[i].pos[j] = s.native[k].ni_position
<1>1. s.native[k].ni_event \in NativesOf(CodeSet(s))
  BY DEF Core, NativesInv, Table
<1>2. PICK d \in CodeSet(s) : s.native[k].ni_event \in ToSet(Terms[d])
  BY <1>1 DEF NativesOf
<1>3. PICK i \in DOMAIN s.events : s.events[i].event_code = d
  BY DEF CodeSet
<1>4. PICK j \in DOMAIN Terms[d] : Terms[d][j] = s.native[k].ni_event
  BY <1>2 DEF ToSet
<1>5. j \in DOMAIN s.events[i].pos
  BY <1>3, <1>4 DEF Core, EventsInv
<1>6. Terms[s.events[i].event_code][j] = s.native[k].ni_event
  BY <1>3, <1>4
<1>7. s.events[i].pos[j] = s.native[k].ni_position
  BY <1>5, <1>6 DEF Core, EventsInv
<1> QED BY <1>5, <1>6, <1>7

\* nrictrs is right in a set whose events all read their own counters.
LEMMA RightCounts ==
  ASSUME NEW s, StateInv(s), AllRight(s)
  PROVE  s.nrictrs # -1
<1> SUFFICES ASSUME s.nrictrs = -1 PROVE FALSE
  OBVIOUS
<1>1. Core(s)
  BY DEF StateInv
<1>2. PICK k \in 0..s.NativeCount - 1 : s.native[k].ni_position >= s.NativeCount
  BY DEF StateInv, OverInv
<1>3. PICK i \in DOMAIN s.events : \E j \in DOMAIN s.events[i].pos :
        s.events[i].pos[j] = s.native[k].ni_position
  BY <1>1, HeldIsUsed
<1>4. s.native[k].ni_position \in Programmed(s)
  BY <1>3 DEF AllRight
<1>5. s.native[k].ni_position \in 0..s.NativeCount - 1 /\ s.NativeCount \in Counts
  BY <1>1, <1>4, CoreParts
<1> QED BY <1>2, <1>5 DEF Counts

\* The register of an event that can overflow.
LEMMA OnlyRegister ==
  ASSUME NEW s, Core(s), NEW i \in DOMAIN s.events, Len(Terms[s.events[i].event_code]) = 1
  PROVE  /\ s.events[i].event_code \in Events
         /\ DOMAIN s.events[i].pos = {1} /\ s.events[i].pos[1] \in Slots
         /\ s.NativeCount >= 1
         /\ \E k \in 0..s.NativeCount - 1 : s.events[i].pos[1] = s.native[k].ni_position
         /\ AllRight(s) => s.events[i].pos[1] < s.NativeCount
<1>1. s.events[i].event_code \in Events
  BY EventParts DEF Core
<1>2. DOMAIN Terms[s.events[i].event_code] = {1}
  <2>1. Terms[s.events[i].event_code] \in Seq(Natives)
    BY <1>1
  <2>2. DOMAIN Terms[s.events[i].event_code] = 1..1
    BY <2>1
  <2> QED BY <2>2
<1>3. DOMAIN s.events[i].pos = {1}
  BY <1>2 DEF Core, EventsInv
<1>4. PICK k \in 0..s.NativeCount - 1 : s.events[i].pos[1] = s.native[k].ni_position
  BY <1>3, SoundPlaced
<1>5. s.native[k].ni_position \in Slots /\ s.NativeCount \in Counts
  BY CoreParts
<1>6. s.NativeCount >= 1
  BY <1>5 DEF Counts
<1>7. ASSUME AllRight(s) PROVE s.events[i].pos[1] < s.NativeCount
  <2>1. s.events[i].pos[1] \in 0..s.NativeCount - 1
    BY <1>3, <1>7, CoreParts DEF AllRight
  <2> QED BY <1>5, <2>1 DEF Counts
<1> QED BY <1>1, <1>3, <1>4, <1>5, <1>6, <1>7
\* _papi_hwd_set_overflow with a threshold.
LEMMA TurnedOn ==
  ASSUME StateInv(esi), esi.overflow = NoEvent,
         NEW i \in DOMAIN esi.events, Len(Terms[esi.events[i].event_code]) = 1
  PROVE  LET c == esi.events[i].event_code
             r == [Enable(esi, esi.events[i].pos[1]) EXCEPT !.overflow = c]
         IN /\ StateInv(r) /\ r.overflow = c /\ SameCodes(esi, r)
            /\ r.NativeCount = esi.NativeCount
            /\ TidyInv(esi) /\ AllRight(esi) => TidyInv(r) /\ AllRight(r)
<1> DEFINE c == esi.events[i].event_code
           N == esi.NativeCount
           m == esi.nractrs - 1
           p == esi.events[i].pos[1]
           b == IF p < m THEN m ELSE p
           on == [esi EXCEPT !.enabled = @ \cup {p}, !.nrictrs = @ + 1, !.nractrs = @ - 1]
           q == Enable(esi, p)
           r == [q EXCEPT !.overflow = c]
<1>1. Core(esi) /\ OverInv(esi) /\ esi \in Structs
  BY DEF StateInv, Core
<1>2. /\ N \in Counts /\ esi.nractrs \in Counts /\ esi.nractrs + esi.nrictrs = N
      /\ esi.nrictrs \in {0, -1}
  <2>1. /\ N \in Counts /\ esi.nractrs \in Counts /\ esi.nractrs + esi.nrictrs = N
        /\ esi.nrictrs \in Interrupts
    BY <1>1, CoreParts
  <2> QED BY <1>1, <2>1 DEF OverInv, Interrupts
<1>3. /\ c \in Events /\ 1 \in DOMAIN esi.events[i].pos /\ p \in Slots /\ N >= 1
      /\ AllRight(esi) => p < N
  BY <1>1, OnlyRegister
<1> HIDE DEF p, c
<1>4. /\ m \in Slots
      /\ esi.nrictrs = 0 => m = N - 1
      /\ m = N - 1 - esi.nrictrs /\ m \in Counts
  BY <1>2, <1>3 DEF Counts
<1>5. b \in Slots /\ b >= m
  <2> HIDE DEF m
  <2>1. m \in 0..NumCntrs - 1 /\ p \in 0..NumCntrs - 1
    BY <1>3, <1>4
  <2>2. CASE p < m
    BY <2>1, <2>2
  <2>3. CASE ~ (p < m)
    <3>1. b = p
      BY <2>3
    <3> HIDE DEF b
    <3> QED BY <2>1, <2>3, <3>1
  <2> QED BY <2>2, <2>3
<1>6. /\ on \in Structs /\ Split(esi, on) /\ on.overflow = NoEvent
      /\ on.enabled = esi.enabled \cup {p} /\ on.nractrs = m /\ on.nrictrs = esi.nrictrs + 1
  <2>1. esi.enabled \cup {p} \in Registers /\ esi.nrictrs + 1 \in Interrupts /\ m \in Counts
    <3>1. esi.enabled \in Registers
      BY <1>1, StructParts
    <3> QED BY <1>2, <1>3, <1>4, <3>1 DEF Registers, Interrupts
  <2>2. on = [esi EXCEPT !.enabled = esi.enabled \cup {p}, !.nrictrs = esi.nrictrs + 1,
                         !.nractrs = m]
    OBVIOUS
  <2>3. m + (esi.nrictrs + 1) = esi.nractrs + esi.nrictrs
    BY <1>2, <1>4 DEF Counts
  <2> HIDE DEF on, m
  <2>4. /\ on \in Structs /\ on.native = esi.native /\ on.events = esi.events
        /\ on.evntsel = esi.evntsel /\ on.NativeCount = N /\ on.overflow = esi.overflow
        /\ on.enabled = esi.enabled \cup {p} /\ on.nractrs = m
        /\ on.nrictrs = esi.nrictrs + 1
    BY <1>1, <2>1, <2>2 DEF Structs
  <2> QED BY <2>3, <2>4 DEF Split
<1>7. Core(on) /\ SameCodes(esi, on) /\ (AllRight(esi) => AllRight(on))
  BY <1>1, <1>6, SplitSound
<1>8. Swapped(on, q, p, b)
  <2>1. q = IF p < on.nractrs THEN Swap(on, p, on.nractrs) ELSE on
    BY DEF Enable
  <2> HIDE DEF q, on, m
  <2>2. CASE p < m
    <3>1. q = Swap(on, p, m) /\ b = m
      BY <1>6, <2>1, <2>2
    <3>2. on \in Structs /\ p \in Slots /\ m \in Slots
      BY <1>3, <1>4, <1>6
    <3>3. Swapped(on, Swap(on, p, m), p, m)
      BY ONLY <3>2, SwapParts
    <3> QED BY <3>1, <3>3
  <2>3. CASE ~ (p < m)
    BY <1>3, <1>6, <2>1, <2>3, SwapNothing
  <2> QED BY <2>2, <2>3
<1> HIDE DEF q, on, m, b
<1>9. /\ Core(q) /\ SameCodes(on, q) /\ DOMAIN q.events = DOMAIN on.events
      /\ AllRight(on) /\ p < on.NativeCount /\ b < on.NativeCount => AllRight(q)
  BY <1>3, <1>5, <1>7, <1>8, SwapSound
<1>10. /\ r \in Structs /\ Split(q, r) /\ r.overflow = c
       /\ r.enabled = q.enabled /\ r.nractrs = m /\ r.nrictrs = esi.nrictrs + 1
       /\ r.NativeCount = N
  <2>1. /\ q \in Structs /\ q.nractrs = m /\ q.nrictrs = esi.nrictrs + 1
        /\ q.NativeCount = N
    BY <1>6, <1>8 DEF Swapped, Split
  <2>2. c \in Overflows
    BY <1>3 DEF Overflows
  <2> QED BY <2>1, <2>2 DEF Structs, Split
<1> HIDE DEF r
<1>11. Core(r) /\ SameCodes(q, r) /\ (AllRight(q) => AllRight(r))
  BY <1>9, <1>10, SplitSound
<1>12. SameCodes(esi, r) /\ DOMAIN r.events = DOMAIN esi.events
  <2>1. DOMAIN on.events = DOMAIN esi.events
    BY <1>6 DEF Split
  <2>2. SameCodes(esi, r)
    BY <1>7, <1>9, <1>11, <2>1 DEF SameCodes
  <2>3. esi \in Structs /\ r \in Structs
    BY <1>1, <1>10
  <2> QED BY Zenon, <2>2, <2>3, CodesSame
<1>13. r.events[i].event_code = c /\ r.events[i].pos[1] = b /\ b \in r.enabled
  <2>1. on.events = esi.events /\ r.events = q.events
    BY <1>6, <1>10 DEF Split
  <2>2. q.events[i].event_code = esi.events[i].event_code
        /\ q.events[i].pos[1] = Exchange(p, p, b)
    BY <1>3, <1>8, <2>1 DEF Swapped, p
  <2>3. Exchange(p, p, b) = b
    BY DEF Exchange
  <2>4. q.enabled = {Exchange(k, p, b) : k \in on.enabled} /\ p \in on.enabled
    BY <1>6, <1>8 DEF Swapped
  <2>5. b \in q.enabled
    BY <2>3, <2>4
  <2> QED BY <1>10, <2>1, <2>2, <2>3, <2>5 DEF c
<1>14. OverInv(r)
  <2>1. c # NoEvent /\ r.overflow = c
    BY <1>3, <1>10
  <2>2. r.nrictrs # -1
    BY <1>2, <1>10
  <2>3. r.nrictrs = 0 => b >= r.NativeCount
    <3> SUFFICES ASSUME r.nrictrs = 0 PROVE b >= N
      BY <1>10
    <3>1. esi.nrictrs = -1
      BY <1>2, <1>10
    <3>2. m = N
      BY <1>2, <1>4, <3>1 DEF Counts
    <3> QED BY <1>5, <3>2
  <2>4. \E j \in DOMAIN r.events :
          /\ r.events[j].event_code = r.overflow
          /\ r.nrictrs = 1 => r.events[j].pos[1] \in r.enabled
          /\ r.nrictrs = 0 /\ r.events[j].pos[1] \in r.enabled
               => r.events[j].pos[1] >= r.NativeCount
    BY <1>12, <1>13, <2>1, <2>3
  <2>5. Len(Terms[r.overflow]) = 1
    BY <2>1 DEF c
  <2> QED BY Zenon, <2>1, <2>2, <2>4, <2>5 DEF OverInv
<1>15. ASSUME TidyInv(esi), AllRight(esi) PROVE TidyInv(r) /\ AllRight(r)
  <2>1. esi.nrictrs = 0 /\ esi.enabled = {}
    <3>1. esi.nrictrs # -1
      BY <1>15, RightCounts
    <3> QED BY <1>2, <1>15, <3>1 DEF TidyInv, LastOn
  <2>2. p < N /\ b = m /\ m < N /\ r.nrictrs = 1
    BY <1>2, <1>3, <1>4, <1>10, <1>15, <2>1 DEF b, Counts
  <2>3. AllRight(r)
    <3>1. on.NativeCount = N
      BY <1>6 DEF Split
    <3> QED BY <1>7, <1>9, <1>11, <1>15, <2>2, <3>1
  <2>4. r.enabled = {m}
    <3>1. on.enabled = {p}
      BY <1>6, <2>1
    <3>2. q.enabled = {Exchange(k, p, b) : k \in {p}}
      BY <1>8, <3>1 DEF Swapped
    <3>3. Exchange(p, p, b) = b
      BY DEF Exchange
    <3> QED BY <1>10, <2>2, <3>2, <3>3
  <2>5. LastOn(r)
    BY <1>10, <1>12, <1>13, <2>2, <2>4 DEF LastOn
  <2>6. Cleared(r)
    <3> SUFFICES ASSUME NEW k \in Slots, k >= N
                 PROVE  r.evntsel[k] = {} /\ k \notin r.enabled
      BY <1>10 DEF Cleared
    <3>1. k # p /\ k # b /\ k # m
      BY <1>2, <1>3, <1>4, <2>2 DEF Counts
    <3>2. Exchange(k, p, b) = k
      BY <3>1 DEF Exchange
    <3>3. r.evntsel[k] = esi.evntsel[k]
      BY <1>6, <1>8, <1>10, <3>2 DEF Swapped, Split
    <3> QED BY <1>15, <2>4, <3>1, <3>3 DEF TidyInv, Cleared
  <2> QED BY <2>3, <2>5, <2>6 DEF TidyInv
<1> QED BY Zenon, <1>10, <1>11, <1>12, <1>14, <1>15 DEF StateInv, r, q, p, c
\* _papi_hwd_set_overflow with threshold 0, for the event in the table.
LEMMA TurnedOff ==
  ASSUME StateInv(esi)
  PROVE  LET r == TurnOff(esi)
         IN /\ StateInv(r) /\ r.overflow = NoEvent /\ SameCodes(esi, r)
            /\ r.NativeCount = esi.NativeCount
            /\ TidyInv(esi) /\ AllRight(esi) => TidyInv(r) /\ AllRight(r)
<1>1. Core(esi) /\ OverInv(esi) /\ esi \in Structs
  BY DEF StateInv, Core
<1>2. CASE esi.overflow = NoEvent
  <2>1. TurnOff(esi) = esi
    BY <1>2 DEF TurnOff
  <2>2. SameCodes(esi, esi)
    BY DEF SameCodes
  <2> QED BY <1>2, <2>1, <2>2
<1>3. CASE esi.overflow # NoEvent
  <2>1. PICK i \in DOMAIN esi.events :
          /\ esi.events[i].event_code = esi.overflow
          /\ esi.nrictrs = 1 => esi.events[i].pos[1] \in esi.enabled
          /\ esi.nrictrs = 0 /\ esi.events[i].pos[1] \in esi.enabled
               => esi.events[i].pos[1] >= esi.NativeCount
    BY <1>1, <1>3 DEF OverInv
  <2> DEFINE N == esi.NativeCount
             p == esi.events[i].pos[1]
             x == IF p \in esi.enabled
                  THEN [esi EXCEPT !.enabled = @ \ {p}, !.nrictrs = @ - 1, !.nractrs = @ + 1]
                  ELSE esi
             m == x.nractrs
             b == IF p >= m THEN m - 1 ELSE p
             q == Disable(esi, p)
             r == TurnOff(esi)
  <2>2. r = [q EXCEPT !.overflow = NoEvent]
    BY <1>1, <1>3, <2>1, IndexOf DEF TurnOff
  <2>3. /\ N \in Counts /\ esi.nractrs \in Counts /\ esi.nractrs + esi.nrictrs = N
        /\ esi.nrictrs \in {0, 1}
    <3>1. /\ N \in Counts /\ esi.nractrs \in Counts /\ esi.nractrs + esi.nrictrs = N
          /\ esi.nrictrs \in Interrupts
      BY <1>1, CoreParts
    <3> QED BY <1>1, <1>3, <3>1 DEF OverInv, Interrupts
  <2>4. /\ 1 \in DOMAIN esi.events[i].pos /\ p \in Slots /\ N >= 1
        /\ \E k \in 0..N - 1 : p = esi.native[k].ni_position
        /\ AllRight(esi) => p < N
    <3>1. Len(Terms[esi.events[i].event_code]) = 1
      BY <1>1, <1>3, <2>1 DEF OverInv
    <3> HIDE DEF p
    <3> QED BY <1>1, <3>1, OnlyRegister DEF p
  <2>5. q = IF p >= m THEN Swap(x, p, m - 1) ELSE x
    BY DEF Disable
  <2>6. /\ esi.nrictrs = 1 => p \in esi.enabled
        /\ esi.nrictrs = 0 /\ p \in esi.enabled => p >= N
    BY <2>1
  <2> HIDE DEF p, q, r
  <2>7. /\ x \in Structs /\ Split(esi, x)
        /\ x.enabled = esi.enabled \ {p}
        /\ m \in Counts /\ m = N - x.nrictrs /\ x.nrictrs \in {0, -1}
        /\ x.nrictrs = -1 => p >= N
    <3>1. CASE p \in esi.enabled
      <4>1. x = [esi EXCEPT !.enabled = esi.enabled \ {p}, !.nrictrs = esi.nrictrs - 1,
                            !.nractrs = esi.nractrs + 1]
        BY <3>1
      <4>2. /\ esi.nrictrs - 1 \in {0, -1} /\ esi.nractrs + 1 = N - (esi.nrictrs - 1)
            /\ (esi.nractrs + 1) + (esi.nrictrs - 1) = esi.nractrs + esi.nrictrs
            /\ esi.nractrs + 1 \in Counts /\ esi.nrictrs - 1 \in Interrupts
            /\ esi.nrictrs - 1 = -1 => p >= N
        BY <2>3, <2>4, <2>6, <3>1 DEF Counts, Interrupts
      <4>3. esi.enabled \ {p} \in Registers
        BY <1>1, StructParts DEF Registers
      <4> HIDE DEF x
      <4>4. /\ x \in Structs /\ x.native = esi.native /\ x.events = esi.events
            /\ x.evntsel = esi.evntsel /\ x.NativeCount = N
            /\ x.enabled = esi.enabled \ {p} /\ x.nractrs = esi.nractrs + 1
            /\ x.nrictrs = esi.nrictrs - 1
        BY <1>1, <4>1, <4>2, <4>3 DEF Structs
      <4> QED BY <4>2, <4>4 DEF Split
    <3>2. CASE p \notin esi.enabled
      <4>1. x = esi /\ esi.nrictrs = 0 /\ esi.enabled \ {p} = esi.enabled
        BY <2>3, <2>6, <3>2
      <4>2. Split(esi, esi)
        BY <1>1 DEF Split
      <4> HIDE DEF x
      <4> QED BY <1>1, <2>3, <4>1, <4>2 DEF Counts
    <3> QED BY <3>1, <3>2
  <2> HIDE DEF x
  <2>8. b \in Slots
    BY <2>3, <2>4, <2>7 DEF Counts
  <2>9. x.nrictrs = -1 => b >= N
    BY <2>3, <2>4, <2>7 DEF Counts
  <2>10. x.nrictrs = 0 /\ p < N => b = p
    BY <2>3, <2>4, <2>7 DEF Counts
  <2>11. Core(x) /\ SameCodes(esi, x) /\ (AllRight(esi) => AllRight(x))
    BY <1>1, <2>7, SplitSound
  <2>12. Swapped(x, q, p, b)
    <3>1. CASE p >= m
      <4>1. q = Swap(x, p, b)
        BY <2>5, <3>1
      <4> HIDE DEF b
      <4> QED BY <2>4, <2>7, <2>8, <4>1, SwapParts
    <3>2. CASE ~ (p >= m)
      <4>1. q = x /\ b = p
        BY <2>5, <3>2
      <4> HIDE DEF b
      <4> QED BY <2>4, <2>7, <4>1, SwapNothing
    <3> QED BY <3>1, <3>2
  <2> HIDE DEF b, m
  <2>13. /\ Core(q) /\ SameCodes(x, q) /\ DOMAIN q.events = DOMAIN x.events
         /\ \A k \in 0..x.NativeCount - 1 :
              q.native[k].ni_position = Exchange(x.native[k].ni_position, p, b)
         /\ AllRight(x) /\ p < x.NativeCount /\ b < x.NativeCount => AllRight(q)
    BY <2>4, <2>8, <2>11, <2>12, SwapSound
  <2>14. /\ r \in Structs /\ Split(q, r) /\ r.overflow = NoEvent
         /\ r.enabled = q.enabled /\ r.nrictrs = x.nrictrs
         /\ r.NativeCount = N /\ x.NativeCount = N
    <3>1. /\ q \in Structs /\ q.nrictrs = x.nrictrs /\ x.NativeCount = N
          /\ q.NativeCount = N
      BY <2>7, <2>12 DEF Swapped, Split
    <3>2. NoEvent \in Overflows
      BY DEF Overflows
    <3> QED BY <2>2, <3>1, <3>2 DEF Structs, Split
  <2>15. Core(r) /\ SameCodes(q, r) /\ (AllRight(q) => AllRight(r))
    BY <2>13, <2>14, SplitSound
  <2>16. SameCodes(esi, r)
    <3>1. DOMAIN x.events = DOMAIN esi.events
      BY <2>7 DEF Split
    <3> QED BY <2>11, <2>13, <2>15, <3>1 DEF SameCodes
  <2>17. OverInv(r)
    <3>1. r.nrictrs # 1
      BY <2>7, <2>14
    <3>2. ASSUME r.nrictrs = -1
          PROVE  \E k \in 0..r.NativeCount - 1 : r.native[k].ni_position >= r.NativeCount
      <4>1. PICK k \in 0..N - 1 : p = esi.native[k].ni_position
        BY <2>4
      <4>2. x.native[k].ni_position = p
        BY <2>7, <4>1 DEF Split
      <4>3. q.native[k].ni_position = Exchange(p, p, b)
        BY <2>13, <2>14, <4>2
      <4>4. Exchange(p, p, b) = b
        BY DEF Exchange
      <4>5. r.native[k].ni_position = b
        BY <2>14, <4>3, <4>4 DEF Split
      <4>6. b >= N
        BY <2>9, <2>14, <3>2
      <4> QED BY <2>14, <4>5, <4>6
    <3> QED BY Zenon, <2>14, <3>1, <3>2 DEF OverInv
  <2>18. ASSUME TidyInv(esi), AllRight(esi) PROVE TidyInv(r) /\ AllRight(r)
    <3>1. p < N /\ ~ (p >= N)
      BY <1>1, <2>3, <2>4, <1>3, <2>18 DEF Counts
    <3>2. x.nrictrs = 0 /\ b = p
      BY <2>7, <2>10, <3>1
    <3>3. AllRight(r)
      BY <2>11, <2>13, <2>14, <2>15, <2>18, <3>1, <3>2
    <3>4. x.enabled = {}
      <4>1. CASE esi.nrictrs = 1
        <5>1. esi.enabled = {esi.nractrs} /\ p \in esi.enabled
          BY <2>6, <2>18, <4>1 DEF TidyInv, LastOn
        <5> QED BY <2>7, <5>1
      <4>2. CASE esi.nrictrs # 1
        BY <2>7, <2>18, <4>2 DEF TidyInv, LastOn
      <4> QED BY <4>1, <4>2
    <3>5. r.enabled = {}
      <4>1. q.enabled = {Exchange(k, p, b) : k \in {}}
        BY <2>12, <3>4 DEF Swapped
      <4> QED BY <2>14, <4>1
    <3>6. LastOn(r)
      BY <2>14, <3>2, <3>5 DEF LastOn
    <3>7. Cleared(r)
      <4> SUFFICES ASSUME NEW k \in Slots, k >= N
                   PROVE  r.evntsel[k] = {} /\ k \notin r.enabled
        BY <2>14 DEF Cleared
      <4>1. Exchange(k, p, b) = k
        BY <3>2 DEF Exchange
      <4>2. r.evntsel[k] = esi.evntsel[k]
        BY <2>7, <2>12, <2>14, <4>1 DEF Swapped, Split
      <4> QED BY <2>18, <3>5, <4>2 DEF TidyInv, Cleared
    <3> QED BY <3>3, <3>6, <3>7 DEF TidyInv
  <2> QED BY <2>14, <2>15, <2>16, <2>17, <2>18 DEF StateInv, r
<1> QED BY <1>2, <1>3
-----------------------------------------------------------------------------
(* An event leaves.                                                        *)

\* _papi_hwi_remove_event of an event that does not overflow keeps the structure
\* sound, and tidy.
LEMMA EventLeaves ==
  ASSUME NEW s, StateInv(s), NEW i \in DOMAIN s.events,
         s.overflow # s.events[i].event_code
  PROVE  LET r == RemoveAtIndex(s, i)
         IN /\ StateInv(r) /\ r.overflow = s.overflow
            /\ r.events = RemoveAt(s.events, i)
            /\ TidyInv(s) => TidyInv(r)
<1> DEFINE c == s.events[i].event_code
           D == ToSet(Terms[c])
           q == RemoveNatives(s, c)
           r == RemoveAtIndex(s, i)
           evs == RemoveAt(s.events, i)
<1>1. /\ Core(s) /\ OverInv(s) /\ s \in Structs /\ c \in Events /\ c \in CodeSet(s)
      /\ IsFiniteSet(CodeSet(s)) /\ EventsInv(s) /\ NativesInv(s) /\ Owned(s)
  <2>1. Core(s) /\ OverInv(s) /\ s \in Structs /\ EventsInv(s) /\ NativesInv(s)
    BY DEF StateInv, Core
  <2>2. c \in Events /\ c \in CodeSet(s) /\ IsFiniteSet(CodeSet(s))
    BY <2>1, EventParts DEF CodeSet
  <2>3. Owned(s)
    BY <2>1, <2>2, TableOwned DEF NativesInv
  <2> QED BY <2>1, <2>2, <2>3
<1>2. Removed(s, q, D)
  BY <1>1, NativesRemoved
<1>3. q \in Structs /\ q.events = s.events /\ q.overflow = s.overflow
  BY <1>2 DEF Removed, Owned
<1>4. r = [q EXCEPT !.events = evs]
  <2>1. r = [q EXCEPT !.events = RemoveAt(@, i)]
    BY DEF RemoveAtIndex
  <2> HIDE DEF r, q
  <2> QED BY <1>3, <2>1
<1>5. evs \in EventLists
  BY <1>1, EventRemoved, StructParts
<1> HIDE DEF q, r, evs
<1>6. r \in Structs /\ r.events = evs /\ r.native = q.native
      /\ r.NativeCount = q.NativeCount /\ r.evntsel = q.evntsel /\ r.enabled = q.enabled
      /\ r.nractrs = q.nractrs /\ r.nrictrs = q.nrictrs /\ r.overflow = s.overflow
  BY <1>3, <1>4, <1>5 DEF Structs
<1>7. /\ CodeSet(r) = CodeSet(s) \ {c}
      /\ Len(r.events) = Len(s.events) - 1
      /\ \A j \in DOMAIN r.events : \E k \in DOMAIN s.events :
           r.events[j] = s.events[k] /\ k = IF j < i THEN j ELSE j + 1
      /\ \A k \in DOMAIN s.events : k # i =>
           \E j \in DOMAIN r.events : r.events[j] = s.events[k]
  <2>1. r.events = RemoveAt(s.events, i)
    BY <1>6 DEF evs
  <2>2. s \in Structs /\ r \in Structs /\ EventsInv(s) /\ i \in DOMAIN s.events
    BY <1>1, <1>6
  <2> QED BY ONLY <2>1, <2>2, CodesLeft
<1>8. NativesInv(r)
  <2>1. Table(q.native, q.NativeCount, CodeSet(s) \ {c})
    BY <1>1, <1>2, TableMinus DEF NativesInv
  <2> QED BY <1>6, <1>7, <2>1 DEF NativesInv
<1>9. /\ Len(s.events) \in Nat /\ DOMAIN s.events = 1..Len(s.events)
      /\ DOMAIN r.events = 1..Len(r.events)
  BY <1>1, <1>6, EventParts
\* What is left in the table has the position it had.
<1>10. ASSUME NEW k \in 0..r.NativeCount - 1
       PROVE  \E l \in 0..s.NativeCount - 1 :
                /\ r.native[k].ni_event = s.native[l].ni_event
                /\ r.native[k].ni_position = s.native[l].ni_position
  <2>1. PICK l \in 0..s.NativeCount - 1 :
          Survives(s.native[l], D) /\ Same(q.native[k], After(s.native[l], D))
    BY <1>2, <1>6 DEF Removed
  <2>2. s.native[l] \in Entries /\ s.native[l].ni_owners > 0
    BY <1>1, StructParts DEF Owned
  <2>3. After(s.native[l], D).ni_event = s.native[l].ni_event
        /\ After(s.native[l], D).ni_position = s.native[l].ni_position
    BY <2>2, LessEntry DEF After
  <2> QED BY <1>6, <2>1, <2>3 DEF Same
<1>11. EventsInv(r)
  <2>1. Len(r.events) <= NumCntrs
    BY <1>1, <1>7, <1>9 DEF EventsInv
  <2>2. ASSUME NEW j \in DOMAIN r.events, NEW k \in DOMAIN r.events,
               r.events[j].event_code = r.events[k].event_code
        PROVE  j = k
    <3>1. PICK jj \in DOMAIN s.events :
            r.events[j] = s.events[jj] /\ jj = IF j < i THEN j ELSE j + 1
      BY <1>7
    <3>2. PICK kk \in DOMAIN s.events :
            r.events[k] = s.events[kk] /\ kk = IF k < i THEN k ELSE k + 1
      BY <1>7
    <3>3. jj = kk
      BY <1>1, <2>2, <3>1, <3>2 DEF EventsInv
    <3> QED BY <1>9, <3>1, <3>2, <3>3
  <2>3. ASSUME NEW j \in DOMAIN r.events
        PROVE  /\ DOMAIN r.events[j].pos = DOMAIN Terms[r.events[j].event_code]
               /\ \A k \in 0..r.NativeCount - 1, m \in DOMAIN r.events[j].pos :
                    r.native[k].ni_event = Terms[r.events[j].event_code][m]
                      => r.events[j].pos[m] = r.native[k].ni_position
    <3>1. PICK jj \in DOMAIN s.events : r.events[j] = s.events[jj]
      BY <1>7
    <3>3. EventsInv(s)
      BY <1>1
    <3>4. ASSUME NEW k \in 0..r.NativeCount - 1, NEW m \in DOMAIN r.events[j].pos,
                 r.native[k].ni_event = Terms[r.events[j].event_code][m]
          PROVE  r.events[j].pos[m] = r.native[k].ni_position
      <4>1. PICK l \in 0..s.NativeCount - 1 :
              /\ r.native[k].ni_event = s.native[l].ni_event
              /\ r.native[k].ni_position = s.native[l].ni_position
        BY <1>10
      <4>2. s.events[jj].pos[m] = s.native[l].ni_position
        <5>1. m \in DOMAIN s.events[jj].pos
              /\ s.native[l].ni_event = Terms[s.events[jj].event_code][m]
          <6> DEFINE e == r.events[j]
                     f == s.events[jj]
          <6>1. e = f /\ m \in DOMAIN e.pos /\ r.native[k].ni_event = Terms[e.event_code][m]
            BY <3>1, <3>4
          <6> HIDE DEF e, f
          <6>2. m \in DOMAIN f.pos /\ r.native[k].ni_event = Terms[f.event_code][m]
            BY <6>1
          <6> QED BY <4>1, <6>2 DEF f
        <5>2. \A x \in DOMAIN s.events[jj].pos :
                s.native[l].ni_event = Terms[s.events[jj].event_code][x]
                  => s.events[jj].pos[x] = s.native[l].ni_position
          BY <3>3 DEF EventsInv
        <5> QED BY Zenon, <5>1, <5>2
      <4>3. r.events[j].pos[m] = s.events[jj].pos[m]
        BY <3>1
      <4> QED BY Zenon, <4>1, <4>2, <4>3
    <3>5. DOMAIN r.events[j].pos = DOMAIN Terms[r.events[j].event_code]
      BY <3>1, <3>3 DEF EventsInv
    <3> QED BY <3>4, <3>5
  <2>4. \A j \in DOMAIN r.events, k \in 0..r.NativeCount - 1 :
          \A m \in DOMAIN r.events[j].pos :
            r.native[k].ni_event = Terms[r.events[j].event_code][m]
              => r.events[j].pos[m] = r.native[k].ni_position
    BY <2>3
  <2>5. \A j \in DOMAIN r.events :
          DOMAIN r.events[j].pos = DOMAIN Terms[r.events[j].event_code]
    BY <2>3
  <2> QED BY Zenon, <2>1, <2>2, <2>4, <2>5 DEF EventsInv
<1>12. r.native = q.native /\ r.NativeCount <= s.NativeCount
       /\ s.NativeCount \in Counts /\ r.NativeCount \in Counts
       /\ Programmed(s) = 0..s.NativeCount - 1
  BY <1>1, <1>2, <1>6, CoreParts, StructParts DEF Removed
\* The control state is the one there was, or was written anew.
<1>13. CASE r.NativeCount = s.NativeCount
  <2>1. /\ r.evntsel = s.evntsel /\ r.enabled = s.enabled
        /\ r.nractrs = s.nractrs /\ r.nrictrs = s.nrictrs
        /\ \A k \in 0..s.NativeCount - 1 : Survives(s.native[k], D)
    BY <1>2, <1>6, <1>13 DEF Removed
  <2>2. RegInv(r)
    <3>1. \A k \in 0..r.NativeCount - 1 : r.native[k].ni_position \in Slots
      BY <1>1, <1>10, CoreParts
    <3> QED BY <1>1, <1>13, <2>1, <3>1 DEF Core, RegInv
  <2>3. \A k \in DOMAIN s.events : s.events[k].event_code = s.overflow =>
          \E j \in DOMAIN r.events : r.events[j] = s.events[k]
    BY <1>7
  <2>4. OverInv(r)
    <3>1. ASSUME s.nrictrs = -1
          PROVE  \E l \in 0..r.NativeCount - 1 : r.native[l].ni_position >= r.NativeCount
      <4>1. PICK k \in 0..s.NativeCount - 1 : s.native[k].ni_position >= s.NativeCount
        BY <1>1, <3>1 DEF OverInv
      <4>2. PICK l \in 0..r.NativeCount - 1 : Same(r.native[l], After(s.native[k], D))
        BY <1>2, <1>6, <2>1 DEF Removed
      <4>3. s.native[k] \in Entries /\ s.native[k].ni_owners > 0
        BY <1>1, StructParts DEF Owned
      <4>4. After(s.native[k], D).ni_position = s.native[k].ni_position
        BY <4>3, LessEntry DEF After
      <4>5. r.native[l].ni_position = s.native[k].ni_position
        BY <4>2, <4>4 DEF Same
      <4> QED BY <1>13, <4>1, <4>5
    <3>2. ASSUME s.overflow # NoEvent
          PROVE  /\ Len(Terms[s.overflow]) = 1
                 /\ \E j \in DOMAIN r.events :
                      /\ r.events[j].event_code = s.overflow
                      /\ s.nrictrs = 1 => r.events[j].pos[1] \in s.enabled
                      /\ s.nrictrs = 0 /\ r.events[j].pos[1] \in s.enabled
                           => r.events[j].pos[1] >= s.NativeCount
      <4>1. /\ Len(Terms[s.overflow]) = 1
            /\ \E k \in DOMAIN s.events :
                 /\ s.events[k].event_code = s.overflow
                 /\ s.nrictrs = 1 => s.events[k].pos[1] \in s.enabled
                 /\ s.nrictrs = 0 /\ s.events[k].pos[1] \in s.enabled
                      => s.events[k].pos[1] >= s.NativeCount
        BY <1>1, <3>2 DEF OverInv
      <4> QED BY <2>3, <4>1
    <3>3. (s.overflow = NoEvent => s.nrictrs # 1) /\ (s.nrictrs = -1 => s.overflow = NoEvent)
      BY <1>1 DEF OverInv
    <3>4. r.overflow = s.overflow
      BY <1>6
    <3> QED BY Zenon, <1>13, <2>1, <3>1, <3>2, <3>3, <3>4 DEF OverInv
  <2>5. ASSUME TidyInv(s) PROVE TidyInv(r)
    <3>1. Cleared(r)
      BY <1>13, <2>1, <2>5 DEF TidyInv, Cleared
    <3>2. ASSUME s.nrictrs = 1
          PROVE  \E j \in DOMAIN r.events : /\ r.events[j].event_code = s.overflow
                                            /\ r.events[j].pos[1] = s.nractrs
      <4>1. PICK k \in DOMAIN s.events : /\ s.events[k].event_code = s.overflow
                                         /\ s.events[k].pos[1] = s.nractrs
        BY <2>5, <3>2 DEF TidyInv, LastOn
      <4>2. PICK j \in DOMAIN r.events : r.events[j] = s.events[k]
        BY <2>3, <4>1
      <4> QED BY <4>1, <4>2
    <3>3. LastOn(r)
      BY <1>6, <2>1, <2>5, <3>2 DEF TidyInv, LastOn
    <3> QED BY <3>1, <3>3 DEF TidyInv
  <2> QED BY <1>6, <1>8, <1>11, <2>2, <2>4, <2>5 DEF StateInv, Core, r, evs
<1>14. CASE r.NativeCount # s.NativeCount
  <2>1. /\ \A k \in Slots : k >= r.NativeCount =>
             r.evntsel[k] = IF k \in Programmed(s) THEN {} ELSE s.evntsel[k]
        /\ r.enabled = s.enabled \ Programmed(s)
        /\ r.nractrs = r.NativeCount /\ r.nrictrs = 0
    BY <1>2, <1>6, <1>14 DEF Removed, Rewritten
  <2>2. RegInv(r)
    <3>1. \A k \in 0..r.NativeCount - 1 : r.native[k].ni_position \in Slots
      BY <1>1, <1>10, CoreParts
    <3> QED BY <1>12, <2>1, <3>1 DEF RegInv, Counts
  <2>3. Core(r)
    BY <1>6, <1>8, <1>11, <2>2 DEF Core
  <2>4. OverInv(r)
    <3>1. ASSUME s.overflow # NoEvent
          PROVE  /\ Len(Terms[s.overflow]) = 1
                 /\ \E j \in DOMAIN r.events :
                      /\ r.events[j].event_code = s.overflow
                      /\ r.events[j].pos[1] \in r.enabled
                           => r.events[j].pos[1] >= r.NativeCount
      <4>1. PICK k \in DOMAIN s.events : s.events[k].event_code = s.overflow
        BY <1>1, <3>1 DEF OverInv
      <4>2. PICK j \in DOMAIN r.events : r.events[j] = s.events[k]
        BY <1>7, <4>1
      <4>3. Len(Terms[s.overflow]) = 1
        BY <1>1, <3>1 DEF OverInv
      <4>4. r.events[j].event_code = s.overflow
        BY <4>1, <4>2
      <4>5. r.events[j].pos[1] \in Slots
        BY <2>3, <4>3, <4>4, OnlyRegister
      <4>6. ASSUME r.events[j].pos[1] \in r.enabled
            PROVE  r.events[j].pos[1] >= r.NativeCount
        <5> DEFINE p == r.events[j].pos[1]
        <5>1. p \in Slots /\ p \notin 0..s.NativeCount - 1
          BY <1>12, <2>1, <4>5, <4>6
        <5> HIDE DEF p
        <5> QED BY <1>12, <5>1 DEF p, Counts
      <4> QED BY <4>3, <4>4, <4>6
    <3>2. r.overflow = s.overflow
      BY <1>6
    <3>3. r.nrictrs = 0
      BY <2>1
    <3>4. r.nrictrs # 1 /\ r.nrictrs # -1
      BY <3>3
    <3> QED BY Zenon, <3>1, <3>2, <3>4 DEF OverInv
  <2>5. ASSUME TidyInv(s) PROVE TidyInv(r)
    <3>1. \A k \in Slots : k \in Programmed(s) \/ (s.evntsel[k] = {} /\ k \notin s.enabled)
      <4>1. \A k \in Slots : k >= s.NativeCount \/ k \in 0..s.NativeCount - 1
        BY <1>12 DEF Counts
      <4> QED BY <1>12, <2>5, <4>1 DEF TidyInv, Cleared
    <3>2. r.enabled = {}
      <4>1. s.enabled \in SUBSET Slots
        BY <1>1, StructParts DEF Registers
      <4> QED BY <2>1, <3>1, <4>1
    <3>3. \A k \in Slots : k >= r.NativeCount => r.evntsel[k] = {}
      BY <2>1, <3>1
    <3> QED BY <2>1, <3>2, <3>3 DEF TidyInv, Cleared, LastOn
  <2> QED BY <1>6, <2>3, <2>4, <2>5 DEF StateInv, r, evs
<1> QED BY <1>13, <1>14

\* PAPI_cleanup_eventset removes the events, the last one first.
LEMMA AllLeave ==
  ASSUME NEW s, StateInv(s), s.overflow = NoEvent
  PROVE  LET r == FoldLeft(RemoveAtIndex, s, Reverse([i \in DOMAIN s.events |-> i]))
         IN /\ StateInv(r) /\ r.overflow = NoEvent /\ r.events = <<>>
            /\ TidyInv(s) => TidyInv(r)
<1> DEFINE n == Len(s.events)
           seq == Reverse([i \in DOMAIN s.events |-> i])
<1>1. n \in Nat /\ DOMAIN s.events = 1..n
  BY EventParts DEF StateInv, Core
<1>2. seq \in Seq(Nat) /\ Len(seq) = n /\ \A j \in 1..n : seq[j] = n - j + 1
  <2> DEFINE id == [i \in DOMAIN s.events |-> i]
  <2>1. id \in Seq(Nat) /\ Len(id) = n /\ \A i \in 1..n : id[i] = i
    BY <1>1
  <2> HIDE DEF id, n
  <2>2. seq = [i \in 1..n |-> id[(n - i) + 1]]
    BY <2>1 DEF Reverse, id
  <2>3. \A i \in 1..n : (n - i) + 1 \in 1..n
    BY <1>1
  <2>4. seq = [i \in 1..n |-> (n - i) + 1]
    BY <2>1, <2>2, <2>3
  <2> HIDE DEF seq
  <2>5. \A i \in 1..n : (n - i) + 1 \in Nat
    BY <2>3
  <2>6. seq \in Seq(Nat) /\ Len(seq) = n
    BY <1>1, <2>4, <2>5
  <2>7. \A j \in 1..n : seq[j] = n - j + 1
    BY <2>4
  <2> QED BY <2>6, <2>7
<1> HIDE DEF seq
<1>3. PICK g : Chain("RemoveAtIndex", s, seq, g)
               /\ FoldLeft(RemoveAtIndex, s, seq) = g[Len(seq)]
  BY ZenonT(60), <1>2, RemoveAtIndexChain
<1> DEFINE Good == {j \in 0..n : /\ StateInv(g[j]) /\ g[j].overflow = NoEvent
                                 /\ Len(g[j].events) = n - j
                                 /\ TidyInv(s) => TidyInv(g[j])}
<1>4. 0 \in Good
  BY <1>1, <1>3 DEF Chain
<1>5. ASSUME NEW j \in 1..n, j - 1 \in Good PROVE j \in Good
  <2> DEFINE t == g[j - 1]
             k == n - j + 1
  <2>1. g[j] = RemoveAtIndex(t, k)
    BY <1>2, <1>3 DEF Chain, Turn
  <2>2. /\ StateInv(t) /\ t.overflow = NoEvent /\ Len(t.events) = k
        /\ TidyInv(s) => TidyInv(t)
    <3>1. n - (j - 1) = k
      BY <1>1
    <3> QED BY <1>5, <3>1
  <2> HIDE DEF t
  <2>3. k \in DOMAIN t.events /\ t \in Structs
    BY <1>1, <2>2, EventParts DEF StateInv, Core
  <2>4. /\ StateInv(g[j]) /\ g[j].overflow = NoEvent /\ g[j].events = RemoveAt(t.events, k)
        /\ TidyInv(t) => TidyInv(g[j])
    <3>1. t.events[k].event_code \in Events
      BY <2>3, EventParts
    <3>2. t.overflow # t.events[k].event_code
      BY <2>2, <3>1
    <3> QED BY <2>1, <2>2, <2>3, <3>2, EventLeaves
  <2>5. Len(RemoveAt(t.events, k)) = Len(t.events) - 1
    BY <2>3, EventRemoved, StructParts
  <2>6. Len(g[j].events) = n - j
    <3>1. k - 1 = n - j
      BY <1>1
    <3> QED BY <2>2, <2>4, <2>5, <3>1
  <2>7. j \in 0..n
    BY <1>1
  <2> QED BY <2>2, <2>4, <2>6, <2>7
<1>6. n \in Good
  <2>1. \A j \in 1..n : j - 1 \in Good => j \in Good
    BY Zenon, <1>5
  <2> HIDE DEF Good, n
  <2>2. \A j \in 0..n : j \in Good
    BY Zenon, <1>1, <1>4, <2>1, Along
  <2> QED BY <1>1, <2>2
<1>7. g[n].events = <<>>
  <2>1. Len(g[n].events) = 0 /\ g[n].events \in Seq(EventRecs)
    BY <1>1, <1>6, StructParts DEF StateInv, Core, EventLists
  <2> QED BY <2>1
<1> QED BY <1>2, <1>3, <1>6, <1>7 DEF seq
-----------------------------------------------------------------------------
(* A new event.                                                            *)

\* Two structures that differ in their events at most.
Beside(s, t) ==
  /\ t.native = s.native /\ t.NativeCount = s.NativeCount /\ t.evntsel = s.evntsel
  /\ t.enabled = s.enabled /\ t.nractrs = s.nractrs /\ t.nrictrs = s.nrictrs
  /\ t.overflow = s.overflow

LEMMA NewEvents ==
  ASSUME NEW s \in Structs, NEW evs \in EventLists
  PROVE  LET t == [s EXCEPT !.events = evs]
         IN t \in Structs /\ Beside(s, t) /\ t.events = evs
BY DEF Structs, Beside

Unplaced(c) == [event_code |-> c, pos |-> [j \in DOMAIN Terms[c] |-> -1]]

LEMMA Extended ==
  ASSUME NEW s \in Structs, NEW c \in Events
  PROVE  LET t == Extend(s, c)
             n == Len(s.events)
         IN /\ t \in Structs /\ Beside(s, t) /\ Len(t.events) = n + 1
            /\ \A i \in 1..n : t.events[i] = s.events[i]
            /\ t.events[n + 1] = Unplaced(c)
            /\ Unplaced(c).event_code = c
            /\ DOMAIN Unplaced(c).pos = DOMAIN Terms[c]
<1>1. Unplaced(c) \in EventRecs
  <2>1. Terms[c] \in Seq(Natives)
    OBVIOUS
  <2> DEFINE S == Slots \cup {-1}
             p == [j \in DOMAIN Terms[c] |-> -1]
  <2>2. Len(Terms[c]) \in Nat /\ DOMAIN Terms[c] = 1..Len(Terms[c]) /\ -1 \in S
    BY <2>1
  <2> HIDE DEF S
  <2>3. p \in Seq(S)
    BY <2>2
  <2> QED BY <2>3 DEF Unplaced, EventRecs, S
<1> DEFINE evs == Append(s.events, Unplaced(c))
           n == Len(s.events)
<1>2. Extend(s, c) = [s EXCEPT !.events = evs]
  BY DEF Extend, Unplaced
<1>3. evs \in EventLists /\ Len(evs) = n + 1 /\ evs[n + 1] = Unplaced(c)
      /\ \A i \in 1..n : evs[i] = s.events[i]
  BY <1>1, StructParts DEF EventLists
<1>4. Unplaced(c).event_code = c /\ DOMAIN Unplaced(c).pos = DOMAIN Terms[c]
  BY DEF Unplaced
<1> HIDE DEF evs
<1> QED BY <1>2, <1>3, <1>4, NewEvents

\* An event with the positions that the table of s gives.
Positioned(s, e) ==
  [e EXCEPT !.pos = [j \in DOMAIN @ |->
     LET at == Mapped(s, Terms[e.event_code][j])
     IN IF at = {} THEN @[j] ELSE s.native[Min(at)].ni_position]]

LEMMA PositionedParts ==
  ASSUME NEW s \in Structs, NEW e \in EventRecs
  PROVE  LET m == Positioned(s, e)
         IN /\ m \in EventRecs /\ m.event_code = e.event_code
            /\ DOMAIN m.pos = DOMAIN e.pos
            /\ \A j \in DOMAIN e.pos :
                 m.pos[j] = LET at == Mapped(s, Terms[e.event_code][j])
                            IN IF at = {} THEN e.pos[j] ELSE s.native[Min(at)].ni_position
<1> DEFINE at(j) == Mapped(s, Terms[e.event_code][j])
           P(j) == IF at(j) = {} THEN e.pos[j] ELSE s.native[Min(at(j))].ni_position
           p == [j \in DOMAIN e.pos |-> P(j)]
           S == Slots \cup {-1}
<1>1. e.pos \in Seq(S) /\ e.event_code \in Events
  BY DEF EventRecs
<1>2. Positioned(s, e) = [e EXCEPT !.pos = p]
  BY DEF Positioned
<1>3. ASSUME NEW j \in DOMAIN e.pos PROVE P(j) \in S
  <2>1. CASE at(j) = {}
    BY <1>1, <2>1
  <2>2. CASE at(j) # {}
    <3>1. at(j) \in SUBSET Nat /\ at(j) \subseteq Slots
      BY StructParts DEF Mapped
    <3> HIDE DEF at
    <3>2. Min(at(j)) \in Slots
      BY <2>2, <3>1, MinIn
    <3>3. s.native[Min(at(j))] \in Entries
      BY <3>2, StructParts
    <3> QED BY <2>2, <3>3 DEF Entries
  <2> QED BY <2>1, <2>2
<1>4. Len(e.pos) \in Nat /\ DOMAIN e.pos = 1..Len(e.pos)
  BY <1>1
<1>5. p \in Seq(S) /\ DOMAIN p = DOMAIN e.pos /\ \A j \in DOMAIN e.pos : p[j] = P(j)
  <2> HIDE DEF P, S
  <2>1. \A j \in DOMAIN e.pos : P(j) \in S
    BY <1>3
  <2>2. p \in Seq(S)
    BY <1>4, <2>1
  <2> QED BY <2>2
<1> HIDE DEF p, P
<1>6. [e EXCEPT !.pos = p] \in EventRecs
  BY <1>5 DEF EventRecs
<1>7. [e EXCEPT !.pos = p].event_code = e.event_code /\ [e EXCEPT !.pos = p].pos = p
  BY DEF EventRecs
<1> QED BY <1>2, <1>5, <1>6, <1>7 DEF P

\* Where the table holds a native event.
LEMMA HeldAt ==
  ASSUME NEW s \in Structs, Dense(s.native, s.NativeCount),
         NEW k \in 0..s.NativeCount - 1
  PROVE  Mapped(s, s.native[k].ni_event) = {k} /\ Min(Mapped(s, s.native[k].ni_event)) = k
<1>1. Mapped(s, s.native[k].ni_event) = {k}
  BY DEF Mapped, Dense
<1>2. k \in Nat
  BY StructParts
<1>3. {k} \in SUBSET Nat /\ {k} # {}
  BY <1>2
<1>4. Min({k}) \in {k}
  BY <1>3, MinIn
<1> QED BY <1>1, <1>4

\* Remapping gives every event the positions of the table.
LEMMA Remapped ==
  ASSUME NEW s \in Structs
  PROVE  LET t == Remap(s)
         IN /\ t \in Structs /\ Beside(s, t) /\ Len(t.events) = Len(s.events)
            /\ \A i \in DOMAIN s.events : t.events[i] = Positioned(s, s.events[i])
<1> DEFINE evs == [i \in DOMAIN s.events |-> Positioned(s, s.events[i])]
<1>1. Remap(s) = [s EXCEPT !.events = evs]
  BY DEF Remap, Positioned
<1>2. Len(s.events) \in Nat /\ DOMAIN s.events = 1..Len(s.events)
      /\ \A i \in DOMAIN s.events : Positioned(s, s.events[i]) \in EventRecs
  BY EventParts, PositionedParts
<1>3. evs \in Seq(EventRecs) /\ Len(evs) = Len(s.events)
  BY <1>2
<1>4. \A i \in DOMAIN s.events : evs[i] = Positioned(s, s.events[i])
  OBVIOUS
<1> HIDE DEF evs
<1> QED BY <1>1, <1>3, <1>4, NewEvents DEF EventLists

LEMMA PositionsTaken ==
  ASSUME NEW s \in Structs, Len(s.events) > 0
  PROVE  LET t == TakePositions(s)
             n == Len(s.events)
         IN /\ t \in Structs /\ Beside(s, t) /\ Len(t.events) = n
            /\ \A i \in DOMAIN s.events :
                 t.events[i] = IF i = n THEN Positioned(s, s.events[i]) ELSE s.events[i]
<1> DEFINE n == Len(s.events)
           e == Remap(s).events[n]
           evs == [s.events EXCEPT ![n] = e]
<1>1. n \in Nat /\ n \in DOMAIN s.events /\ s.events \in Seq(EventRecs)
      /\ DOMAIN s.events = 1..n
  BY EventParts, StructParts DEF EventLists
<1>2. e = Positioned(s, s.events[n]) /\ e \in EventRecs
  BY <1>1, Remapped, PositionedParts, EventParts
<1>3. TakePositions(s) = [s EXCEPT !.events = evs]
  BY DEF TakePositions
<1> HIDE DEF e
<1>4. evs \in Seq(EventRecs) /\ Len(evs) = n
      /\ \A i \in DOMAIN s.events : evs[i] = IF i = n THEN e ELSE s.events[i]
  BY <1>1, <1>2
<1> HIDE DEF evs
<1> QED BY <1>2, <1>3, <1>4, NewEvents DEF EventLists

Seat(e, k) == [e EXCEPT !.ni_bits = {e.ni_event}, !.ni_position = k]

\* Every slot in use is given the register of its number, and the registers are
\* programmed for what the slots hold.
LEMMA Allocated ==
  ASSUME NEW t \in Structs, Dense(t.native, t.NativeCount)
  PROVE  LET u == UpdateControl(Allocate(t))
         IN /\ u \in Structs /\ u.events = t.events /\ u.overflow = t.overflow
            /\ u.NativeCount = t.NativeCount
            /\ u.nractrs = t.NativeCount /\ u.nrictrs = 0
            /\ u.enabled = t.enabled \ Programmed(t)
            /\ \A k \in t.NativeCount..NumCntrs - 1 : u.native[k] = t.native[k]
            /\ \A k \in 0..t.NativeCount - 1 :
                 /\ u.native[k].ni_event = t.native[k].ni_event
                 /\ u.native[k].ni_owners = t.native[k].ni_owners
                 /\ u.native[k].ni_position = k
            /\ \A k \in Slots : u.evntsel[k] =
                 (IF k \in Programmed(t) THEN {} ELSE t.evntsel[k])
                   \cup (IF k < t.NativeCount THEN {t.native[k].ni_event} ELSE {})
<1> DEFINE N == t.NativeCount
           nat == [k \in Slots |-> IF k < N THEN Seat(t.native[k], k) ELSE t.native[k]]
           v == Allocate(t)
           u == UpdateControl(v)
<1>1. N \in Counts /\ 0..N - 1 \subseteq Slots /\ \A k \in Slots : t.native[k] \in Entries
  BY StructParts
<1>2. v = [t EXCEPT !.native = nat]
  <2>1. v = [t EXCEPT !.native = [k \in Slots |->
                IF k < t.NativeCount
                THEN [@[k] EXCEPT !.ni_bits = {t.native[k].ni_event}, !.ni_position = k]
                ELSE @[k]]]
    BY DEF Allocate
  <2> QED BY Zenon, <2>1 DEF Seat
<1>3. ASSUME NEW k \in Slots, k < N
      PROVE  LET e == Seat(t.native[k], k)
             IN /\ e \in Entries /\ e.ni_event = t.native[k].ni_event
                /\ e.ni_owners = t.native[k].ni_owners /\ e.ni_position = k
                /\ e.ni_bits = {t.native[k].ni_event}
  <2> DEFINE f == t.native[k]
             b == {f.ni_event}
  <2>1. f \in Entries /\ f.ni_event \in Natives /\ k \in Slots \cup {-1}
    <3>1. k \in 0..N - 1
      BY <1>1, <1>3 DEF Counts
    <3> QED BY <1>1, <3>1 DEF Dense
  <2>2. b \in SUBSET Natives
    BY <2>1
  <2>3. Seat(f, k) = [[f EXCEPT !.ni_bits = b] EXCEPT !.ni_position = k]
    BY DEF Seat
  <2> HIDE DEF f, b
  <2> DEFINE g == [f EXCEPT !.ni_bits = b]
  <2>4. g \in Entries /\ g.ni_event = f.ni_event /\ g.ni_owners = f.ni_owners /\ g.ni_bits = b
    BY <2>1, <2>2 DEF Entries
  <2> HIDE DEF g
  <2>5. [g EXCEPT !.ni_position = k] \in Entries
    BY Zenon, <2>1, <2>4, EntryUpdate
  <2>6. [g EXCEPT !.ni_position = k].ni_event = g.ni_event
        /\ [g EXCEPT !.ni_position = k].ni_owners = g.ni_owners
        /\ [g EXCEPT !.ni_position = k].ni_position = k
        /\ [g EXCEPT !.ni_position = k].ni_bits = g.ni_bits
    BY <2>4 DEF Entries
  <2> QED BY <2>3, <2>4, <2>5, <2>6 DEF f, b, g
<1>4. \A k \in Slots : nat[k] = IF k < N THEN Seat(t.native[k], k) ELSE t.native[k]
  OBVIOUS
<1>5. nat \in Tables
  <2>1. \A k \in Slots : (IF k < N THEN Seat(t.native[k], k) ELSE t.native[k]) \in Entries
    <3>1. \A k \in Slots : t.native[k] \in Entries
      BY StructParts
    <3>2. \A k \in Slots : k < N => Seat(t.native[k], k) \in Entries
      BY <1>3
    <3> HIDE DEF N
    <3> QED BY <3>1, <3>2
  <2> QED BY <2>1 DEF Tables
<1> HIDE DEF nat, v
<1>6. v \in Structs /\ Kept(t, v) /\ v.native = nat /\ v.NativeCount = N
  <2>1. N \in Counts
    BY <1>1
  <2> HIDE DEF N
  <2> QED BY Zenon, <1>2, <1>5, <2>1, NewTable DEF N
<1>7. Programmed(v) = Programmed(t)
  BY <1>6 DEF Kept, Programmed
<1>8. /\ u \in Structs /\ u.events = v.events /\ u.native = v.native
      /\ u.NativeCount = v.NativeCount /\ u.overflow = v.overflow
      /\ \A k \in Slots : u.evntsel[k] =
           (IF k \in Programmed(v) THEN {} ELSE v.evntsel[k])
             \cup (IF k < v.NativeCount THEN v.native[k].ni_bits ELSE {})
      /\ u.enabled = v.enabled \ Programmed(v)
      /\ u.nractrs = v.NativeCount /\ u.nrictrs = 0
  BY <1>6, Updated
<1> HIDE DEF u
<1>9. \A k \in Slots : u.evntsel[k] =
        (IF k \in Programmed(t) THEN {} ELSE t.evntsel[k])
          \cup (IF k < N THEN {t.native[k].ni_event} ELSE {})
  <2> SUFFICES ASSUME NEW k \in Slots
               PROVE  u.evntsel[k] =
                        (IF k \in Programmed(t) THEN {} ELSE t.evntsel[k])
                          \cup (IF k < N THEN {t.native[k].ni_event} ELSE {})
    OBVIOUS
  <2>1. v.evntsel = t.evntsel
    BY <1>6 DEF Kept
  <2>2. k < N => v.native[k].ni_bits = {t.native[k].ni_event}
    BY <1>3, <1>4, <1>6
  <2> QED BY <1>6, <1>7, <1>8, <2>1, <2>2
<1>10. \A k \in N..NumCntrs - 1 : u.native[k] = t.native[k]
  <2>1. \A k \in N..NumCntrs - 1 : k \in Slots /\ ~ (k < N)
    BY <1>1 DEF Counts
  <2> QED BY <1>4, <1>6, <1>8, <2>1
<1>11. \A k \in 0..N - 1 :
         /\ u.native[k].ni_event = t.native[k].ni_event
         /\ u.native[k].ni_owners = t.native[k].ni_owners
         /\ u.native[k].ni_position = k
  <2>1. \A k \in 0..N - 1 : k \in Slots /\ k < N
    BY <1>1 DEF Counts
  <2> QED BY <1>3, <1>4, <1>6, <1>8, <2>1
<1> QED BY <1>6, <1>7, <1>8, <1>9, <1>10, <1>11 DEF Kept, u, v

\* The events of r are those of s and c.
Longer(s, r, c) ==
  /\ Len(r.events) = Len(s.events) + 1
  /\ \A i \in 1..Len(s.events) : r.events[i].event_code = s.events[i].event_code
  /\ r.events[Len(s.events) + 1].event_code = c

\* The codes of a set with an event more.
LEMMA LongerCodes ==
  ASSUME NEW s \in Structs, NEW r \in Structs, NEW c, Longer(s, r, c)
  PROVE  /\ CodeSet(r) = CodeSet(s) \cup {c}
         /\ DOMAIN r.events = DOMAIN s.events \cup {Len(s.events) + 1}
         /\ Len(s.events) + 1 \notin DOMAIN s.events
         /\ DOMAIN s.events = 1..Len(s.events)
         /\ EventsInv(s) /\ c \notin CodeSet(s) =>
              \A i, j \in DOMAIN r.events :
                r.events[i].event_code = r.events[j].event_code => i = j
<1> DEFINE n == Len(s.events)
<1>1. /\ n \in Nat /\ DOMAIN s.events = 1..n /\ DOMAIN r.events = 1..Len(r.events)
      /\ Len(r.events) = n + 1
  BY EventParts DEF Longer
<1>2. DOMAIN r.events = DOMAIN s.events \cup {n + 1} /\ n + 1 \notin DOMAIN s.events
  BY <1>1
<1>3. \A i \in DOMAIN s.events : r.events[i].event_code = s.events[i].event_code
  BY <1>1 DEF Longer
<1>4. r.events[n + 1].event_code = c
  BY DEF Longer
<1> HIDE DEF n
<1>5. CodeSet(r) = CodeSet(s) \cup {c}
  <2> DEFINE new == {r.events[i].event_code : i \in DOMAIN r.events}
             old == {s.events[i].event_code : i \in DOMAIN s.events}
  <2>1. \A x \in new : x \in old \/ x = c
    BY <1>2, <1>3, <1>4
  <2>2. \A x \in old : x \in new
    BY <1>2, <1>3
  <2>3. c \in new
    BY <1>2, <1>4
  <2> HIDE DEF new, old
  <2>4. new = old \cup {c}
    BY <2>1, <2>2, <2>3
  <2> QED BY <2>4 DEF CodeSet, new, old
<1>6. ASSUME EventsInv(s), c \notin CodeSet(s), NEW i \in DOMAIN r.events,
             NEW j \in DOMAIN r.events, r.events[i].event_code = r.events[j].event_code
      PROVE  i = j
  <2>1. \A k \in DOMAIN s.events : r.events[k].event_code # c
    BY <1>3, <1>6 DEF CodeSet
  <2>2. CASE i \in DOMAIN s.events /\ j \in DOMAIN s.events
    BY <1>3, <1>6, <2>2 DEF EventsInv
  <2> QED BY <1>2, <1>4, <1>6, <2>1, <2>2
<1> QED BY <1>1, <1>2, <1>5, <1>6 DEF n

\* Every event has the positions of a table that holds all it is made of.
Placed(r) ==
  \A i \in DOMAIN r.events :
    /\ DOMAIN r.events[i].pos = DOMAIN Terms[r.events[i].event_code]
    /\ \A j \in DOMAIN r.events[i].pos : \E k \in 0..r.NativeCount - 1 :
         /\ r.native[k].ni_event = Terms[r.events[i].event_code][j]
         /\ r.events[i].pos[j] = r.native[k].ni_position

\* Events that point at the table have the positions it says.
LEMMA PlacedEvents ==
  ASSUME NEW r \in Structs, Dense(r.native, r.NativeCount), Placed(r),
         NEW i \in DOMAIN r.events, NEW k \in 0..r.NativeCount - 1,
         NEW j \in DOMAIN r.events[i].pos,
         r.native[k].ni_event = Terms[r.events[i].event_code][j]
  PROVE  r.events[i].pos[j] = r.native[k].ni_position
<1>1. PICK l \in 0..r.NativeCount - 1 :
        /\ r.native[l].ni_event = Terms[r.events[i].event_code][j]
        /\ r.events[i].pos[j] = r.native[l].ni_position
  BY DEF Placed
<1>2. l = k
  BY <1>1 DEF Dense
<1> QED BY <1>1, <1>2

\* A set that is sound has its events placed.
LEMMA EventsPlaced ==
  ASSUME NEW s, Core(s)
  PROVE  Placed(s)
<1>1. \A i \in DOMAIN s.events :
        DOMAIN s.events[i].pos = DOMAIN Terms[s.events[i].event_code]
  BY DEF Core, EventsInv
<1> QED BY <1>1, SoundPlaced DEF Placed

LEMMA TableSame ==
  ASSUME NEW nat, NEW other, NEW count, NEW C, Table(nat, count, C),
         \A k \in count..NumCntrs - 1 : other[k] = nat[k],
         \A k \in 0..count - 1 : /\ other[k].ni_event = nat[k].ni_event
                                 /\ other[k].ni_owners = nat[k].ni_owners
  PROVE  Table(other, count, C)
<1>1. Dense(other, count)
  BY DEF Table, Dense
<1> QED BY <1>1 DEF Table
\* An event that brings in native events: everything is allocated and mapped anew.
LEMMA JoinFresh ==
  ASSUME NEW s, StateInv(s), NEW c \in Events, c \notin CodeSet(s),
         Len(s.events) < NumCntrs, NEW t, Adding(s, t, ToSet(Terms[c])),
         t.NativeCount > s.NativeCount
  PROVE  LET r == Remap(Extend(UpdateControl(Allocate(t)), c))
         IN /\ StateInv(r) /\ Longer(s, r, c)
            /\ r.overflow = s.overflow /\ r.NativeCount = t.NativeCount
            /\ Cleared(s) => AllRight(r)
            /\ TidyInv(s) => TidyInv(r)
<1> DEFINE n == Len(s.events)
           M == t.NativeCount
           B == CodeSet(s) \cup {c}
           u == UpdateControl(Allocate(t))
           w == Extend(u, c)
           r == Remap(w)
<1>1. /\ s \in Structs /\ t \in Structs /\ Kept(s, t) /\ M \in Counts /\ 0..M - 1 \subseteq Slots
      /\ s.NativeCount \in Counts /\ s.NativeCount < M /\ Dense(t.native, M)
      /\ n \in Nat /\ DOMAIN s.events = 1..n
      /\ Core(s) /\ OverInv(s) /\ NativesInv(s) /\ EventsInv(s)
  <2>1. /\ Core(s) /\ OverInv(s) /\ NativesInv(s) /\ EventsInv(s) /\ s \in Structs
    BY DEF StateInv, Core
  <2>2. t \in Structs /\ Kept(s, t) /\ Dense(t.native, M)
    BY DEF Adding
  <2> QED BY <2>1, <2>2, StructParts, EventParts DEF Counts
<1>2. Table(t.native, M, B)
  BY <1>1, EventParts, TablePlus DEF NativesInv
<1>3. /\ u \in Structs /\ u.events = s.events /\ u.overflow = s.overflow
      /\ u.NativeCount = M /\ u.nractrs = M /\ u.nrictrs = 0
      /\ u.enabled = s.enabled \ Programmed(t)
      /\ \A k \in M..NumCntrs - 1 : u.native[k] = t.native[k]
      /\ \A k \in 0..M - 1 :
           /\ u.native[k].ni_event = t.native[k].ni_event
           /\ u.native[k].ni_owners = t.native[k].ni_owners
           /\ u.native[k].ni_position = k
      /\ \A k \in Slots : u.evntsel[k] =
           (IF k \in Programmed(t) THEN {} ELSE s.evntsel[k])
             \cup (IF k < M THEN {t.native[k].ni_event} ELSE {})
  BY <1>1, Allocated DEF Kept
<1> HIDE DEF u
<1>4. /\ w \in Structs /\ Beside(u, w) /\ Len(w.events) = n + 1
      /\ \A i \in 1..n : w.events[i] = s.events[i]
      /\ w.events[n + 1] = Unplaced(c)
      /\ Unplaced(c).event_code = c /\ DOMAIN Unplaced(c).pos = DOMAIN Terms[c]
  BY <1>3, Extended
<1> HIDE DEF w
<1>5. /\ r \in Structs /\ Beside(w, r) /\ Len(r.events) = n + 1
      /\ \A i \in DOMAIN w.events : r.events[i] = Positioned(w, w.events[i])
  BY <1>4, Remapped
<1> HIDE DEF r
<1>6. /\ r.native = u.native /\ w.native = u.native /\ w.NativeCount = M
      /\ r.NativeCount = M /\ r.evntsel = u.evntsel
      /\ r.enabled = u.enabled /\ r.nractrs = M /\ r.nrictrs = 0
      /\ r.overflow = s.overflow
  BY <1>3, <1>4, <1>5 DEF Beside
<1>7. DOMAIN w.events = 1..n + 1 /\ DOMAIN r.events = 1..n + 1
      /\ \A i \in 1..n + 1 : w.events[i] \in EventRecs
  BY <1>4, <1>5, EventParts
<1>8. \A i \in 1..n + 1 :
        /\ r.events[i].event_code = w.events[i].event_code
        /\ DOMAIN r.events[i].pos = DOMAIN w.events[i].pos
        /\ \A j \in DOMAIN w.events[i].pos :
             r.events[i].pos[j] =
               LET at == Mapped(w, Terms[w.events[i].event_code][j])
               IN IF at = {} THEN w.events[i].pos[j] ELSE w.native[Min(at)].ni_position
  <2> SUFFICES ASSUME NEW i \in 1..n + 1
               PROVE  /\ r.events[i].event_code = w.events[i].event_code
                      /\ DOMAIN r.events[i].pos = DOMAIN w.events[i].pos
                      /\ \A j \in DOMAIN w.events[i].pos :
                           r.events[i].pos[j] =
                             LET at == Mapped(w, Terms[w.events[i].event_code][j])
                             IN IF at = {} THEN w.events[i].pos[j]
                                ELSE w.native[Min(at)].ni_position
    OBVIOUS
  <2> DEFINE e == w.events[i]
  <2>1. e \in EventRecs /\ r.events[i] = Positioned(w, e) /\ w \in Structs
    BY <1>4, <1>5, <1>7
  <2> HIDE DEF e
  <2>2. LET m == Positioned(w, e)
        IN /\ m.event_code = e.event_code /\ DOMAIN m.pos = DOMAIN e.pos
           /\ \A j \in DOMAIN e.pos :
                m.pos[j] = LET at == Mapped(w, Terms[e.event_code][j])
                           IN IF at = {} THEN e.pos[j] ELSE w.native[Min(at)].ni_position
    BY <2>1, PositionedParts
  <2> QED BY Zenon, <2>1, <2>2 DEF e
<1>9. Longer(s, r, c)
  <2>1. \A i \in 1..n : i \in 1..n + 1
    BY <1>1
  <2>2. n + 1 \in 1..n + 1
    BY <1>1
  <2> QED BY <1>4, <1>5, <1>8, <2>1, <2>2 DEF Longer
<1>10. CodeSet(r) = B
  BY <1>1, <1>5, <1>9, LongerCodes
<1>11. Table(r.native, M, B)
  BY <1>2, <1>3, <1>6, TableSame
\* Each native event of each event is in the table, at the register it was given.
<1>12. ASSUME NEW i \in 1..n + 1
       PROVE  /\ DOMAIN r.events[i].pos = DOMAIN Terms[r.events[i].event_code]
              /\ \A j \in DOMAIN r.events[i].pos : \E k \in 0..M - 1 :
                   /\ r.native[k].ni_event = Terms[r.events[i].event_code][j]
                   /\ r.events[i].pos[j] = k
  <2> DEFINE e == w.events[i]
             d == e.event_code
  <2>1. DOMAIN e.pos = DOMAIN Terms[d]
    <3>1. i \in 1..n \/ i = n + 1
      BY <1>1
    <3>2. \A x \in 1..n : DOMAIN s.events[x].pos = DOMAIN Terms[s.events[x].event_code]
      BY <1>1 DEF EventsInv
    <3> QED BY <1>4, <3>1, <3>2
  <2>2. d \in B /\ d \in Events
    <3>1. r.events[i].event_code \in CodeSet(r)
      BY <1>7 DEF CodeSet
    <3>2. CodeSet(r) \in SUBSET Events
      BY <1>5, EventParts
    <3> QED BY <1>8, <1>10, <3>1, <3>2
  <2>3. ASSUME NEW j \in DOMAIN e.pos
        PROVE  \E k \in 0..M - 1 : r.native[k].ni_event = Terms[d][j] /\ r.events[i].pos[j] = k
    <3>1. Terms[d][j] \in NativesOf(B)
      <4>1. Terms[d][j] \in ToSet(Terms[d])
        BY <2>1 DEF ToSet
      <4> QED BY <2>2, <4>1 DEF NativesOf
    <3>2. PICK k \in 0..M - 1 : r.native[k].ni_event = Terms[d][j]
      BY <1>11, <3>1 DEF Table
    <3>3. Dense(w.native, w.NativeCount) /\ w.native[k].ni_event = Terms[d][j]
          /\ w.native[k].ni_position = k /\ k \in 0..w.NativeCount - 1
      <4>1. w.native = u.native /\ r.native = u.native /\ w.NativeCount = M
        BY <1>6
      <4>2. Dense(r.native, M)
        BY <1>11 DEF Table
      <4>3. u.native[k].ni_position = k
        BY <1>3
      <4> QED BY <3>2, <4>1, <4>2, <4>3
    <3>4. Mapped(w, Terms[d][j]) = {k} /\ Min(Mapped(w, Terms[d][j])) = k
      <4> DEFINE x == w.native[k].ni_event
      <4>1. Mapped(w, x) = {k} /\ Min(Mapped(w, x)) = k
        BY <1>4, <3>3, HeldAt
      <4>2. x = Terms[d][j]
        BY <3>3
      <4> HIDE DEF x
      <4> QED BY <4>1, <4>2
    <3>5. r.events[i].pos[j] = k
      <4>1. Mapped(w, Terms[d][j]) # {}
        BY <3>4
      <4>2. r.events[i].pos[j] = w.native[Min(Mapped(w, Terms[d][j]))].ni_position
        BY <1>8, <4>1
      <4> QED BY <3>3, <3>4, <4>2
    <3> QED BY <3>2, <3>5
  <2> QED BY <1>8, <2>1, <2>3
<1>13. EventsInv(r)
  <2>1. Len(r.events) <= NumCntrs
    BY <1>1, <1>5
  <2>2. \A i, j \in DOMAIN r.events :
          r.events[i].event_code = r.events[j].event_code => i = j
    BY <1>1, <1>5, <1>9, LongerCodes
  <2>3. Dense(r.native, r.NativeCount)
    BY <1>6, <1>11 DEF Table
  <2>4. Placed(r)
    <3>1. \A k \in 0..M - 1 : r.native[k].ni_position = k
      BY <1>3, <1>6
    <3>2. ASSUME NEW i \in 1..n + 1, NEW j \in DOMAIN r.events[i].pos
          PROVE  \E k \in 0..M - 1 : /\ r.native[k].ni_event = Terms[r.events[i].event_code][j]
                                     /\ r.events[i].pos[j] = r.native[k].ni_position
      <4>1. PICK k \in 0..M - 1 : /\ r.native[k].ni_event = Terms[r.events[i].event_code][j]
                                  /\ r.events[i].pos[j] = k
        BY <1>12
      <4>2. r.native[k].ni_position = k
        BY <3>1
      <4>3. r.native[k].ni_event = Terms[r.events[i].event_code][j]
            /\ r.events[i].pos[j] = r.native[k].ni_position
        BY <4>1, <4>2
      <4> HIDE DEF M
      <4> QED BY Zenon, <4>3
    <3>3. r.NativeCount = M /\ DOMAIN r.events = 1..n + 1
      BY <1>6, <1>7
    <3>4. \A i \in 1..n + 1 : DOMAIN r.events[i].pos = DOMAIN Terms[r.events[i].event_code]
      BY <1>12
    <3> HIDE DEF M
    <3> SUFFICES ASSUME NEW i \in DOMAIN r.events
                 PROVE  /\ DOMAIN r.events[i].pos = DOMAIN Terms[r.events[i].event_code]
                        /\ \A j \in DOMAIN r.events[i].pos : \E k \in 0..r.NativeCount - 1 :
                             /\ r.native[k].ni_event = Terms[r.events[i].event_code][j]
                             /\ r.events[i].pos[j] = r.native[k].ni_position
      BY Zenon DEF Placed
    <3>5. i \in 1..n + 1
      BY <3>3
    <3> QED BY Zenon, <3>2, <3>3, <3>4, <3>5
  <2>5. \A i \in DOMAIN r.events, k \in 0..r.NativeCount - 1 :
          \A j \in DOMAIN r.events[i].pos :
            r.native[k].ni_event = Terms[r.events[i].event_code][j]
              => r.events[i].pos[j] = r.native[k].ni_position
    BY <1>5, <2>3, <2>4, PlacedEvents
  <2>6. \A i \in DOMAIN r.events :
          DOMAIN r.events[i].pos = DOMAIN Terms[r.events[i].event_code]
    BY <2>4 DEF Placed
  <2> QED BY Zenon, <2>1, <2>2, <2>5, <2>6 DEF EventsInv
<1>14. RegInv(r)
  BY <1>1, <1>3, <1>6 DEF RegInv, Counts
<1>15. NativesInv(r)
  BY <1>6, <1>10, <1>11 DEF NativesInv
<1>16. Core(r)
  BY <1>5, <1>13, <1>14, <1>15 DEF Core
<1>17. Programmed(t) = 0..s.NativeCount - 1 /\ Programmed(r) = 0..M - 1
  <2>1. Programmed(t) = Programmed(s)
    BY <1>1 DEF Programmed, Kept
  <2> QED BY <1>1, <1>6, <1>16, <2>1, CoreParts
<1>18. r.enabled = s.enabled \ 0..s.NativeCount - 1
  BY <1>3, <1>6, <1>17
<1>19. OverInv(r)
  <2>1. ASSUME s.overflow # NoEvent
        PROVE  /\ Len(Terms[s.overflow]) = 1
               /\ \E i \in DOMAIN r.events : /\ r.events[i].event_code = s.overflow
                                             /\ r.events[i].pos[1] \notin r.enabled
    <3>1. PICK i \in DOMAIN s.events : s.events[i].event_code = s.overflow
      BY <1>1, <2>1 DEF OverInv
    <3>2. Len(Terms[s.overflow]) = 1
      BY <1>1, <2>1 DEF OverInv
    <3>3. i \in DOMAIN r.events /\ r.events[i].event_code = s.overflow
      BY <1>1, <1>7, <1>9, <3>1 DEF Longer
    <3>4. 1 \in DOMAIN s.events[i].pos /\ 1 \in DOMAIN r.events[i].pos
      BY <1>1, <1>16, <3>1, <3>2, <3>3, OnlyRegister
    <3>5. PICK l \in 0..s.NativeCount - 1 : s.native[l].ni_event = Terms[s.overflow][1]
      <4>1. \E k \in 0..s.NativeCount - 1 :
              s.native[k].ni_event = Terms[s.events[i].event_code][1]
        BY <1>1, <3>4, SoundPlaced
      <4> QED BY <3>1, <4>1
    <3>6. t.native[l].ni_event = s.native[l].ni_event
      <4>1. t.native[l] = One(s.native[l]) \/ t.native[l] = s.native[l]
        BY <3>5 DEF Adding
      <4>2. s.native[l] \in Entries
        BY <1>1, CoreParts
      <4> QED BY <4>1, <4>2, EmptyEntry
    <3>7. l \in 0..M - 1 /\ r.native[l].ni_event = Terms[s.overflow][1]
          /\ r.native[l].ni_position = l
      <4>1. l \in 0..M - 1
        BY <1>1 DEF Counts
      <4> QED BY <1>3, <1>6, <3>5, <3>6, <4>1
    <3>8. r.events[i].pos[1] = l
      <4>1. r.NativeCount = M /\ EventsInv(r)
        BY <1>6, <1>13
      <4>2. r.native[l].ni_event = Terms[r.events[i].event_code][1]
            /\ l \in 0..r.NativeCount - 1
        BY <3>3, <3>7, <4>1
      <4>3. r.events[i].pos[1] = r.native[l].ni_position
        BY ONLY <3>3, <3>4, <4>1, <4>2 DEF EventsInv
      <4> QED BY <3>7, <4>3
    <3>9. l \notin r.enabled
      BY <1>18
    <3> QED BY <3>2, <3>3, <3>8, <3>9
  <2>2. r.overflow = s.overflow /\ r.nrictrs # 1 /\ r.nrictrs # -1
    BY <1>6
  <2> QED BY Zenon, <2>1, <2>2 DEF OverInv
\* If nothing was left behind, every register in use has its native event alone.
<1>20. ASSUME Cleared(s), NEW k \in Slots
       PROVE  r.evntsel[k] = IF k < M THEN {t.native[k].ni_event} ELSE {}
  <2>1. (IF k \in Programmed(t) THEN {} ELSE s.evntsel[k]) = {}
    <3>1. k \in Programmed(t) \/ k >= s.NativeCount
      BY <1>1, <1>17 DEF Counts
    <3> QED BY <1>20, <3>1 DEF Cleared
  <2>2. r.evntsel[k] = (IF k \in Programmed(t) THEN {} ELSE s.evntsel[k])
                         \cup (IF k < M THEN {t.native[k].ni_event} ELSE {})
    BY <1>3, <1>6
  <2> QED BY <2>1, <2>2
<1>21. ASSUME Cleared(s) PROVE AllRight(r)
  <2>1. ASSUME NEW i \in 1..n + 1, NEW j \in DOMAIN r.events[i].pos
        PROVE  /\ r.events[i].pos[j] \in Programmed(r)
               /\ r.evntsel[r.events[i].pos[j]] = {Terms[r.events[i].event_code][j]}
    <3>1. PICK k \in 0..M - 1 : /\ r.native[k].ni_event = Terms[r.events[i].event_code][j]
                                /\ r.events[i].pos[j] = k
      BY <1>12
    <3>2. k \in Slots /\ k < M /\ t.native[k].ni_event = r.native[k].ni_event
      BY <1>1, <1>3, <1>6 DEF Counts
    <3>3. r.evntsel[k] = {t.native[k].ni_event}
      BY <1>20, <1>21, <3>2
    <3>4. k \in Programmed(r)
      BY <1>17
    <3> QED BY <3>1, <3>2, <3>3, <3>4
  <2> QED BY <1>7, <2>1 DEF AllRight
<1>22. ASSUME TidyInv(s) PROVE TidyInv(r)
  <2>1. Cleared(s)
    BY <1>22 DEF TidyInv
  <2>2. r.enabled = {}
    <3>1. s.enabled \in SUBSET Slots
      BY <1>1, StructParts DEF Registers
    <3>2. \A k \in Slots : k \in 0..s.NativeCount - 1 \/ k \notin s.enabled
      BY <1>1, <2>1 DEF Cleared, Counts
    <3> QED BY <1>18, <3>1, <3>2
  <2>3. \A k \in Slots : k >= M => r.evntsel[k] = {}
    <3>1. \A k \in Slots : k >= M => ~ (k < M)
      BY <1>1 DEF Counts
    <3> QED BY <1>20, <2>1, <3>1
  <2> QED BY <1>6, <2>2, <2>3 DEF TidyInv, Cleared, LastOn
<1> QED BY <1>6, <1>9, <1>16, <1>19, <1>21, <1>22 DEF StateInv, r, w, u
\* An event made of native events that are there: only it is given positions.
LEMMA JoinShared ==
  ASSUME NEW s, StateInv(s), NEW c \in Events, c \notin CodeSet(s),
         Len(s.events) < NumCntrs, NEW t, Adding(s, t, ToSet(Terms[c])),
         t.NativeCount = s.NativeCount
  PROVE  LET r == TakePositions(Extend(t, c))
         IN /\ StateInv(r) /\ (AllRight(s) => AllRight(r)) /\ Longer(s, r, c)
            /\ r.overflow = s.overflow /\ r.NativeCount = s.NativeCount
            /\ NativesOf(CodeSet(r)) = NativesOf(CodeSet(s))
            /\ TidyInv(s) => TidyInv(r)
<1> DEFINE n == Len(s.events)
           N == s.NativeCount
           B == CodeSet(s) \cup {c}
           w == Extend(t, c)
           r == TakePositions(w)
<1>1. /\ s \in Structs /\ t \in Structs /\ Kept(s, t) /\ N \in Counts /\ 0..N - 1 \subseteq Slots
      /\ Dense(t.native, N) /\ n \in Nat /\ DOMAIN s.events = 1..n
      /\ Core(s) /\ OverInv(s) /\ NativesInv(s) /\ EventsInv(s) /\ RegInv(s)
  <2>1. /\ Core(s) /\ OverInv(s) /\ NativesInv(s) /\ EventsInv(s) /\ RegInv(s)
        /\ s \in Structs
    BY DEF StateInv, Core
  <2>2. t \in Structs /\ Kept(s, t) /\ Dense(t.native, N)
    BY DEF Adding
  <2> QED BY <2>1, <2>2, StructParts, EventParts DEF Counts
<1>2. Table(t.native, N, B)
  BY <1>1, EventParts, TablePlus DEF NativesInv
<1>3. ASSUME NEW k \in 0..N - 1
      PROVE  /\ t.native[k].ni_event = s.native[k].ni_event
             /\ t.native[k].ni_position = s.native[k].ni_position
  <2>1. s.native[k] \in Entries
    BY <1>1, StructParts
  <2>2. One(s.native[k]).ni_position = s.native[k].ni_position
        /\ One(s.native[k]).ni_event = s.native[k].ni_event
    BY <2>1, EmptyEntry DEF One, Entries
  <2> QED BY <2>2 DEF Adding
<1>4. /\ w \in Structs /\ Beside(t, w) /\ Len(w.events) = n + 1
      /\ \A i \in 1..n : w.events[i] = s.events[i]
      /\ w.events[n + 1] = Unplaced(c)
      /\ Unplaced(c).event_code = c /\ DOMAIN Unplaced(c).pos = DOMAIN Terms[c]
  <2>1. t.events = s.events
    BY <1>1 DEF Kept
  <2> QED BY <1>1, <2>1, Extended
<1> HIDE DEF w
<1>5. /\ r \in Structs /\ Beside(w, r) /\ Len(r.events) = n + 1
      /\ \A i \in DOMAIN w.events :
           r.events[i] = IF i = n + 1 THEN Positioned(w, w.events[i]) ELSE w.events[i]
  <2>1. n + 1 > 0
    BY <1>1
  <2> QED BY <1>4, <2>1, PositionsTaken
<1> HIDE DEF r
<1>6. /\ r.native = t.native /\ w.native = t.native /\ w.NativeCount = N
      /\ r.NativeCount = N /\ r.evntsel = s.evntsel /\ r.enabled = s.enabled
      /\ r.nractrs = s.nractrs /\ r.nrictrs = s.nrictrs /\ r.overflow = s.overflow
  BY <1>1, <1>4, <1>5 DEF Beside, Kept
<1>7. /\ DOMAIN w.events = 1..n + 1 /\ DOMAIN r.events = 1..n + 1
      /\ w.events[n + 1] \in EventRecs /\ n + 1 \in 1..n + 1
      /\ \A i \in 1..n : i \in 1..n + 1 /\ i # n + 1
      /\ \A i \in 1..n + 1 : i \in 1..n \/ i = n + 1
  BY <1>1, <1>4, <1>5, EventParts
<1>8. \A i \in 1..n : r.events[i] = s.events[i]
  BY <1>4, <1>5, <1>7
<1> DEFINE e == r.events[n + 1]
<1>9. /\ e.event_code = c /\ DOMAIN e.pos = DOMAIN Terms[c]
      /\ \A j \in DOMAIN e.pos :
           e.pos[j] = LET at == Mapped(w, Terms[c][j])
                      IN IF at = {} THEN Unplaced(c).pos[j] ELSE w.native[Min(at)].ni_position
  <2>1. e = Positioned(w, Unplaced(c)) /\ Unplaced(c) \in EventRecs
    BY <1>4, <1>5, <1>7
  <2> HIDE DEF e
  <2>2. w \in Structs /\ Unplaced(c).event_code = c
        /\ DOMAIN Unplaced(c).pos = DOMAIN Terms[c]
    BY <1>4
  <2> DEFINE z == Unplaced(c)
  <2> HIDE DEF z
  <2>3. LET m == Positioned(w, z)
        IN /\ m.event_code = z.event_code /\ DOMAIN m.pos = DOMAIN z.pos
           /\ \A j \in DOMAIN z.pos :
                m.pos[j] = LET at == Mapped(w, Terms[z.event_code][j])
                           IN IF at = {} THEN z.pos[j] ELSE w.native[Min(at)].ni_position
    BY <2>1, <2>2, PositionedParts DEF z
  <2> QED BY <2>1, <2>2, <2>3 DEF z
<1> HIDE DEF e
<1>10. Longer(s, r, c)
  BY <1>5, <1>8, <1>9 DEF Longer, e
<1>11. CodeSet(r) = B
  BY <1>1, <1>5, <1>10, LongerCodes
<1>12. Table(r.native, N, B)
  BY <1>2, <1>6
\* The new event's native events are where another event has them.
<1>13. ASSUME NEW j \in DOMAIN e.pos
       PROVE  \E k \in 0..N - 1 : r.native[k].ni_event = Terms[c][j]
                                  /\ e.pos[j] = r.native[k].ni_position
  <2>1. Terms[c][j] \in NativesOf(B)
    <3>1. Terms[c][j] \in ToSet(Terms[c])
      BY <1>9 DEF ToSet
    <3> QED BY <3>1 DEF NativesOf
  <2>2. PICK k \in 0..N - 1 : r.native[k].ni_event = Terms[c][j]
    BY <1>12, <2>1 DEF Table
  <2>3. Dense(w.native, w.NativeCount) /\ w.native[k].ni_event = Terms[c][j]
        /\ k \in 0..w.NativeCount - 1
    BY <1>1, <1>6, <2>2
  <2>4. Mapped(w, Terms[c][j]) = {k} /\ Min(Mapped(w, Terms[c][j])) = k
    <3> DEFINE x == w.native[k].ni_event
    <3>1. Mapped(w, x) = {k} /\ Min(Mapped(w, x)) = k
      BY <1>4, <2>3, HeldAt
    <3>2. x = Terms[c][j]
      BY <2>3
    <3> HIDE DEF x
    <3> QED BY <3>1, <3>2
  <2>5. Mapped(w, Terms[c][j]) # {}
    BY <2>4
  <2>6. e.pos[j] = w.native[Min(Mapped(w, Terms[c][j]))].ni_position
    BY <1>9, <2>5
  <2> QED BY <1>6, <2>2, <2>4, <2>6
<1>14. Placed(r)
  <2>1. Placed(s)
    BY <1>1, EventsPlaced
  <2> DEFINE Sits(x) ==
        /\ DOMAIN x.pos = DOMAIN Terms[x.event_code]
        /\ \A j \in DOMAIN x.pos : \E k \in 0..N - 1 :
             r.native[k].ni_event = Terms[x.event_code][j]
             /\ x.pos[j] = r.native[k].ni_position
  <2>2. Sits(e)
    <3>1. e.event_code = c /\ DOMAIN e.pos = DOMAIN Terms[c]
      BY <1>9
    <3>2. \A j \in DOMAIN e.pos : \E k \in 0..N - 1 :
            r.native[k].ni_event = Terms[c][j] /\ e.pos[j] = r.native[k].ni_position
      BY <1>13
    <3> QED BY <3>1, <3>2
  <2>3. ASSUME NEW i \in 1..n
        PROVE  Sits(r.events[i])
    <3> DEFINE d == s.events[i]
    <3>1. i \in DOMAIN s.events
      BY <1>1
    <3>2. /\ DOMAIN d.pos = DOMAIN Terms[d.event_code]
          /\ \A j \in DOMAIN d.pos : \E k \in 0..s.NativeCount - 1 :
               /\ s.native[k].ni_event = Terms[d.event_code][j]
               /\ d.pos[j] = s.native[k].ni_position
      BY <2>1, <3>1 DEF Placed
    <3>3. r.events[i] = d
      BY <1>8
    <3> HIDE DEF d
    <3>4. ASSUME NEW j \in DOMAIN d.pos
          PROVE  \E k \in 0..N - 1 : r.native[k].ni_event = Terms[d.event_code][j]
                                     /\ d.pos[j] = r.native[k].ni_position
      <4>1. PICK k \in 0..s.NativeCount - 1 :
              s.native[k].ni_event = Terms[d.event_code][j]
              /\ d.pos[j] = s.native[k].ni_position
        BY <3>2
      <4>2. k \in 0..N - 1 /\ r.native[k].ni_event = s.native[k].ni_event
            /\ r.native[k].ni_position = s.native[k].ni_position
        BY <1>1, <1>3, <1>6
      <4> QED BY <4>1, <4>2
    <3>5. Sits(d)
      BY <3>2, <3>4
    <3> HIDE DEF Sits
    <3> QED BY <3>3, <3>5
  <2>4. r.NativeCount = N /\ DOMAIN r.events = 1..n + 1
        /\ \A i \in 1..n + 1 : i \in 1..n \/ i = n + 1
    BY <1>6, <1>7
  <2>5. \A i \in DOMAIN r.events : Sits(r.events[i])
    <3>1. Sits(r.events[n + 1])
      BY <2>2 DEF e
    <3> HIDE DEF Sits, n
    <3> QED BY <2>3, <2>4, <3>1
  <2> HIDE DEF N
  <2> QED BY <2>4, <2>5 DEF Placed
<1>15. EventsInv(r)
  <2>1. Len(r.events) <= NumCntrs
    BY <1>1, <1>5
  <2>2. \A i, j \in DOMAIN r.events :
          r.events[i].event_code = r.events[j].event_code => i = j
    BY <1>1, <1>5, <1>10, LongerCodes
  <2>3. Dense(r.native, r.NativeCount)
    BY <1>1, <1>6
  <2>4. \A i \in DOMAIN r.events, k \in 0..r.NativeCount - 1 :
          \A j \in DOMAIN r.events[i].pos :
            r.native[k].ni_event = Terms[r.events[i].event_code][j]
              => r.events[i].pos[j] = r.native[k].ni_position
    BY <1>5, <1>14, <2>3, PlacedEvents
  <2>5. \A i \in DOMAIN r.events :
          DOMAIN r.events[i].pos = DOMAIN Terms[r.events[i].event_code]
    BY <1>14 DEF Placed
  <2> QED BY Zenon, <2>1, <2>2, <2>4, <2>5 DEF EventsInv
<1>16. RegInv(r)
  <2>1. \A k \in 0..N - 1 : r.native[k].ni_position \in Slots
    BY <1>1, <1>3, <1>6 DEF RegInv
  <2> QED BY <1>1, <1>6, <2>1 DEF RegInv
<1>17. AllRight(s) => AllRight(r)
  <2> SUFFICES ASSUME AllRight(s) PROVE AllRight(r)
    OBVIOUS
  <2>1. Programmed(r) = Programmed(s)
    BY <1>6 DEF Programmed
  <2>2. ASSUME NEW i \in 1..n, NEW j \in DOMAIN r.events[i].pos
        PROVE  /\ r.events[i].pos[j] \in Programmed(r)
               /\ r.evntsel[r.events[i].pos[j]] = {Terms[r.events[i].event_code][j]}
    <3> DEFINE d == s.events[i]
    <3>1. i \in DOMAIN s.events /\ r.events[i] = d /\ r.evntsel = s.evntsel
      BY <1>1, <1>6, <1>8
    <3>2. \A x \in DOMAIN d.pos : /\ d.pos[x] \in Programmed(s)
                                  /\ s.evntsel[d.pos[x]] = {Terms[d.event_code][x]}
      BY <3>1 DEF AllRight
    <3> HIDE DEF d
    <3> QED BY <2>1, <2>2, <3>1, <3>2
  <2>3. ASSUME NEW j \in DOMAIN e.pos
        PROVE  e.pos[j] \in Programmed(r) /\ r.evntsel[e.pos[j]] = {Terms[c][j]}
    <3>1. PICK k \in 0..N - 1 : r.native[k].ni_event = Terms[c][j]
                                /\ e.pos[j] = r.native[k].ni_position
      BY <1>13
    <3>2. s.native[k].ni_event = Terms[c][j] /\ e.pos[j] = s.native[k].ni_position
      BY <1>3, <1>6, <3>1
    <3>3. PICK i \in DOMAIN s.events : \E x \in DOMAIN s.events[i].pos :
            /\ Terms[s.events[i].event_code][x] = s.native[k].ni_event
            /\ s.events[i].pos[x] = s.native[k].ni_position
      BY <1>1, HeldIsUsed
    <3>4. PICK x \in DOMAIN s.events[i].pos :
            /\ Terms[s.events[i].event_code][x] = s.native[k].ni_event
            /\ s.events[i].pos[x] = s.native[k].ni_position
      BY <3>3
    <3>5. s.events[i].pos[x] \in Programmed(s)
          /\ s.evntsel[s.events[i].pos[x]] = {Terms[s.events[i].event_code][x]}
      BY DEF AllRight
    <3> QED BY <1>6, <2>1, <3>2, <3>4, <3>5
  <2>4. ASSUME NEW i \in DOMAIN r.events, NEW j \in DOMAIN r.events[i].pos
        PROVE  /\ r.events[i].pos[j] \in Programmed(r)
               /\ r.evntsel[r.events[i].pos[j]] = {Terms[r.events[i].event_code][j]}
    <3>1. CASE i = n + 1
      <4>1. r.events[i] = e /\ j \in DOMAIN e.pos
        BY <2>4, <3>1 DEF e
      <4>2. e.pos[j] \in Programmed(r) /\ r.evntsel[e.pos[j]] = {Terms[c][j]}
        BY <2>3, <4>1
      <4> QED BY <1>9, <4>1, <4>2
    <3>2. CASE i \in 1..n
      BY <2>2, <2>4, <3>2
    <3> QED BY <1>7, <3>1, <3>2
  <2> QED BY <2>4 DEF AllRight
<1>18. OverInv(r)
  <2>1. \A i \in DOMAIN s.events : i \in DOMAIN r.events /\ r.events[i] = s.events[i]
    BY <1>1, <1>7, <1>8
  <2>2. ASSUME s.nrictrs = -1
        PROVE  \E k \in 0..N - 1 : r.native[k].ni_position >= N
    <3>1. PICK k \in 0..N - 1 : s.native[k].ni_position >= N
      BY <1>1, <2>2 DEF OverInv
    <3> QED BY <1>3, <1>6, <3>1
  <2>3. ASSUME s.overflow # NoEvent
        PROVE  /\ Len(Terms[s.overflow]) = 1
               /\ \E i \in DOMAIN r.events :
                    /\ r.events[i].event_code = s.overflow
                    /\ s.nrictrs = 1 => r.events[i].pos[1] \in s.enabled
                    /\ s.nrictrs = 0 /\ r.events[i].pos[1] \in s.enabled
                         => r.events[i].pos[1] >= N
    <3>1. PICK i \in DOMAIN s.events :
            /\ s.events[i].event_code = s.overflow
            /\ s.nrictrs = 1 => s.events[i].pos[1] \in s.enabled
            /\ s.nrictrs = 0 /\ s.events[i].pos[1] \in s.enabled
                 => s.events[i].pos[1] >= N
      BY <1>1, <2>3 DEF OverInv
    <3>2. Len(Terms[s.overflow]) = 1
      BY <1>1, <2>3 DEF OverInv
    <3> HIDE DEF N
    <3> QED BY <2>1, <3>1, <3>2
  <2>4. (s.overflow = NoEvent => s.nrictrs # 1) /\ (s.nrictrs = -1 => s.overflow = NoEvent)
    BY <1>1 DEF OverInv
  <2> QED BY Zenon, <1>6, <2>2, <2>3, <2>4 DEF OverInv
<1>19. StateInv(r)
  <2>1. NativesInv(r)
    BY <1>6, <1>11, <1>12 DEF NativesInv
  <2> QED BY <1>5, <1>15, <1>16, <1>18, <2>1 DEF StateInv, Core
<1>20. NativesOf(B) = NativesOf(CodeSet(s))
  <2>1. \A m \in NativesOf(B) : \E k \in 0..N - 1 : t.native[k].ni_event = m
    BY <1>2 DEF Table
  <2>2. \A k \in 0..N - 1 : s.native[k].ni_event \in NativesOf(CodeSet(s))
    BY <1>1 DEF NativesInv, Table
  <2>3. \A m \in NativesOf(B) : m \in NativesOf(CodeSet(s))
    BY <1>3, <2>1, <2>2
  <2>4. \A m \in NativesOf(CodeSet(s)) : m \in NativesOf(B)
    BY DEF NativesOf
  <2> QED BY <2>3, <2>4
<1>21. ASSUME TidyInv(s) PROVE TidyInv(r)
  <2>1. Cleared(r)
    BY <1>6, <1>21 DEF TidyInv, Cleared
  <2>2. \A i \in DOMAIN s.events : i \in DOMAIN r.events /\ r.events[i] = s.events[i]
    BY <1>1, <1>7, <1>8
  <2>3. LastOn(s)
    BY <1>21 DEF TidyInv
  <2>4. LastOn(r)
    BY <1>6, <2>2, <2>3 DEF LastOn
  <2> QED BY <2>1, <2>4 DEF TidyInv
<1> QED BY <1>6, <1>10, <1>11, <1>17, <1>19, <1>20, <1>21 DEF r, w
-----------------------------------------------------------------------------
(* Whether the native events can be counted.                               *)

\* The native events of the set can all be counted at once.
CountInv(s) == Allocatable(NativesOf(CodeSet(s)))

\* What can be counted can be counted in part.
LEMMA AllocatableLess ==
  ASSUME NEW S, NEW T \in SUBSET S, Allocatable(S)
  PROVE  Allocatable(T)
<1>1. PICK counter \in [S -> Slots] :
        IsInjective(counter) /\ \A n \in S : counter[n] \in Selector[n]
  BY DEF Allocatable
<1> DEFINE f == [n \in T |-> counter[n]]
<1>2. f \in [T -> Slots]
  BY <1>1
<1>3. IsInjective(f)
  BY <1>1 DEF IsInjective
<1>4. \A n \in T : f[n] \in Selector[n]
  BY <1>1
<1> HIDE DEF f
<1> QED BY <1>2, <1>3, <1>4 DEF Allocatable

\* A table with no free slot, and one native event more, are too many.
LEMMA TooMany ==
  ASSUME NEW t \in Structs, Dense(t.native, t.NativeCount), t.NativeCount = NumCntrs,
         NEW S, \A k \in Slots : t.native[k].ni_event \in S,
         NEW n \in S, \A k \in Slots : t.native[k].ni_event # n
  PROVE  ~ Allocatable(S)
<1> SUFFICES ASSUME Allocatable(S) PROVE FALSE
  OBVIOUS
<1>1. PICK counter \in [S -> Slots] : IsInjective(counter)
  BY DEF Allocatable
<1> DEFINE f == [k \in 0..NumCntrs |->
                   IF k = NumCntrs THEN counter[n] ELSE counter[t.native[k].ni_event]]
<1>2. \A k \in 0..NumCntrs : k = NumCntrs \/ k \in Slots
  OBVIOUS
<1>3. f \in [0..NumCntrs -> Slots]
  BY <1>1, <1>2
<1>4. /\ IsFiniteSet(0..NumCntrs) /\ IsFiniteSet(Slots)
      /\ Cardinality(0..NumCntrs) = NumCntrs + 1 /\ Cardinality(Slots) = NumCntrs
  <2> DEFINE more == NumCntrs + 1
  <2>1. more \in Nat /\ more - 1 = NumCntrs
    OBVIOUS
  <2> HIDE DEF more
  <2>2. IsFiniteSet(0..more - 1) /\ Cardinality(0..more - 1) = more
    BY <2>1, Below
  <2>3. IsFiniteSet(0..NumCntrs - 1) /\ Cardinality(0..NumCntrs - 1) = NumCntrs
    BY Below
  <2> QED BY <2>1, <2>2, <2>3 DEF more
<1>5. Cardinality(Slots) < Cardinality(0..NumCntrs)
  <2>1. NumCntrs < NumCntrs + 1
    OBVIOUS
  <2> QED BY <1>4, <2>1
<1>6. PICK x \in 0..NumCntrs, y \in 0..NumCntrs : x # y /\ f[x] = f[y]
  <2> DEFINE U == 0..NumCntrs
             T == Slots
  <2>1. IsFiniteSet(U) /\ IsFiniteSet(T) /\ Cardinality(T) < Cardinality(U)
    BY <1>4, <1>5
  <2>2. f \in [U -> T]
    BY <1>3
  <2> HIDE DEF f, U, T
  <2>3. \E i, j \in U : i # j /\ f[i] = f[j]
    BY <2>1, <2>2, FS_PigeonHole
  <2> QED BY <2>3 DEF U
<1> DEFINE ev(k) == IF k = NumCntrs THEN n ELSE t.native[k].ni_event
<1>7. \A k \in 0..NumCntrs : ev(k) \in S /\ f[k] = counter[ev(k)]
  BY <1>2
<1>8. ev(x) = ev(y)
  <2> HIDE DEF f, ev
  <2>1. counter[ev(x)] = counter[ev(y)] /\ ev(x) \in DOMAIN counter
        /\ ev(y) \in DOMAIN counter
    BY <1>1, <1>6, <1>7
  <2> QED BY <1>1, <2>1 DEF IsInjective
<1>9. x = NumCntrs => FALSE
  <2> SUFFICES ASSUME x = NumCntrs PROVE FALSE
    OBVIOUS
  <2>1. y \in Slots /\ y # NumCntrs
    BY <1>2, <1>6
  <2> QED BY <1>8, <2>1
<1>10. y = NumCntrs => FALSE
  <2> SUFFICES ASSUME y = NumCntrs PROVE FALSE
    OBVIOUS
  <2>1. x \in Slots /\ x # NumCntrs
    BY <1>2, <1>6
  <2> QED BY <1>8, <2>1
<1>11. x \in 0..t.NativeCount - 1 /\ y \in 0..t.NativeCount - 1
       /\ t.native[x].ni_event = t.native[y].ni_event
  BY <1>2, <1>8, <1>9, <1>10
<1>12. x = y
  BY <1>11 DEF Dense
<1> QED BY <1>6, <1>12

-----------------------------------------------------------------------------
(* The calls.                                                              *)

\* What a call of PAPI_add_event does: it fails and changes nothing, because the
\* event is there, the list is full, one of its native events overflows, or its
\* native events cannot be counted with the others; or the event joins.
LEMMA AddStep ==
  ASSUME StateInv(esi), NEW c \in Events, AddEvent(c)
  PROVE  \/ /\ esi' = esi /\ result' = "PAPI_ECNFLCT"
            /\ \/ c \in CodeSet(esi) \/ ~ (Len(esi.events) < NumCntrs)
               \/ esi.overflow \in ToSet(Terms[c])
               \/ ~ Allocatable(NativesOf(CodeSet(esi) \cup {c}))
         \/ /\ result' = "PAPI_OK" /\ StateInv(esi') /\ Longer(esi, esi', c)
            /\ esi'.overflow = esi.overflow
            /\ c \notin CodeSet(esi) /\ Len(esi.events) < NumCntrs
            /\ esi.overflow \notin ToSet(Terms[c])
            /\ (IF esi'.NativeCount > esi.NativeCount THEN Cleared(esi) ELSE AllRight(esi))
                 => AllRight(esi')
            /\ TidyInv(esi) => TidyInv(esi')
            /\ \/ Allocatable(NativesOf(CodeSet(esi')))
               \/ NativesOf(CodeSet(esi')) = NativesOf(CodeSet(esi))
<1> DEFINE B == CodeSet(esi) \cup {c}
           D == ToSet(Terms[c])
           a == FoldLeft(AddNative, [esi |-> esi, done |-> 0, full |-> FALSE], Terms[c])
           t == a.esi
           fits == Allocatable({t.native[k].ni_event : k \in 0..t.NativeCount - 1})
<1>1. /\ esi \in Structs /\ Owned(esi) /\ Terms[c] \in Seq(Natives) /\ IsInjective(Terms[c])
      /\ Len(esi.events) \in Nat /\ Len(esi.events) <= NumCntrs
      /\ CodeSet(esi) \in SUBSET Events /\ IsFiniteSet(CodeSet(esi))
  BY EventParts, TableOwned DEF StateInv, Core, NativesInv, EventsInv
<1>2. ToSet(Codes(esi)) = CodeSet(esi)
  BY DEF ToSet, Codes, CodeSet
<1>3. CASE \/ c \in ToSet(Codes(esi)) \/ Len(esi.events) = NumCntrs
           \/ esi.overflow \in ToSet(Terms[c])
  <2>1. esi' = esi /\ result' = "PAPI_ECNFLCT"
    BY <1>3 DEF AddEvent, Return
  <2>2. \/ c \in CodeSet(esi) \/ ~ (Len(esi.events) < NumCntrs)
        \/ esi.overflow \in ToSet(Terms[c])
    BY <1>2, <1>3
  <2> QED BY <2>1, <2>2
<1>4. CASE ~ (\/ c \in ToSet(Codes(esi)) \/ Len(esi.events) = NumCntrs
              \/ esi.overflow \in ToSet(Terms[c]))
  <2>1. /\ c \notin CodeSet(esi) /\ Len(esi.events) < NumCntrs
        /\ esi.overflow \notin ToSet(Terms[c])
    BY <1>1, <1>2, <1>4
  <2> DEFINE answer ==
        CASE a.full
          -> Return(FoldLeft(FailClean, t, SubSeq(Terms[c], 1, a.done)), "PAPI_ECNFLCT")
        [] ~a.full /\ t.NativeCount = esi.NativeCount
          -> Return(TakePositions(Extend(t, c)), "PAPI_OK")
        [] ~a.full /\ t.NativeCount > esi.NativeCount /\ fits
          -> Return(Remap(Extend(UpdateControl(Allocate(t)), c)), "PAPI_OK")
        [] ~a.full /\ t.NativeCount > esi.NativeCount /\ ~fits
          -> Return(FoldLeft(FailClean, t, Terms[c]), "PAPI_ECNFLCT")
  <2>2. answer
    BY <1>4 DEF AddEvent
  <2>3. /\ a \in Adds /\ a.done \in 0..Len(Terms[c])
        /\ Adding(esi, t, Firsts(Terms[c], a.done))
        /\ ~a.full => a.done = Len(Terms[c])
        /\ a.full => /\ t.NativeCount = NumCntrs /\ a.done < Len(Terms[c])
                     /\ Mapped(t, Terms[c][a.done + 1]) = {}
    BY <1>1, AddLoop DEF Owned
  <2>4. /\ a.full => FoldLeft(FailClean, t, SubSeq(Terms[c], 1, a.done)) = esi
        /\ ~a.full => FoldLeft(FailClean, t, Terms[c]) = esi
    BY <1>1, NothingLeft
  <2>5. Firsts(Terms[c], Len(Terms[c])) = D
    BY <1>1 DEF Firsts, ToSet
  <2>6. t.NativeCount \in Counts /\ esi.NativeCount \in Counts
        /\ esi.NativeCount <= t.NativeCount /\ t \in Structs
    BY <1>1, <2>3, StructParts DEF Adding
  <2> HIDE DEF a, fits
  <2>7. CASE a.full
    <3>1. esi' = esi /\ result' = "PAPI_ECNFLCT"
      BY <2>2, <2>4, <2>7 DEF Return
    <3> DEFINE n == Terms[c][a.done + 1]
    <3>2. n \in D
      <4>1. a.done + 1 \in 1..Len(Terms[c])
        BY <1>1, <2>3, <2>7
      <4> QED BY <1>1, <4>1 DEF ToSet
    <3> HIDE DEF n
    <3>3. \A k \in Slots : t.native[k].ni_event # n
      BY <2>3, <2>7 DEF Mapped, n
    <3>4. \A k \in Slots : t.native[k].ni_event \in NativesOf(B)
      <4> SUFFICES ASSUME NEW k \in Slots PROVE t.native[k].ni_event \in NativesOf(B)
        OBVIOUS
      <4>1. CASE k \in 0..esi.NativeCount - 1
        <5>1. esi.native[k].ni_event \in NativesOf(CodeSet(esi))
          BY <4>1 DEF StateInv, Core, NativesInv, Table
        <5>2. esi.native[k] \in Entries
          BY <1>1, StructParts
        <5>3. t.native[k].ni_event = esi.native[k].ni_event
          <6>1. t.native[k] = One(esi.native[k]) \/ t.native[k] = esi.native[k]
            BY <2>3, <4>1 DEF Adding
          <6> QED BY <5>2, <6>1, EmptyEntry
        <5> QED BY <5>1, <5>3 DEF NativesOf
      <4>2. CASE k \in esi.NativeCount..t.NativeCount - 1
        <5>1. t.native[k].ni_event \in Firsts(Terms[c], a.done)
          BY <2>3, <4>2 DEF Adding
        <5>2. Firsts(Terms[c], a.done) \subseteq D
          BY <1>1, <2>3 DEF Firsts, ToSet
        <5> QED BY <5>1, <5>2 DEF NativesOf
      <4> QED BY <2>3, <2>6, <2>7, <4>1, <4>2 DEF Counts
    <3>5. n \in NativesOf(B)
      BY <3>2 DEF NativesOf
    <3>6. Dense(t.native, t.NativeCount) /\ t.NativeCount = NumCntrs
      BY <2>3, <2>7 DEF Adding
    <3>7. ~ Allocatable(NativesOf(B))
      BY <2>6, <3>3, <3>4, <3>5, <3>6, TooMany
    <3> QED BY <3>1, <3>7
  <2>8. CASE ~a.full
    <3>1. Adding(esi, t, D)
      BY <2>3, <2>5, <2>8
    <3>2. Table(t.native, t.NativeCount, B)
      BY <1>1, <2>1, <3>1, TablePlus DEF StateInv, Core, NativesInv
    <3>3. {t.native[k].ni_event : k \in 0..t.NativeCount - 1} = NativesOf(B)
      <4> DEFINE J == 0..t.NativeCount - 1
                 V == NativesOf(B)
                 nat == t.native
      <4>1. /\ \A k \in J : nat[k].ni_event \in V
            /\ \A n \in V : \E k \in J : nat[k].ni_event = n
        BY <3>2 DEF Table
      <4> HIDE DEF J, V, nat
      <4>2. {nat[k].ni_event : k \in J} = V
        BY <4>1
      <4> QED BY <4>2 DEF J, V, nat
    <3>4. fits <=> Allocatable(NativesOf(B))
      BY <3>3 DEF fits
    <3>5. CASE t.NativeCount = esi.NativeCount
      <4> DEFINE r == TakePositions(Extend(t, c))
      <4>1. esi' = r /\ result' = "PAPI_OK"
        <5>1. ~ (t.NativeCount > esi.NativeCount)
          BY <2>6, <3>5 DEF Counts
        <5>2. Return(r, "PAPI_OK")
          BY <2>2, <2>8, <3>5, <5>1
        <5> QED BY <5>2 DEF Return
      <4>2. /\ StateInv(r) /\ (AllRight(esi) => AllRight(r)) /\ Longer(esi, r, c)
            /\ r.overflow = esi.overflow /\ r.NativeCount = esi.NativeCount
            /\ NativesOf(CodeSet(r)) = NativesOf(CodeSet(esi))
            /\ TidyInv(esi) => TidyInv(r)
        BY <2>1, <3>1, <3>5, JoinShared
      <4> HIDE DEF r
      <4>3. ~ (r.NativeCount > esi.NativeCount)
        BY <2>6, <4>2 DEF Counts
      <4> QED BY <2>1, <4>1, <4>2, <4>3
    <3>6. CASE t.NativeCount > esi.NativeCount /\ fits
      <4> DEFINE r == Remap(Extend(UpdateControl(Allocate(t)), c))
      <4>1. esi' = r /\ result' = "PAPI_OK"
        <5>1. t.NativeCount # esi.NativeCount
          BY <2>6, <3>6 DEF Counts
        <5>2. Return(r, "PAPI_OK")
          BY <2>2, <2>8, <3>6, <5>1
        <5> QED BY <5>2 DEF Return
      <4>2. /\ StateInv(r) /\ (Cleared(esi) => AllRight(r)) /\ Longer(esi, r, c)
            /\ r.overflow = esi.overflow /\ r.NativeCount > esi.NativeCount
            /\ TidyInv(esi) => TidyInv(r)
        BY <2>1, <3>1, <3>6, JoinFresh
      <4> HIDE DEF r
      <4>3. CodeSet(r) = B
        BY <1>1, <4>2, LongerCodes DEF StateInv, Core
      <4> QED BY <2>1, <3>4, <3>6, <4>1, <4>2, <4>3
    <3>7. CASE t.NativeCount > esi.NativeCount /\ ~fits
      <4>1. esi' = esi /\ result' = "PAPI_ECNFLCT"
        <5>1. t.NativeCount # esi.NativeCount
          BY <2>6, <3>7 DEF Counts
        <5>2. Return(esi, "PAPI_ECNFLCT")
          BY <2>2, <2>4, <2>8, <3>7, <5>1
        <5> QED BY <5>2 DEF Return
      <4> QED BY <3>4, <3>7, <4>1
    <3> QED BY <2>6, <3>5, <3>6, <3>7 DEF Counts
  <2> QED BY <2>7, <2>8
<1> QED BY <1>3, <1>4

\* An event is in the set, or PAPI_lookup_EventCodeIndex does not find it.
\* An event is in the set, or PAPI_lookup_EventCodeIndex does not find it.
LEMMA Lookup ==
  ASSUME StateInv(esi), NEW c
  PROVE  /\ Indices(c) = {} <=> c \notin CodeSet(esi)
         /\ c \in CodeSet(esi) => /\ Min(Indices(c)) \in DOMAIN esi.events
                                  /\ esi.events[Min(Indices(c))].event_code = c
<1>1. Indices(c) = {} <=> c \notin CodeSet(esi)
  BY DEF Indices, CodeSet
<1>2. ASSUME c \in CodeSet(esi)
      PROVE  /\ Min(Indices(c)) \in DOMAIN esi.events
             /\ esi.events[Min(Indices(c))].event_code = c
  <2>1. PICK i \in DOMAIN esi.events : esi.events[i].event_code = c
    BY <1>2 DEF CodeSet
  <2>2. Min(Indices(c)) = i
    BY <2>1, IndexOf DEF StateInv
  <2> QED BY <2>1, <2>2
<1> QED BY <1>1, <1>2

\* The list of the codes.
LEMMA PromisedList ==
  ASSUME NEW s \in Structs
  PROVE  /\ Codes(s) \in Seq(Events) /\ Len(Codes(s)) = Len(s.events)
         /\ DOMAIN Codes(s) = DOMAIN s.events
         /\ \A i \in DOMAIN s.events : Codes(s)[i] = s.events[i].event_code
         /\ ToSet(Codes(s)) = CodeSet(s)
<1>1. /\ Len(s.events) \in Nat /\ DOMAIN s.events = 1..Len(s.events)
      /\ \A i \in DOMAIN s.events : s.events[i].event_code \in Events
  BY EventParts
<1>2. Codes(s) = [i \in 1..Len(s.events) |-> s.events[i].event_code]
  BY <1>1 DEF Codes
<1>3. Codes(s) \in Seq(Events) /\ Len(Codes(s)) = Len(s.events)
  BY <1>1, <1>2
<1>4. /\ DOMAIN Codes(s) = DOMAIN s.events
      /\ \A i \in DOMAIN s.events : Codes(s)[i] = s.events[i].event_code
  BY DEF Codes
<1>5. ToSet(Codes(s)) = CodeSet(s)
  <2> DEFINE p == Codes(s)
  <2>1. \A x : x \in ToSet(p) <=> \E i \in DOMAIN p : p[i] = x
    BY DEF ToSet
  <2>2. \A x : x \in CodeSet(s) <=> \E i \in DOMAIN s.events : s.events[i].event_code = x
    BY DEF CodeSet
  <2>3. DOMAIN p = DOMAIN s.events
        /\ \A i \in DOMAIN s.events : p[i] = s.events[i].event_code
    BY <1>4
  <2> HIDE DEF p
  <2>4. \A x : x \in ToSet(p) <=> x \in CodeSet(s)
    BY <2>1, <2>2, <2>3
  <2>5. ToSet(p) = CodeSet(s)
    BY <2>4
  <2> QED BY <2>5 DEF p
<1> QED BY <1>3, <1>4, <1>5

LEMMA SameLists ==
  ASSUME NEW p \in Seq(Events), NEW q \in Seq(Events), Len(p) = Len(q),
         \A i \in 1..Len(p) : p[i] = q[i]
  PROVE  p = q
<1>1. p = [i \in DOMAIN p |-> p[i]] /\ q = [i \in DOMAIN q |-> q[i]]
  OBVIOUS
<1>2. DOMAIN p = 1..Len(p) /\ DOMAIN q = 1..Len(p)
  OBVIOUS
<1>3. [i \in 1..Len(p) |-> p[i]] = [i \in 1..Len(p) |-> q[i]]
  OBVIOUS
<1> QED BY <1>1, <1>2, <1>3

\* The list of the codes when an event is taken out of the list of the events.
LEMMA CodesRemoved ==
  ASSUME NEW s \in Structs, NEW r \in Structs, NEW i \in DOMAIN s.events,
         r.events = RemoveAt(s.events, i)
  PROVE  Codes(r) = RemoveAt(Codes(s), i)
<1> DEFINE p == Codes(s)
           c == Codes(r)
           q == RemoveAt(p, i)
           m == Len(p)
<1>1. p \in Seq(Events) /\ DOMAIN p = DOMAIN s.events /\ DOMAIN p = 1..m /\ m \in Nat
      /\ m = Len(s.events) /\ i \in DOMAIN p
      /\ \A j \in DOMAIN s.events : p[j] = s.events[j].event_code
  BY PromisedList
<1>2. /\ Len(r.events) = m - 1
      /\ \A j \in DOMAIN r.events :
           r.events[j] = IF j < i THEN s.events[j] ELSE s.events[j + 1]
  <2>1. s.events \in EventLists
    BY StructParts
  <2>2. /\ Len(r.events) = Len(s.events) - 1
        /\ \A j \in DOMAIN r.events :
             r.events[j] = IF j < i THEN s.events[j] ELSE s.events[j + 1]
    BY <2>1, EventRemoved
  <2> QED BY <1>1, <2>2
<1>3. /\ c \in Seq(Events) /\ Len(c) = m - 1 /\ DOMAIN r.events = 1..m - 1
      /\ \A j \in DOMAIN r.events : c[j] = r.events[j].event_code
  BY <1>2, PromisedList, EventParts
<1>4. /\ q \in Seq(Events) /\ Len(q) = m - 1
      /\ \A j \in 1..m - 1 : q[j] = IF j < i THEN p[j] ELSE p[j + 1]
  BY <1>1, ListRemoved
<1> HIDE DEF p, c, q, m
<1>5. \A j \in 1..m - 1 : j \in 1..m /\ j + 1 \in 1..m
  BY <1>1
<1>6. ASSUME NEW j \in 1..m - 1 PROVE c[j] = q[j]
  <2>1. r.events[j] = (IF j < i THEN s.events[j] ELSE s.events[j + 1])
    BY <1>2, <1>3
  <2>2. p[j] = s.events[j].event_code /\ p[j + 1] = s.events[j + 1].event_code
    BY <1>1, <1>5
  <2>3. q[j] = (IF j < i THEN p[j] ELSE p[j + 1]) /\ c[j] = r.events[j].event_code
    BY <1>3, <1>4
  <2> QED BY <2>1, <2>2, <2>3
<1>7. \A j \in 1..Len(c) : c[j] = q[j]
  BY <1>3, <1>6
<1>8. c = q
  BY <1>3, <1>4, <1>7, SameLists
<1> QED BY <1>8 DEF p, c, q

\* What a call of PAPI_remove_event does: the event is not there, or it goes, with
\* its overflow.
LEMMA RemoveStep ==
  ASSUME StateInv(esi), NEW c \in Events, RemoveEvent(c)
  PROVE  \/ esi' = esi /\ result' = "PAPI_EINVAL" /\ c \notin CodeSet(esi)
         \/ /\ result' = "PAPI_OK" /\ StateInv(esi') /\ c \in CodeSet(esi)
            /\ \E i \in DOMAIN esi.events : /\ esi.events[i].event_code = c
                                            /\ Codes(esi') = RemoveAt(Codes(esi), i)
            /\ CodeSet(esi') = CodeSet(esi) \ {c}
            /\ Len(esi'.events) = Len(esi.events) - 1
            /\ esi'.overflow = IF esi.overflow = c THEN NoEvent ELSE esi.overflow
            /\ TidyInv(esi) /\ (AllRight(esi) \/ esi.overflow # c) => TidyInv(esi')
<1>1. CASE Indices(c) = {}
  <2>1. esi' = esi /\ result' = "PAPI_EINVAL"
    BY <1>1 DEF RemoveEvent, Return
  <2> QED BY <1>1, <2>1, Lookup
<1>2. CASE Indices(c) # {}
  <2> DEFINE i == Min(Indices(c))
             s == IF esi.overflow = c THEN TurnOff(esi) ELSE esi
             r == RemoveAtIndex(s, i)
  <2>1. esi' = r /\ result' = "PAPI_OK"
    BY <1>2 DEF RemoveEvent, Return
  <2>2. c \in CodeSet(esi) /\ i \in DOMAIN esi.events /\ esi.events[i].event_code = c
    BY <1>2, Lookup
  <2>3. /\ StateInv(s) /\ SameCodes(esi, s)
        /\ s.overflow = (IF esi.overflow = c THEN NoEvent ELSE esi.overflow)
        /\ TidyInv(esi) /\ (AllRight(esi) \/ esi.overflow # c) => TidyInv(s)
    <3>1. CASE esi.overflow = c
      BY <3>1, TurnedOff
    <3>2. CASE esi.overflow # c
      <4>1. SameCodes(esi, esi)
        BY DEF SameCodes
      <4> QED BY <3>2, <4>1
    <3> QED BY <3>1, <3>2
  <2> HIDE DEF i, s
  <2>4. esi \in Structs /\ s \in Structs /\ EventsInv(s)
    BY <2>3 DEF StateInv, Core
  <2>5. CodeSet(s) = CodeSet(esi) /\ Codes(s) = Codes(esi) /\ DOMAIN s.events = DOMAIN esi.events
    BY <2>3, <2>4, CodesSame
  <2>6. i \in DOMAIN s.events /\ s.events[i].event_code = c
    BY <2>2, <2>3, <2>5 DEF SameCodes
  <2>7. s.overflow # c
    BY <2>3
  <2>8. /\ StateInv(r) /\ r.overflow = s.overflow /\ r.events = RemoveAt(s.events, i)
        /\ TidyInv(s) => TidyInv(r)
    BY <2>3, <2>6, <2>7, EventLeaves
  <2> HIDE DEF r
  <2>9. r \in Structs
    BY <2>8 DEF StateInv, Core
  <2>10. CodeSet(r) = CodeSet(s) \ {c} /\ Len(r.events) = Len(s.events) - 1
    BY <2>4, <2>6, <2>8, <2>9, CodesLeft
  <2>11. Codes(r) = RemoveAt(Codes(s), i)
    BY <2>4, <2>6, <2>8, <2>9, CodesRemoved
  <2>12. Len(s.events) = Len(esi.events)
    BY <2>3 DEF SameCodes
  <2> QED BY <2>1, <2>2, <2>3, <2>5, <2>8, <2>10, <2>11, <2>12
<1> QED BY <1>1, <1>2

\* What PAPI_cleanup_eventset does.
LEMMA CleanupStep ==
  ASSUME StateInv(esi), Cleanup
  PROVE  /\ result' = "PAPI_OK" /\ StateInv(esi') /\ esi'.events = <<>>
         /\ esi'.overflow = NoEvent
         /\ TidyInv(esi) /\ (AllRight(esi) \/ esi.overflow = NoEvent) => TidyInv(esi')
<1> DEFINE s == TurnOff(esi)
           r == FoldLeft(RemoveAtIndex, s, Reverse([i \in DOMAIN esi.events |-> i]))
<1>1. esi' = r /\ result' = "PAPI_OK"
  BY DEF Cleanup, Return
<1>2. /\ StateInv(s) /\ s.overflow = NoEvent /\ SameCodes(esi, s)
      /\ TidyInv(esi) /\ AllRight(esi) => TidyInv(s)
  BY TurnedOff
<1>3. esi.overflow = NoEvent => s = esi
  BY DEF TurnOff
<1> HIDE DEF s
<1>4. DOMAIN s.events = DOMAIN esi.events
  <2>1. esi \in Structs /\ s \in Structs
    BY <1>2 DEF StateInv, Core
  <2> QED BY <1>2, <2>1, CodesSame
<1>5. r = FoldLeft(RemoveAtIndex, s, Reverse([i \in DOMAIN s.events |-> i]))
  BY <1>4
<1> HIDE DEF r
<1>6. /\ StateInv(r) /\ r.overflow = NoEvent /\ r.events = <<>>
      /\ TidyInv(s) => TidyInv(r)
  BY <1>2, <1>5, AllLeave
<1> QED BY <1>1, <1>2, <1>3, <1>6

\* What PAPI_overflow with a threshold does.
LEMMA SetOverflowStep ==
  ASSUME StateInv(esi), NEW c \in Events, SetOverflow(c)
  PROVE  \/ esi' = esi /\ result' = "PAPI_ENOEVNT" /\ c \notin CodeSet(esi)
         \/ esi' = esi /\ result' = "PAPI_EINVAL" /\ c \in CodeSet(esi)
         \/ /\ result' = "PAPI_OK" /\ c \in CodeSet(esi) /\ Len(Terms[c]) = 1
            /\ StateInv(esi') /\ SameCodes(esi, esi') /\ esi'.NativeCount = esi.NativeCount
            /\ esi.overflow = NoEvent /\ esi'.overflow = c
            /\ TidyInv(esi) /\ AllRight(esi) => TidyInv(esi') /\ AllRight(esi')
<1>1. esi.overflow = NoEvent
  BY DEF SetOverflow
<1>2. CASE Indices(c) = {}
  <2>1. esi' = esi /\ result' = "PAPI_ENOEVNT"
    BY <1>2 DEF SetOverflow, Return
  <2> QED BY <1>2, <2>1, Lookup
<1>3. CASE Indices(c) # {} /\ Len(Terms[c]) > 1
  <2>1. esi' = esi /\ result' = "PAPI_EINVAL"
    BY <1>3 DEF SetOverflow, Return
  <2> QED BY <1>3, <2>1, Lookup
<1>4. CASE Indices(c) # {} /\ ~ (Len(Terms[c]) > 1)
  <2> DEFINE i == Min(Indices(c))
             r == [Enable(esi, esi.events[i].pos[1]) EXCEPT !.overflow = c]
  <2>1. esi' = r /\ result' = "PAPI_OK"
    BY <1>4 DEF SetOverflow, Return
  <2>2. c \in CodeSet(esi) /\ i \in DOMAIN esi.events /\ c = esi.events[i].event_code
    BY <1>4, Lookup
  <2>3. Len(Terms[c]) = 1
    <3>1. Terms[c] \in Seq(Natives) /\ Terms[c] # <<>>
      OBVIOUS
    <3> DEFINE n == Len(Terms[c])
    <3>2. n \in Nat /\ n # 0 /\ ~ (n > 1)
      BY <1>4, <3>1
    <3> HIDE DEF n
    <3>3. n = 1
      BY <3>2
    <3> QED BY <3>3 DEF n
  <2> HIDE DEF i
  <2>4. /\ StateInv(r) /\ r.overflow = c /\ SameCodes(esi, r)
        /\ r.NativeCount = esi.NativeCount
        /\ TidyInv(esi) /\ AllRight(esi) => TidyInv(r) /\ AllRight(r)
    <3> DEFINE d == esi.events[i].event_code
               q == [Enable(esi, esi.events[i].pos[1]) EXCEPT !.overflow = d]
    <3>1. Len(Terms[d]) = 1
      BY <2>2, <2>3
    <3>2. /\ StateInv(q) /\ q.overflow = d /\ SameCodes(esi, q)
          /\ q.NativeCount = esi.NativeCount
          /\ TidyInv(esi) /\ AllRight(esi) => TidyInv(q) /\ AllRight(q)
      <4> HIDE DEF q
      <4> QED BY <1>1, <2>2, <3>1, TurnedOn DEF q
    <3>3. q = r
      BY <2>2
    <3> HIDE DEF q, r
    <3> QED BY <2>2, <3>2, <3>3
  <2> HIDE DEF r
  <2> QED BY <1>1, <2>1, <2>2, <2>3, <2>4
<1> QED BY <1>2, <1>3, <1>4

\* What PAPI_overflow with threshold 0 does.
LEMMA ClearOverflowStep ==
  ASSUME StateInv(esi), NEW c \in Events, ClearOverflow(c)
  PROVE  \/ esi' = esi /\ result' = "PAPI_ENOEVNT" /\ c \notin CodeSet(esi)
         \/ esi' = esi /\ result' = "PAPI_EINVAL" /\ c \in CodeSet(esi)
         \/ /\ result' = "PAPI_OK"
            /\ StateInv(esi') /\ SameCodes(esi, esi') /\ esi'.NativeCount = esi.NativeCount
            /\ esi.overflow # NoEvent /\ esi'.overflow = NoEvent
            /\ TidyInv(esi) /\ AllRight(esi) => TidyInv(esi') /\ AllRight(esi')
<1>1. CASE Indices(c) = {}
  <2>1. esi' = esi /\ result' = "PAPI_ENOEVNT"
    BY <1>1 DEF ClearOverflow, Return
  <2> QED BY <1>1, <2>1, Lookup
<1>2. CASE Indices(c) # {} /\ esi.overflow # c
  <2>1. esi' = esi /\ result' = "PAPI_EINVAL"
    BY <1>2 DEF ClearOverflow, Return
  <2> QED BY <1>2, <2>1, Lookup
<1>3. CASE Indices(c) # {} /\ esi.overflow = c
  <2> DEFINE r == TurnOff(esi)
  <2>1. esi' = r /\ result' = "PAPI_OK"
    BY <1>3 DEF ClearOverflow, Return
  <2>2. esi.overflow # NoEvent
    BY <1>3
  <2>3. /\ StateInv(r) /\ r.overflow = NoEvent /\ SameCodes(esi, r)
        /\ r.NativeCount = esi.NativeCount
        /\ TidyInv(esi) /\ AllRight(esi) => TidyInv(r) /\ AllRight(r)
    BY TurnedOff
  <2> HIDE DEF r
  <2> QED BY <2>1, <2>2, <2>3
<1> QED BY <1>1, <1>2, <1>3
-----------------------------------------------------------------------------
(* The invariant.                                                          *)

Results == {"PAPI_OK", "PAPI_ECNFLCT", "PAPI_EINVAL", "PAPI_ENOEVNT"}

\* The structure is sound, what it holds can be counted, and the last call
\* returned one of the codes.
IInv == StateInv(esi) /\ CountInv(esi) /\ result \in Results

\* A new set is sound.
LEMMA Start ==
  ASSUME Init
  PROVE  IInv
<1>1. /\ esi.events = <<>> /\ esi.native = [k \in Slots |-> Empty]
      /\ esi.NativeCount = 0 /\ esi.evntsel = [k \in Slots |-> {}]
      /\ esi.enabled = {} /\ esi.nractrs = 0 /\ esi.nrictrs = 0
      /\ esi.overflow = NoEvent /\ result = "PAPI_OK"
  BY DEF Init
<1>2. esi \in Structs
  <2>1. <<>> \in EventLists
    BY DEF EventLists
  <2>2. [k \in Slots |-> Empty] \in Tables
    BY EmptyEntry DEF Tables
  <2>3. 0 \in Counts /\ 0 \in Interrupts /\ {} \in Registers /\ NoEvent \in Overflows
        /\ [k \in Slots |-> {}] \in Selects
    BY DEF Counts, Interrupts, Registers, Overflows, Selects
  <2> QED BY <2>1, <2>2, <2>3 DEF Init, Structs
<1>3. CodeSet(esi) = {} /\ NativesOf(CodeSet(esi)) = {}
  <2>1. CodeSet(esi) = {}
    BY <1>1 DEF CodeSet
  <2> QED BY <2>1 DEF NativesOf
<1>4. NativesInv(esi)
  <2>1. Dense(esi.native, 0)
    BY <1>1 DEF Dense
  <2>2. \A k \in 0..0 - 1 : FALSE
    OBVIOUS
  <2>3. Table(esi.native, 0, CodeSet(esi))
    BY <1>3, <2>1, <2>2 DEF Table
  <2> QED BY <1>1, <2>3 DEF NativesInv
<1>5. EventsInv(esi)
  <2>1. DOMAIN esi.events = {} /\ Len(esi.events) = 0
    BY <1>1
  <2> QED BY <2>1 DEF EventsInv
<1>6. RegInv(esi) /\ OverInv(esi)
  <2>1. \A k \in 0..0 - 1 : FALSE
    OBVIOUS
  <2> QED BY <1>1, <2>1 DEF RegInv, OverInv
<1>7. Allocatable({})
  <2> DEFINE f == [n \in {} |-> 0]
  <2>1. f \in [{} -> Slots] /\ IsInjective(f)
    BY DEF IsInjective
  <2> HIDE DEF f
  <2> QED BY <2>1 DEF Allocatable
<1> QED BY <1>1, <1>2, <1>3, <1>4, <1>5, <1>6, <1>7 DEF IInv, StateInv, Core, CountInv, Results

\* What a set with fewer events, or the same, is made of can be counted too.
LEMMA CountLess ==
  ASSUME NEW s, NEW r, CountInv(s), CodeSet(r) \subseteq CodeSet(s)
  PROVE  CountInv(r)
<1>1. NativesOf(CodeSet(r)) \in SUBSET NativesOf(CodeSet(s))
  BY DEF NativesOf
<1> QED BY <1>1, AllocatableLess DEF CountInv

\* What a step does to the events of the set: nothing, one more, one less, none
\* left, or the overflow of one of them turned on or off; and what it does to a
\* tidy set.
Stays == esi' = esi /\ (result' = result \/ result' \in Results \ {"PAPI_OK"})
StillTidy == TidyInv(esi) /\ (AllRight(esi) \/ esi'.overflow = esi.overflow)
               => TidyInv(esi')
Joins(c) == /\ result' = "PAPI_OK" /\ StateInv(esi') /\ CountInv(esi')
            /\ Longer(esi, esi', c) /\ esi'.overflow = esi.overflow
            /\ (IF esi'.NativeCount > esi.NativeCount THEN Cleared(esi) ELSE AllRight(esi))
                 => AllRight(esi')
            /\ StillTidy
Goes == /\ result' = "PAPI_OK" /\ StateInv(esi') /\ CountInv(esi')
        /\ Len(esi'.events) = Len(esi.events) - 1
        /\ StillTidy
Empties == /\ result' = "PAPI_OK" /\ StateInv(esi') /\ CountInv(esi')
           /\ esi'.events = <<>>
           /\ StillTidy
Switches == /\ result' = "PAPI_OK" /\ StateInv(esi') /\ CountInv(esi')
            /\ SameCodes(esi, esi') /\ esi'.overflow # esi.overflow
            /\ TidyInv(esi) /\ AllRight(esi) => TidyInv(esi') /\ AllRight(esi')

\* Every step is one of these.
LEMMA Kinds ==
  ASSUME IInv, [Next]_vars
  PROVE  Stays \/ Goes \/ Empties \/ Switches \/ \E c \in Events : Joins(c)
<1>1. StateInv(esi) /\ CountInv(esi) /\ esi \in Structs
  BY DEF IInv, StateInv, Core
<1>2. ASSUME NEW c \in Events, AddEvent(c) PROVE Stays \/ Joins(c)
  <2>1. CASE esi' = esi /\ result' = "PAPI_ECNFLCT"
    BY <2>1 DEF Stays, Results
  <2>2. CASE ~ (esi' = esi /\ result' = "PAPI_ECNFLCT")
    <3>1. /\ result' = "PAPI_OK" /\ StateInv(esi') /\ Longer(esi, esi', c)
          /\ esi'.overflow = esi.overflow
          /\ (IF esi'.NativeCount > esi.NativeCount THEN Cleared(esi) ELSE AllRight(esi))
               => AllRight(esi')
          /\ TidyInv(esi) => TidyInv(esi')
          /\ \/ Allocatable(NativesOf(CodeSet(esi')))
             \/ NativesOf(CodeSet(esi')) = NativesOf(CodeSet(esi))
      BY <1>1, <1>2, <2>2, AddStep
    <3>2. CountInv(esi')
      BY <1>1, <3>1 DEF CountInv
    <3> QED BY <3>1, <3>2 DEF Joins, StillTidy
  <2> QED BY <2>1, <2>2
<1>3. ASSUME NEW c \in Events, RemoveEvent(c)
      PROVE  Stays \/ Goes
  <2>1. CASE esi' = esi /\ result' = "PAPI_EINVAL"
    BY <2>1 DEF Stays, Results
  <2>2. CASE ~ (esi' = esi /\ result' = "PAPI_EINVAL")
    <3>1. /\ result' = "PAPI_OK" /\ StateInv(esi')
          /\ CodeSet(esi') = CodeSet(esi) \ {c}
          /\ Len(esi'.events) = Len(esi.events) - 1
          /\ esi'.overflow = (IF esi.overflow = c THEN NoEvent ELSE esi.overflow)
          /\ TidyInv(esi) /\ (AllRight(esi) \/ esi.overflow # c) => TidyInv(esi')
      BY <1>1, <1>3, <2>2, RemoveStep
    <3>2. CountInv(esi')
      BY <1>1, <3>1, CountLess
    <3>3. esi'.overflow = esi.overflow => esi.overflow # c
      BY <3>1
    <3> QED BY <3>1, <3>2, <3>3 DEF Goes, StillTidy
  <2> QED BY <2>1, <2>2
<1>4. ASSUME Cleanup PROVE Empties
  <2>1. /\ result' = "PAPI_OK" /\ StateInv(esi') /\ esi'.events = <<>>
        /\ esi'.overflow = NoEvent
        /\ TidyInv(esi) /\ (AllRight(esi) \/ esi.overflow = NoEvent) => TidyInv(esi')
    BY <1>1, <1>4, CleanupStep
  <2>2. CodeSet(esi') = {}
    BY <2>1 DEF CodeSet
  <2>3. CountInv(esi')
    BY <1>1, <2>2, CountLess
  <2> QED BY <2>1, <2>3 DEF Empties, StillTidy
<1>5. ASSUME NEW c \in Events, SetOverflow(c) \/ ClearOverflow(c) PROVE Stays \/ Switches
  <2> DEFINE moved == /\ result' = "PAPI_OK" /\ StateInv(esi') /\ SameCodes(esi, esi')
                      /\ esi'.overflow # esi.overflow
                      /\ TidyInv(esi) /\ AllRight(esi) => TidyInv(esi') /\ AllRight(esi')
  <2>1. \/ esi' = esi /\ result' = "PAPI_ENOEVNT"
        \/ esi' = esi /\ result' = "PAPI_EINVAL"
        \/ moved
    <3>1. CASE SetOverflow(c)
      BY <1>1, <3>1, SetOverflowStep
    <3>2. CASE ClearOverflow(c)
      BY <1>1, <3>2, ClearOverflowStep
    <3> QED BY <1>5, <3>1, <3>2
  <2>2. CASE esi' = esi /\ result' \in {"PAPI_ENOEVNT", "PAPI_EINVAL"}
    BY <2>2 DEF Stays, Results
  <2>3. CASE moved
    <3>1. esi' \in Structs
      BY <2>3 DEF StateInv, Core
    <3>2. CodeSet(esi') = CodeSet(esi)
      BY <1>1, <2>3, <3>1, CodesSame
    <3>3. CountInv(esi')
      BY <1>1, <3>2, CountLess
    <3> QED BY <2>3, <3>3 DEF Switches
  <2> QED BY <2>1, <2>2, <2>3
<1>6. CASE Next
  <2>1. \/ \E c \in Events : \/ AddEvent(c) \/ RemoveEvent(c)
                               \/ SetOverflow(c) \/ ClearOverflow(c)
        \/ Cleanup
    BY <1>6 DEF Next
  <2> QED BY <1>2, <1>3, <1>4, <1>5, <2>1
<1>7. CASE UNCHANGED vars
  BY <1>7 DEF vars, Stays
<1> QED BY <1>6, <1>7

\* Every step keeps the invariant.
LEMMA Inductive ==
  ASSUME IInv, [Next]_vars
  PROVE  IInv'
<1>1. StateInv(esi) /\ CountInv(esi) /\ result \in Results
  BY DEF IInv
<1>2. StateInv(esi') /\ CountInv(esi') /\ result' \in Results
  <2>1. CASE Stays
    BY <1>1, <2>1 DEF Stays
  <2>2. CASE ~ Stays
    <3>1. result' = "PAPI_OK" /\ StateInv(esi') /\ CountInv(esi')
      BY <2>2, Kinds DEF Empties, Joins, Switches, Goes
    <3> QED BY <3>1 DEF Results
  <2> QED BY <2>1, <2>2
<1> QED BY <1>2 DEF IInv

LEMMA Invariant == Spec => []IInv
<1>1. Init => IInv
  BY Start
<1>2. IInv /\ [Next]_vars => IInv'
  BY Inductive
<1> QED BY <1>1, <1>2, PTL DEF Spec
-----------------------------------------------------------------------------
(* What the EventSet promises.                                             *)

\* Every call leaves the structure well formed: counts within the number of
\* counters, events with positions that are registers or -1, and nrictrs at most
\* one too low, however often an overflow was turned on and off in a set that
\* removals left wrong.
THEOREM WellFormed == Spec => []TypeOK
<1>1. IInv => TypeOK
  <2> SUFFICES ASSUME IInv PROVE TypeOK
    OBVIOUS
  <2>1. esi \in Structs /\ result \in Results
    BY DEF IInv, StateInv, Core
  <2>2. /\ esi.events \in EventLists /\ esi.native \in Tables /\ esi.NativeCount \in Counts
        /\ esi.evntsel \in Selects /\ esi.enabled \in Registers /\ esi.nractrs \in Counts
        /\ esi.nrictrs \in Interrupts /\ esi.overflow \in Overflows
    BY <2>1, StructParts
  <2> QED
    BY <2>1, <2>2 DEF TypeOK, EventLists, EventRecs, Tables, Entries, Counts, Selects,
       Registers, Overflows, Results, Interrupts
<1> QED BY <1>1, Invariant, PTL

\* An error leaves no trace: when add_native_events fails at the second or third
\* native event of a preset, what it took for the first is given back exactly.
THEOREM FailureIsClean == Spec => FailureLeavesNoTrace
<1>1. IInv /\ [Next]_vars => [result' # "PAPI_OK" => UNCHANGED esi]_vars
  BY Kinds DEF Stays, Joins, Switches, Goes, Empties
<1> QED BY <1>1, Invariant, PTL DEF Spec, FailureLeavesNoTrace

\* Clean and Tidy in the words of the invariant.
CleanOf(s) == \A k \in Slots \ Programmed(s) : s.evntsel[k] = {} /\ k \notin s.enabled
LastOf(s) ==
  /\ s.enabled = s.nractrs..s.nractrs + s.nrictrs - 1
  /\ s.enabled # {} =>
       \E i \in DOMAIN s.events : /\ s.events[i].event_code = s.overflow
                                  /\ ToSet(s.events[i].pos) = s.enabled

LEMMA CleanIs ==
  ASSUME NEW s, StateInv(s)
  PROVE  CleanOf(s) <=> Cleared(s)
<1>1. s.NativeCount \in Counts /\ Programmed(s) = 0..s.NativeCount - 1
  BY CoreParts DEF StateInv
<1>2. \A k \in Slots : k \notin Programmed(s) <=> k >= s.NativeCount
  BY <1>1 DEF Counts
<1> QED BY <1>2 DEF CleanOf, Cleared

LEMMA TidyIs ==
  ASSUME NEW s, StateInv(s)
  PROVE  CleanOf(s) /\ LastOf(s) <=> TidyInv(s)
<1>1. s \in Structs /\ s.nractrs \in Nat /\ s.nrictrs \in {-1, 0, 1} /\ Core(s) /\ OverInv(s)
  BY CoreParts DEF StateInv, Counts, Interrupts
<1>2. LastOf(s) <=> LastOn(s)
  <2>1. CASE s.nrictrs # 1
    <3>1. s.nractrs..s.nractrs + s.nrictrs - 1 = {}
      BY <1>1, <2>1
    <3> QED BY <2>1, <3>1 DEF LastOf, LastOn
  <2>2. CASE s.nrictrs = 1
    <3>1. s.nractrs..s.nractrs + s.nrictrs - 1 = {s.nractrs}
      BY <1>1, <2>2
    <3>2. Len(Terms[s.overflow]) = 1
      BY <1>1, <2>2 DEF OverInv
    <3>3. ASSUME NEW i \in DOMAIN s.events, s.events[i].event_code = s.overflow
          PROVE  ToSet(s.events[i].pos) = {s.nractrs} <=> s.events[i].pos[1] = s.nractrs
      <4> DEFINE p == s.events[i].pos
      <4>1. DOMAIN p = {1}
        BY <1>1, <3>2, <3>3, OnlyRegister
      <4> HIDE DEF p
      <4>2. ToSet(p) = {p[1]}
        BY <4>1 DEF ToSet
      <4>3. {p[1]} = {s.nractrs} <=> p[1] = s.nractrs
        OBVIOUS
      <4> QED BY <4>2, <4>3 DEF p
    <3> DEFINE asked == \E i \in DOMAIN s.events : /\ s.events[i].event_code = s.overflow
                                                   /\ s.events[i].pos[1] = s.nractrs
               last == \E i \in DOMAIN s.events : /\ s.events[i].event_code = s.overflow
                                                  /\ ToSet(s.events[i].pos) = {s.nractrs}
    <3>4. last <=> asked
      BY <3>3
    <3>5. LastOn(s) <=> s.enabled = {s.nractrs} /\ asked
      BY <2>2 DEF LastOn
    <3>6. LastOf(s) <=> s.enabled = {s.nractrs} /\ last
      BY <3>1 DEF LastOf
    <3> QED BY <3>4, <3>5, <3>6
  <2> QED BY <2>1, <2>2
<1> QED BY <1>2, CleanIs DEF TidyInv

\* Whatever is added, fails to be added, or is removed, the registers that
\* interrupt stay the last ones and are the overflowing event's; only turning an
\* overflow on or off in a set that removals left wrong brings them out of place.
THEOREM InterruptingLast == Spec => InterruptsStayLast
<1> DEFINE A == Tidy /\ ~Tidy' => ~EventsReadTheirOwn /\ esi'.overflow # esi.overflow
<1>1. ASSUME IInv, [Next]_vars PROVE A
  <2>1. StateInv(esi) /\ StateInv(esi')
    <3>1. IInv'
      BY <1>1, Inductive
    <3> QED BY <1>1, <3>1 DEF IInv
  <2>2. (Tidy <=> CleanOf(esi) /\ LastOf(esi)) /\ (Tidy' <=> CleanOf(esi') /\ LastOf(esi'))
    BY Zenon DEF Tidy, Clean, InterruptsLast, CleanOf, LastOf, Programmed
  <2>3. (Tidy <=> TidyInv(esi)) /\ (Tidy' <=> TidyInv(esi'))
    BY <2>1, <2>2, TidyIs
  <2>4. EventsReadTheirOwn <=> AllRight(esi)
    BY Zenon DEF EventsReadTheirOwn, ReadsItsOwn, AllRight
  <2>5. CASE StillTidy
    BY <2>3, <2>4, <2>5 DEF StillTidy
  <2>6. CASE Stays
    <3>1. TidyInv(esi) <=> TidyInv(esi')
      BY <2>6 DEF Stays
    <3> QED BY <2>3, <3>1
  <2>7. CASE Switches
    BY <2>3, <2>4, <2>7 DEF Switches
  <2>8. Goes \/ Empties \/ (\E c \in Events : Joins(c)) => StillTidy
    BY DEF Goes, Empties, Joins
  <2> QED BY <1>1, <2>5, <2>6, <2>7, <2>8, Kinds
<1>2. IInv /\ [Next]_vars => [A]_vars
  BY <1>1
<1> QED BY <1>2, Invariant, PTL DEF Spec, InterruptsStayLast

\* After PAPI_add_event has allocated anew, with nothing left behind the counters
\* in use, or has joined a set that was right, every event reads counters that
\* are programmed for its own native events.
THEOREM AddLeavesRight == Spec => AddSetsRight
<1> DEFINE A == /\ Len(esi'.events) > Len(esi.events)
                /\ (IF esi'.NativeCount > esi.NativeCount THEN Clean ELSE EventsReadTheirOwn)
                => EventsReadTheirOwn'
<1>1. ASSUME IInv, [Next]_vars PROVE A
  <2>1. esi \in Structs /\ StateInv(esi) /\ Len(esi.events) \in Nat
    BY <1>1, EventParts DEF IInv, StateInv, Core
  <2>2. Clean <=> Cleared(esi)
    <3>1. Clean <=> CleanOf(esi)
      BY Zenon DEF Clean, CleanOf
    <3> QED BY <2>1, <3>1, CleanIs
  <2>3. /\ EventsReadTheirOwn <=> AllRight(esi)
        /\ EventsReadTheirOwn' <=> AllRight(esi')
    BY Zenon DEF EventsReadTheirOwn, ReadsItsOwn, AllRight, Programmed
  <2> SUFFICES ASSUME Len(esi'.events) > Len(esi.events),
                      IF esi'.NativeCount > esi.NativeCount
                      THEN Cleared(esi) ELSE AllRight(esi)
               PROVE  AllRight(esi')
    BY <2>2, <2>3
  <2>4. CASE Stays
    BY <2>1, <2>4 DEF Stays
  <2>5. CASE Empties
    BY <2>1, <2>5 DEF Empties
  <2>6. CASE \E c \in Events : Joins(c)
    BY <2>6 DEF Joins
  <2>7. CASE Switches
    BY <2>1, <2>7 DEF Switches, SameCodes
  <2>8. CASE Goes
    BY <2>1, <2>8 DEF Goes
  <2> QED BY <1>1, <2>4, <2>5, <2>6, <2>7, <2>8, Kinds
<1>2. IInv /\ [Next]_vars => [A]_vars
  BY <1>1
<1> QED BY <1>2, Invariant, PTL DEF Spec, AddSetsRight

\* Turning an overflow on or off in a set that is right and tidy exchanges
\* registers and leaves every event with counters that count its own native
\* events.
THEOREM SwapsLeaveRight == Spec => OverflowMovesRight
<1> DEFINE A == /\ Tidy /\ EventsReadTheirOwn
                /\ esi'.overflow # esi.overflow /\ Codes(esi') = Codes(esi)
                => EventsReadTheirOwn'
<1>1. ASSUME IInv, [Next]_vars PROVE A
  <2>1. esi \in Structs /\ StateInv(esi) /\ Len(esi.events) \in Nat
    BY <1>1, EventParts DEF IInv, StateInv, Core
  <2>2. Tidy <=> TidyInv(esi)
    <3>1. Tidy <=> CleanOf(esi) /\ LastOf(esi)
      BY Zenon DEF Tidy, Clean, InterruptsLast, CleanOf, LastOf
    <3> QED BY <2>1, <3>1, TidyIs
  <2>3. /\ EventsReadTheirOwn <=> AllRight(esi)
        /\ EventsReadTheirOwn' <=> AllRight(esi')
    BY Zenon DEF EventsReadTheirOwn, ReadsItsOwn, AllRight, Programmed
  <2> SUFFICES ASSUME TidyInv(esi), AllRight(esi), esi'.overflow # esi.overflow,
                      Codes(esi') = Codes(esi)
               PROVE  AllRight(esi')
    BY <2>2, <2>3
  <2>4. ~ Stays
    BY DEF Stays
  <2>5. CASE Empties
    BY <2>5 DEF Empties, AllRight
  <2>6. ~ \E c \in Events : Joins(c)
    BY DEF Joins
  <2>7. CASE Switches
    BY <2>7 DEF Switches
  <2>8. CASE Goes
    <3>1. esi' \in Structs
      BY <2>8 DEF Goes, StateInv, Core
    <3>2. Len(Codes(esi)) = Len(esi.events) /\ Len(Codes(esi')) = Len(esi'.events)
      BY <2>1, <3>1, PromisedList
    <3>3. Len(esi'.events) = Len(esi.events) - 1
      BY <2>8 DEF Goes
    <3> QED BY <2>1, <3>2, <3>3
  <2> QED BY <1>1, <2>4, <2>5, <2>6, <2>7, <2>8, Kinds
<1>2. IInv /\ [Next]_vars => [A]_vars
  BY <1>1
<1> QED BY <1>2, Invariant, PTL DEF Spec, OverflowMovesRight

\* One-to-one functions onto a set, in the words of the cardinality theorems.
LEMMA SameSize ==
  ASSUME NEW S, NEW T, IsFiniteSet(S), NEW f \in [S -> T],
         \A x, y \in S : f[x] = f[y] => x = y,
         \A t \in T : \E x \in S : f[x] = t
  PROVE  Cardinality(T) = Cardinality(S)
<1>1. f \in Bijection(S, T)
  BY DEF Bijection, Injection, Surjection, IsInjective
<1>2. ExistsBijection(S, T)
  BY <1>1 DEF ExistsBijection
<1> QED BY <1>2, FS_Bijection

\* The events made of n, by their places in the set or by their codes.
LEMMA UsersAreMakers ==
  ASSUME NEW s, StateInv(s), NEW n
  PROVE  LET U == {i \in DOMAIN s.events : n \in ToSet(Terms[s.events[i].event_code])}
         IN /\ Cardinality(U) = Cardinality(Makers(CodeSet(s), n))
            /\ U # {} <=> n \in NativesOf(CodeSet(s))
<1> DEFINE U == {i \in DOMAIN s.events : n \in ToSet(Terms[s.events[i].event_code])}
           M == Makers(CodeSet(s), n)
           f == [i \in U |-> s.events[i].event_code]
<1>1. s \in Structs /\ EventsInv(s)
  BY DEF StateInv, Core
<1>2. \A i, j \in DOMAIN s.events : s.events[i].event_code = s.events[j].event_code => i = j
  BY <1>1 DEF EventsInv
<1>3. f \in [U -> M]
  BY DEF Makers, CodeSet
<1>4. \A t \in M : \E i \in U : f[i] = t
  BY DEF Makers, CodeSet
<1>5. \A i, j \in U : f[i] = f[j] => i = j
  BY <1>2
<1>6. IsFiniteSet(U)
  <2>1. Len(s.events) \in Nat /\ DOMAIN s.events = 1..Len(s.events)
    BY <1>1, EventParts
  <2>2. IsFiniteSet(1..Len(s.events))
    BY <2>1, Below
  <2>3. U \in SUBSET (1..Len(s.events))
    BY <2>1
  <2> QED BY <2>2, <2>3, FS_Subset
<1>7. U # {} <=> n \in NativesOf(CodeSet(s))
  <2>1. M # {} <=> n \in NativesOf(CodeSet(s))
    BY DEF NativesOf, Makers
  <2>2. U # {} <=> M # {}
    <3> HIDE DEF U, M, f
    <3> QED BY <1>3, <1>4
  <2> QED BY <2>1, <2>2
<1>8. Cardinality(M) = Cardinality(U)
  <2> HIDE DEF U, M, f
  <2> QED BY <1>3, <1>4, <1>5, <1>6, SameSize
<1> QED BY <1>7, <1>8

\* The native array is exactly what the events need: as many slots in use as the
\* events have different native events, each owned by the events made of it, and
\* nothing behind them, after any sequence of adds, failed adds, removals and
\* compactions.
THEOREM ArrayIsExact == Spec => []OwnersMatch
<1>1. IInv => OwnersMatch
  <2> SUFFICES ASSUME IInv PROVE OwnersMatch
    OBVIOUS
  <2> DEFINE users(n) ==
               {i \in DOMAIN esi.events : n \in ToSet(Terms[esi.events[i].event_code])}
             used == {n \in Natives : users(n) # {}}
             C == CodeSet(esi)
             c == esi.NativeCount
  <2>1. StateInv(esi) /\ esi \in Structs /\ Table(esi.native, c, C)
    BY DEF IInv, StateInv, Core, NativesInv
  <2>2. c \in Counts /\ C \in SUBSET Events /\ 0..c - 1 \subseteq Slots
    BY <2>1, StructParts, EventParts
  <2>3. \A n : /\ Cardinality(users(n)) = Cardinality(Makers(C, n))
               /\ users(n) # {} <=> n \in NativesOf(C)
    BY <2>1, UsersAreMakers
  <2>4. used = NativesOf(C)
    <3>1. \A d \in C : ToSet(Terms[d]) \subseteq Natives
      BY <2>2 DEF ToSet
    <3>2. NativesOf(C) \subseteq Natives
      BY <3>1 DEF NativesOf
    <3> HIDE DEF users, C
    <3> QED BY <2>3, <3>2
  <2> HIDE DEF users, used, C
  <2>5. c = Cardinality(used)
    <3> DEFINE f == [k \in 0..c - 1 |-> esi.native[k].ni_event]
    <3>1. f \in [0..c - 1 -> used]
      BY <2>1, <2>4 DEF Table
    <3>2. \A k, l \in 0..c - 1 : f[k] = f[l] => k = l
      BY <2>1 DEF Table, Dense
    <3>3. \A n \in used : \E k \in 0..c - 1 : f[k] = n
      BY <2>1, <2>4 DEF Table
    <3>4. IsFiniteSet(0..c - 1) /\ Cardinality(0..c - 1) = c
      <4>1. c \in Nat
        BY <2>2 DEF Counts
      <4> HIDE DEF c
      <4> QED BY <4>1, Below
    <3> DEFINE S == 0..c - 1
    <3>5. /\ IsFiniteSet(S) /\ f \in [S -> used]
          /\ \A k, l \in S : f[k] = f[l] => k = l
          /\ \A n \in used : \E k \in S : f[k] = n
      BY <3>1, <3>2, <3>3, <3>4
    <3> HIDE DEF f, S
    <3>6. Cardinality(used) = Cardinality(S)
      BY <3>5, SameSize
    <3> QED BY <3>4, <3>6 DEF S
  <2>6. \A k \in Slots : k >= c => esi.native[k] = Empty
    <3>1. \A k \in Slots : k >= c => k \in c..NumCntrs - 1
      BY <2>2 DEF Counts
    <3> QED BY <2>1, <3>1 DEF Table, Dense
  <2>7. \A n \in used : \E k \in 0..c - 1 :
          esi.native[k].ni_event = n /\ esi.native[k].ni_owners = Cardinality(users(n))
    <3> SUFFICES ASSUME NEW n \in used
                 PROVE  \E k \in 0..c - 1 : /\ esi.native[k].ni_event = n
                                            /\ esi.native[k].ni_owners = Cardinality(users(n))
      OBVIOUS
    <3>1. PICK k \in 0..c - 1 : esi.native[k].ni_event = n
      BY <2>1, <2>4 DEF Table
    <3>2. esi.native[k].ni_owners = Cardinality(Makers(C, n))
      BY <2>1, <3>1 DEF Table
    <3> QED BY <2>3, <3>1, <3>2
  <2> QED BY <2>5, <2>6, <2>7 DEF OwnersMatch, users, used
<1> QED BY <1>1, Invariant, PTL
-----------------------------------------------------------------------------
(* The whole implements EventList.                                         *)

LEMMA PromisedNatives ==
  ASSUME NEW s \in Structs, NEW c \in Events
  PROVE  Promise!NativesOf(Append(Codes(s), c)) = NativesOf(CodeSet(s) \cup {c})
<1> DEFINE p == Codes(s)
           q == Append(p, c)
<1>1. p \in Seq(Events) /\ ToSet(p) = CodeSet(s)
  BY PromisedList
<1> HIDE DEF p
<1>2. ToSet(q) = ToSet(p) \cup {c}
  <2>1. /\ Len(p) \in Nat /\ DOMAIN p = 1..Len(p) /\ DOMAIN q = 1..Len(p) + 1
        /\ \A i \in 1..Len(p) : q[i] = p[i]
        /\ q[Len(p) + 1] = c
    BY <1>1
  <2>2. 1..Len(p) + 1 = (1..Len(p)) \cup {Len(p) + 1}
    BY <2>1
  <2> HIDE DEF q
  <2> QED BY <2>1, <2>2 DEF ToSet
<1> HIDE DEF q
<1>3. Promise!NativesOf(q) = NativesOf(ToSet(q))
  BY DEF Promise!NativesOf, Promise!ToSet, NativesOf, ToSet
<1> QED BY <1>1, <1>2, <1>3 DEF p, q

\* Every call does to the list what EventList says: an event is accepted exactly
\* when it is new, there is room, none of its native events is the one that
\* overflows, and all native events can be counted at once, although add_native_events looks only at free slots first, at the allocator
\* second and, for an event that brings nothing new, at neither.
THEOREM ImplementsEventList == Spec => KeepsPromise
<1>1. Init => Promise!Init
  BY DEF Init, Promise!Init, Codes
<1>2. ASSUME IInv, [Next]_vars
      PROVE  [Promise!Next]_<<Codes(esi), esi.overflow, result>>
  <2>1. StateInv(esi) /\ CountInv(esi) /\ esi \in Structs /\ EventsInv(esi)
    BY <1>2 DEF IInv, StateInv, Core
  <2> DEFINE p == Codes(esi)
  <2>2. p \in Seq(Events) /\ Len(p) = Len(esi.events) /\ DOMAIN p = DOMAIN esi.events
        /\ (\A i \in DOMAIN esi.events : p[i] = esi.events[i].event_code)
        /\ ToSet(p) = CodeSet(esi) /\ DOMAIN p = 1..Len(p) /\ Len(p) \in Nat
    BY <2>1, PromisedList
  <2> HIDE DEF p
  <2>3. ASSUME NEW c \in Events, AddEvent(c)
        PROVE  Promise!Add(c)
    <3> DEFINE q == Append(p, c)
               accepted == /\ c \notin ToSet(p) /\ Len(p) < NumCntrs
                           /\ esi.overflow \notin ToSet(Terms[c])
                           /\ Promise!Countable(Promise!NativesOf(q))
    <3>0. Promise!Add(c) <=> /\ Codes(esi)' = IF accepted THEN q ELSE p
                             /\ result' = IF accepted THEN "PAPI_OK" ELSE "PAPI_ECNFLCT"
                             /\ esi.overflow' = esi.overflow
      BY DEF Promise!Add, Promise!ToSet, ToSet, p
    <3>1. accepted <=> /\ c \notin CodeSet(esi) /\ Len(esi.events) < NumCntrs
                       /\ esi.overflow \notin ToSet(Terms[c])
                       /\ Allocatable(NativesOf(CodeSet(esi) \cup {c}))
      <4>1. Promise!NativesOf(q) = NativesOf(CodeSet(esi) \cup {c})
        BY <2>1, PromisedNatives DEF p
      <4>2. Promise!Countable(NativesOf(CodeSet(esi) \cup {c}))
              <=> Allocatable(NativesOf(CodeSet(esi) \cup {c}))
        BY DEF Promise!Countable, Promise!IsInjective, Allocatable, IsInjective, Slots
      <4> QED BY <2>2, <4>1, <4>2
    <3> HIDE DEF accepted
    <3>2. CASE /\ esi' = esi /\ result' = "PAPI_ECNFLCT"
               /\ \/ c \in CodeSet(esi) \/ ~ (Len(esi.events) < NumCntrs)
                  \/ esi.overflow \in ToSet(Terms[c])
                  \/ ~ Allocatable(NativesOf(CodeSet(esi) \cup {c}))
      <4>1. ~ accepted
        BY <3>1, <3>2
      <4>2. Codes(esi)' = p /\ esi.overflow' = esi.overflow
        BY <3>2 DEF p
      <4> QED BY <3>0, <3>2, <4>1, <4>2
    <3>3. CASE /\ result' = "PAPI_OK" /\ StateInv(esi') /\ Longer(esi, esi', c)
               /\ esi'.overflow = esi.overflow
               /\ c \notin CodeSet(esi) /\ Len(esi.events) < NumCntrs
               /\ esi.overflow \notin ToSet(Terms[c])
               /\ \/ Allocatable(NativesOf(CodeSet(esi')))
                  \/ NativesOf(CodeSet(esi')) = NativesOf(CodeSet(esi))
      <4>1. esi' \in Structs /\ CodeSet(esi') = CodeSet(esi) \cup {c}
        BY <2>1, <3>3, LongerCodes DEF StateInv, Core
      <4>2. accepted
        BY <2>1, <3>1, <3>3, <4>1 DEF CountInv
      <4>3. Codes(esi') = q
        <5> DEFINE r == Codes(esi')
        <5>1. r \in Seq(Events) /\ Len(r) = Len(p) + 1
              /\ (\A i \in 1..Len(p) : r[i] = p[i]) /\ r[Len(p) + 1] = c
          <6>1. r \in Seq(Events) /\ Len(r) = Len(esi'.events)
                /\ DOMAIN r = DOMAIN esi'.events
                /\ (\A i \in DOMAIN esi'.events : r[i] = esi'.events[i].event_code)
            BY <4>1, PromisedList
          <6> HIDE DEF r
          <6>2. DOMAIN r = 1..Len(p) + 1
            BY <2>2, <3>3, <6>1 DEF Longer
          <6>3. Len(r) = Len(p) + 1
            BY <2>2, <3>3, <6>1 DEF Longer
          <6>4. ASSUME NEW i \in 1..Len(p) PROVE r[i] = p[i]
            <7>1. i \in DOMAIN esi.events /\ i \in DOMAIN esi'.events
              BY <2>2, <6>1, <6>2
            <7>2. esi'.events[i].event_code = esi.events[i].event_code
              BY <3>3, <7>1 DEF Longer
            <7> QED BY <2>2, <6>1, <7>1, <7>2
          <6>5. r[Len(p) + 1] = c
            <7>1. Len(p) + 1 \in DOMAIN esi'.events
              BY <2>2, <6>1, <6>2
            <7>2. esi'.events[Len(p) + 1].event_code = c
              BY <2>2, <3>3 DEF Longer
            <7> QED BY <6>1, <7>1, <7>2
          <6> QED BY <6>1, <6>3, <6>4, <6>5
        <5> HIDE DEF r
        <5>2. q \in Seq(Events) /\ Len(q) = Len(p) + 1
              /\ (\A i \in 1..Len(p) : q[i] = p[i]) /\ q[Len(p) + 1] = c
          BY <2>2
        <5> HIDE DEF q
        <5>3. \A i \in 1..Len(p) + 1 : i \in 1..Len(p) \/ i = Len(p) + 1
          BY <2>2
        <5>4. \A i \in 1..Len(r) : r[i] = q[i]
          BY <5>1, <5>2, <5>3
        <5> QED BY <5>1, <5>2, <5>4, SameLists DEF r
      <4>4. Codes(esi)' = q
        BY <4>3 DEF Codes
      <4> QED BY <3>0, <3>3, <4>2, <4>4
    <3> HIDE DEF q
    <3> QED BY <2>1, <2>3, <3>2, <3>3, AddStep
  <2>4. ASSUME NEW c \in Events, RemoveEvent(c)
        PROVE  Promise!Drop(c)
    <3>1. CASE esi' = esi /\ result' = "PAPI_EINVAL" /\ c \notin CodeSet(esi)
      <4>1. Codes(esi)' = p /\ esi.overflow' = esi.overflow /\ c \notin ToSet(p)
        BY <2>2, <3>1 DEF p
      <4> QED BY <3>1, <4>1 DEF Promise!Drop, Promise!ToSet, ToSet, p
    <3>2. CASE /\ result' = "PAPI_OK" /\ c \in CodeSet(esi)
               /\ \E i \in DOMAIN esi.events : /\ esi.events[i].event_code = c
                                               /\ Codes(esi') = RemoveAt(Codes(esi), i)
               /\ esi'.overflow = IF esi.overflow = c THEN NoEvent ELSE esi.overflow
      <4>1. PICK i \in DOMAIN esi.events : /\ esi.events[i].event_code = c
                                           /\ Codes(esi') = RemoveAt(Codes(esi), i)
        BY <3>2
      <4>2. i \in DOMAIN p /\ p[i] = c /\ c \in ToSet(p)
        BY <2>2, <3>2, <4>1
      <4>3. Codes(esi)' = RemoveAt(p, i)
        BY <4>1 DEF Codes, p
      <4>4. c \in Promise!ToSet(p) /\ Codes(esi)' = Promise!RemoveAt(p, i)
        BY <4>2, <4>3 DEF Promise!ToSet, ToSet, Promise!RemoveAt, RemoveAt
      <4>5. esi.overflow' = IF esi.overflow = c THEN NoEvent ELSE esi.overflow
        BY <3>2
      <4> QED BY <3>2, <4>2, <4>4, <4>5 DEF Promise!Drop, p
    <3> QED BY <2>1, <2>4, <3>1, <3>2, RemoveStep
  <2>5. ASSUME NEW c \in Events, SetOverflow(c) \/ ClearOverflow(c)
        PROVE  Promise!TurnOn(c) \/ Promise!TurnOff \/ Promise!OverflowRefused(c)
    <3>1. \/ esi' = esi /\ result' = "PAPI_ENOEVNT" /\ c \notin CodeSet(esi)
          \/ esi' = esi /\ result' = "PAPI_EINVAL" /\ c \in CodeSet(esi)
          \/ /\ result' = "PAPI_OK" /\ StateInv(esi') /\ SameCodes(esi, esi')
             /\ \/ /\ c \in CodeSet(esi) /\ Len(Terms[c]) = 1
                   /\ esi.overflow = NoEvent /\ esi'.overflow = c
                \/ esi.overflow # NoEvent /\ esi'.overflow = NoEvent
      <4>1. CASE SetOverflow(c)
        BY <2>1, <4>1, SetOverflowStep
      <4>2. CASE ClearOverflow(c)
        BY <2>1, <4>2, ClearOverflowStep
      <4> QED BY <2>5, <4>1, <4>2
    <3>2. CASE esi' = esi
      <4>1. result' = IF c \in ToSet(p) THEN "PAPI_EINVAL" ELSE "PAPI_ENOEVNT"
        <5>1. esi'.overflow = esi.overflow
          BY <3>2
        <5>2. c # NoEvent
          OBVIOUS
        <5> QED BY <2>2, <3>1, <5>1, <5>2
      <4>2. Codes(esi)' = p /\ esi.overflow' = esi.overflow
        BY <3>2 DEF p
      <4>3. Promise!OverflowRefused(c)
        BY <4>1, <4>2 DEF Promise!OverflowRefused, Promise!ToSet, ToSet, p
      <4> QED BY <4>3
    <3>3. CASE esi' # esi
      <4>1. Codes(esi)' = Codes(esi)
        <5>1. esi' \in Structs /\ SameCodes(esi, esi')
          BY <3>1, <3>3 DEF StateInv, Core
        <5>2. Codes(esi') = Codes(esi)
          BY <2>1, <5>1, CodesSame
        <5> QED BY <5>2 DEF Codes
      <4>2. c \in CodeSet(esi) => c \in Promise!ToSet(Codes(esi))
        BY <2>2 DEF Promise!ToSet, ToSet, p
      <4> QED BY <3>1, <3>3, <4>1, <4>2 DEF Promise!TurnOn, Promise!TurnOff
    <3> QED BY <3>2, <3>3
  <2>6. ASSUME Cleanup PROVE Promise!Cleanup
    <3>1. result' = "PAPI_OK" /\ esi'.events = <<>> /\ esi'.overflow = NoEvent
      BY <2>1, <2>6, CleanupStep
    <3>2. Codes(esi') = <<>>
      BY <3>1 DEF Codes
    <3> QED BY <3>1, <3>2 DEF Promise!Cleanup
  <2>7. CASE Next
    <3>1. \/ \E c \in Events : \/ AddEvent(c) \/ RemoveEvent(c)
                               \/ SetOverflow(c) \/ ClearOverflow(c)
          \/ Cleanup
      BY <2>7 DEF Next
    <3>2. Promise!Next
      BY <2>3, <2>4, <2>5, <2>6, <3>1 DEF Promise!Next
    <3> QED BY <3>2
  <2>8. CASE UNCHANGED vars
    <3>1. Codes(esi)' = Codes(esi) /\ esi.overflow' = esi.overflow /\ result' = result
      BY <2>8 DEF vars, Codes
    <3> QED BY <3>1
  <2> QED BY <1>2, <2>7, <2>8
<1>3. IInv /\ [Next]_vars => [Promise!Next]_<<Codes(esi), esi.overflow, result>>
  BY <1>2
<1> QED BY <1>1, <1>3, Invariant, PTL DEF Spec, KeepsPromise, Promise!Spec
=============================================================================
