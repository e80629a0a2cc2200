-------------------------- MODULE EventSetMapProofs --------------------------
(***************************************************************************)
(* EventSetMap implements HandleMap, for any threads, EventSets and sizes  *)
(* of the array, and add_EventSet always finds a slot.                     *)
(***************************************************************************)
EXTENDS EventSetMap, FiniteSetTheorems, TLAPS

USE EventSetMapAssumption

\* The steps under INTERNAL_LOCK, the steps with an EventSet that is not in the
\* map, and the steps of a look-up.
Writing == {"expand", "assign", "grow", "search"}
Making == Writing \cup {"add", "discard"}
Reading == {"read_array", "read_slot", "found"}

TypeInv ==
  /\ dataSlotArray \in Nat /\ block \in Nat
  /\ totalSlots \in Nat /\ availSlots \in Int /\ fullSlots \in Int
  /\ slots \in [DOMAIN slots -> Sets \cup {NULL, Junk}]
  /\ allocated \subseteq Sets
  /\ EventSetIndex \in [Sets -> Nat]
  /\ master \in [Sets -> Threads \cup {NoThread}]
  /\ lock \in Threads \cup {NoThread}
  /\ handles \in [Threads -> SUBSET Nat]
  /\ found \in [Threads -> Sets \cup {NULL}]
  /\ pc \in [Threads -> Labels]
  /\ cur \in [Threads -> Sets \cup {NULL}]
  /\ arg \in [Threads -> Nat]
  /\ ptr \in [Threads -> Nat]

\* Only the holder of the lock is at a step under it.
LockInv == \A t \in Threads : pc[t] \in Writing <=> lock = t

\* The array has moved and is not yet in use to its new size.
Growing == \E t \in Threads : pc[t] \in {"assign", "grow"}

SizeInv ==
  /\ totalSlots > 0 /\ totalSlots <= MaxSlots
  /\ Growing => 2 * totalSlots <= MaxSlots
  /\ DOMAIN slots = 0..(IF Growing THEN 2 * totalSlots ELSE totalSlots) - 1
  /\ \A i \in DOMAIN slots : slots[i] = Junk <=> i >= totalSlots

TableInv ==
  \A i \in InUse :
    /\ slots[i] \in allocated
    /\ EventSetIndex[slots[i]] = i
    /\ master[slots[i]] \in Threads

\* An EventSet that is not in the map yet belongs to one call.
MakeInv ==
  \A t \in Threads : pc[t] \in Making =>
    /\ cur[t] \in allocated
    /\ \A i \in InUse : slots[i] # cur[t]
    /\ \A u \in Threads : u # t /\ pc[u] \in Making => cur[u] # cur[t]

\* An EventSet in the map whose handle was not returned yet.
CreatedInv ==
  \A t \in Threads : pc[t] = "created" =>
    /\ cur[t] \in Sets
    /\ EventSetIndex[cur[t]] \in InUse
    /\ slots[EventSetIndex[cur[t]]] = cur[t]
    /\ master[cur[t]] = t
    /\ EventSetIndex[cur[t]] \notin handles[t]

HandleInv ==
  \A t \in Threads : \A h \in handles[t] : h \in InUse /\ master[slots[h]] = t

\* A look-up under way is of a handle in use, and so is the slot to be cleared.
ReadInv ==
  \A t \in Threads :
    /\ pc[t] \in Reading => arg[t] \in handles[t]
    /\ pc[t] = "found" => found[t] = slots[arg[t]]

EraseInv ==
  \A t \in Threads : pc[t] = "erase" =>
    /\ arg[t] \in DOMAIN slots /\ slots[arg[t]] \in Sets
    /\ \A u \in Threads : u # t /\ pc[u] = "erase" => arg[u] # arg[t]

MapInv == /\ TypeInv /\ LockInv /\ SizeInv /\ TableInv /\ MakeInv
          /\ CreatedInv /\ HandleInv /\ ReadInv /\ EraseInv

\* The counts agree with the array, and a creation has a free slot by the time it
\* looks for one.
CountInv ==
  /\ availSlots = Cardinality(FreeSlots)
  /\ fullSlots = totalSlots - availSlots
  /\ \A t \in Threads :
       /\ pc[t] \in {"expand", "assign", "grow"} => availSlots = 0
       /\ pc[t] = "search" => availSlots # 0

\* The inductive invariant.
IInv == MapInv /\ CountInv

LEMMA InitMapInv == Init => MapInv
BY DEF Init, MapInv, TypeInv, LockInv, SizeInv, TableInv, MakeInv, CreatedInv,
       HandleInv, ReadInv, EraseInv, Growing, InUse, Erasing, Labels, Writing,
       Making, Reading

\* A step of thread t that leaves alone the other threads, the EventSets and the
\* slots they are in.
Steady(t) ==
  /\ \A u \in Threads : u # t =>
       pc'[u] = pc[u] /\ cur'[u] = cur[u] /\ arg'[u] = arg[u] /\ found'[u] = found[u]
  /\ UNCHANGED <<EventSetIndex, master, handles, allocated>>
  /\ \A i \in DOMAIN slots : slots[i] \in Sets =>
       i \in DOMAIN slots' /\ slots'[i] = slots[i]
  /\ \A i \in DOMAIN slots' : slots'[i] \in Sets =>
       i \in DOMAIN slots /\ slots'[i] = slots[i]
  /\ pc[t] # "erase" /\ pc'[t] # "erase" /\ pc'[t] # "created"
  /\ pc'[t] \in Making => pc[t] \in Making /\ cur'[t] = cur[t]
  /\ pc'[t] \in Reading => arg'[t] \in handles[t]
  /\ pc'[t] = "found" => found'[t] = slots[arg'[t]]

\* The map denotes the same if the same slots are in use and hold the same.
LEMMA SameTable ==
  ASSUME InUse' = InUse,
         \A i \in InUse : slots'[i] = slots[i] /\ master'[slots[i]] = master[slots[i]]
  PROVE  HandleTable' = HandleTable
BY DEF HandleTable

\* Such a step keeps what is said of the handles and the EventSets.
LEMMA SteadyStep ==
  ASSUME MapInv, NEW t \in Threads, Steady(t)
  PROVE  /\ TableInv' /\ MakeInv' /\ CreatedInv' /\ HandleInv' /\ ReadInv' /\ EraseInv'
         /\ HandleTable' = HandleTable
<1> USE DEF MapInv
<1>1. InUse' = InUse
  BY DEF Steady, InUse, Erasing
<1>2. \A i \in InUse : slots'[i] = slots[i] /\ slots[i] \in Sets
  BY DEF Steady, InUse
<1>3. TableInv'
  BY <1>1, <1>2 DEF Steady, TableInv
<1>4. MakeInv'
  BY <1>1, <1>2 DEF Steady, MakeInv
<1>5. CreatedInv'
  BY <1>1, <1>2 DEF Steady, CreatedInv
<1>6. HandleInv'
  BY <1>1, <1>2 DEF Steady, HandleInv
<1>7. ReadInv'
  BY <1>1, <1>2 DEF Steady, ReadInv, HandleInv, Reading
<1>8. EraseInv'
  BY DEF Steady, EraseInv
<1>9. HandleTable' = HandleTable
  BY <1>1, <1>2, SameTable DEF Steady
<1> QED
  BY <1>3, <1>4, <1>5, <1>6, <1>7, <1>8, <1>9

\* A handle lies below the size of the array.
LEMMA HandleBound ==
  ASSUME MapInv, NEW t \in Threads, NEW h \in handles[t]
  PROVE  h \in 0..totalSlots - 1 /\ slots[h] \in Sets /\ EventSetIndex[slots[h]] = h
BY DEF MapInv, TypeInv, SizeInv, HandleInv, TableInv, InUse

\* A step of one thread that neither begins nor ends the growth of the array, and
\* who is at work when the array grows.
LEMMA GrowingKept ==
  ASSUME TypeInv, NEW t \in Threads, NEW l, Goto(t, l),
         pc[t] \in {"assign", "grow"} <=> l \in {"assign", "grow"}
  PROVE  Growing' <=> Growing
BY DEF TypeInv, Goto, Growing

LEMMA GrowingOf ==
  ASSUME MapInv, NEW t \in Threads, pc[t] \in Writing
  PROVE  Growing <=> pc[t] \in {"assign", "grow"}
BY DEF MapInv, TypeInv, LockInv, Writing, Growing

\* Nothing changes in the map when the lock is taken, when realloc fails, and
\* when the map is made to point to the copy.
LEMMA LockSteps ==
  ASSUME MapInv, NEW t \in Threads, LockMap(t) \/ ReallocFails(t) \/ Assign(t)
  PROVE  MapInv' /\ HandleTable' = HandleTable
<1> USE DEF MapInv, Goto, mapVars, heapVars
<1>1. TypeInv'
  BY DEF TypeInv, Labels, LockMap, ReallocFails, Assign
<1>2. LockInv'
  BY DEF TypeInv, LockInv, Writing, LockMap, ReallocFails, Assign
<1>3. Growing' <=> Growing
  <2>1. CASE LockMap(t)
    BY <2>1, GrowingKept DEF LockMap
  <2>2. CASE ReallocFails(t)
    BY <2>2, GrowingKept DEF ReallocFails
  <2>3. CASE Assign(t)
    BY <2>3, GrowingKept DEF Assign
  <2> QED
    BY <2>1, <2>2, <2>3
<1>4. SizeInv'
  BY <1>3 DEF SizeInv, LockMap, ReallocFails, Assign
<1>5. Steady(t)
  BY DEF TypeInv, Steady, Making, Writing, Reading, LockMap, ReallocFails, Assign
<1> QED
  BY <1>1, <1>2, <1>4, <1>5, SteadyStep

\* The copy holds what the array held, and junk behind it; the junk is cleared.
LEMMA GrowSteps ==
  ASSUME MapInv, NEW t \in Threads,
         (\E moves \in BOOLEAN : Realloc(t, moves)) \/ Grow(t)
  PROVE  MapInv' /\ HandleTable' = HandleTable
<1> USE DEF MapInv, Goto, mapVars
<1>1. CASE \E moves \in BOOLEAN : Realloc(t, moves)
  <2>1. ~Growing /\ Growing'
    BY <1>1, GrowingOf DEF TypeInv, Writing, Growing, Realloc
  <2>2. /\ DOMAIN slots' = 0..2 * totalSlots - 1
        /\ \A i \in 0..totalSlots - 1 : i \in DOMAIN slots /\ slots'[i] = slots[i]
        /\ \A i \in totalSlots..2 * totalSlots - 1 : slots'[i] = Junk
        /\ DOMAIN slots = 0..totalSlots - 1
    BY <1>1, <2>1 DEF TypeInv, SizeInv, Realloc
  <2>3. slots' \in [DOMAIN slots' -> Sets \cup {NULL, Junk}]
    <3>1. \A i \in DOMAIN slots : slots[i] \in Sets \cup {NULL, Junk}
      BY DEF TypeInv
    <3>2. ASSUME NEW i \in DOMAIN slots' PROVE slots'[i] \in Sets \cup {NULL, Junk}
      <4>1. i \in 0..totalSlots - 1 \/ i \in totalSlots..2 * totalSlots - 1
        BY <2>2 DEF TypeInv
      <4> QED
        BY <2>2, <3>1, <4>1
    <3>3. slots' = [i \in DOMAIN slots' |-> slots'[i]]
      BY <1>1 DEF Realloc
    <3> QED
      BY <3>2, <3>3
  <2>4. TypeInv'
    <3>1. block' \in Nat
      BY <1>1 DEF TypeInv, Realloc
    <3>2. pc' \in [Threads -> Labels]
      BY <1>1 DEF TypeInv, Labels, Realloc
    <3>3. UNCHANGED <<dataSlotArray, totalSlots, availSlots, fullSlots, allocated,
                      EventSetIndex, master, lock, handles, found, cur, arg, ptr>>
      BY <1>1 DEF Realloc
    <3> QED
      BY <2>3, <3>1, <3>2, <3>3 DEF TypeInv
  <2>5. LockInv'
    BY <1>1 DEF TypeInv, LockInv, Writing, Realloc
  <2>6. SizeInv'
    BY <1>1, <2>1 DEF TypeInv, SizeInv, Realloc
  <2>7. \A i \in DOMAIN slots : i \in DOMAIN slots' /\ slots'[i] = slots[i]
    BY <2>2 DEF TypeInv
  <2>8. ASSUME NEW i \in DOMAIN slots', slots'[i] \in Sets
        PROVE  i \in DOMAIN slots /\ slots'[i] = slots[i]
    <3>1. i \in 0..totalSlots - 1 \/ i \in totalSlots..2 * totalSlots - 1
      BY <2>2 DEF TypeInv
    <3> QED
      BY <2>2, <2>8, <3>1
  <2>9. Steady(t)
    BY <1>1, <2>7, <2>8 DEF TypeInv, Steady, Making, Writing, Reading, Realloc
  <2> QED
    BY <2>4, <2>5, <2>6, <2>9, SteadyStep
<1>2. CASE Grow(t)
  <2>1. TypeInv'
    BY <1>2 DEF TypeInv, Labels, Grow
  <2>2. LockInv'
    BY <1>2 DEF TypeInv, LockInv, Writing, Grow
  <2>3. Growing /\ ~Growing'
    BY <1>2 DEF TypeInv, LockInv, Writing, Growing, Grow
  <2>4. SizeInv'
    BY <1>2, <2>3 DEF TypeInv, SizeInv, Grow
  <2>5. Steady(t)
    BY <1>2, <2>3 DEF TypeInv, SizeInv, Steady, Making, Writing, Reading, Grow
  <2> QED
    BY <2>1, <2>2, <2>4, <2>5, SteadyStep
<1> QED
  BY <1>1, <1>2

\* The steps of a look-up: what it finds is what the slot of its handle holds.
LEMMA LookupSteps ==
  ASSUME MapInv, NEW t \in Threads,
         \/ \E h \in handles[t] : Lookup(t, h)
         \/ ReadArray(t) \/ ReadSlot(t) \/ Found(t)
  PROVE  MapInv' /\ HandleTable' = HandleTable
<1> USE DEF MapInv, Goto, Return, mapVars, heapVars
<1>1. CASE \E h \in handles[t] : Lookup(t, h)
  <2>1. PICK h \in handles[t] : Lookup(t, h)
    BY <1>1
  <2>2. h \in Nat /\ ~(h > totalSlots)
    BY HandleBound DEF TypeInv
  <2>3. /\ pc[t] = "idle" /\ pc' = [pc EXCEPT ![t] = "read_array"]
        /\ arg' = [arg EXCEPT ![t] = h]
        /\ UNCHANGED <<mapVars, heapVars, lock, handles, found, cur, ptr>>
    BY <2>1, <2>2 DEF Lookup
  <2>4. TypeInv'
    BY <2>2, <2>3 DEF TypeInv, Labels
  <2>5. LockInv' /\ SizeInv'
    BY <2>3 DEF TypeInv, LockInv, SizeInv, Growing, Writing
  <2>6. Steady(t)
    BY <2>3 DEF TypeInv, Steady, Making, Writing, Reading
  <2> QED
    BY <2>4, <2>5, <2>6, SteadyStep
<1>2. CASE ReadArray(t) \/ ReadSlot(t) \/ Found(t)
  <2>1. pc[t] \in {"read_array", "read_slot"} => slots[arg[t]] \in Sets
    BY HandleBound DEF ReadInv, Reading
  <2>2. TypeInv'
    BY <1>2, <2>1 DEF TypeInv, Labels, ReadArray, ReadSlot, Found
  <2>3. LockInv'
    BY <1>2 DEF TypeInv, LockInv, Writing, ReadArray, ReadSlot, Found
  <2>4. Growing' <=> Growing
    <3>1. CASE ReadArray(t)
      BY <3>1, GrowingKept DEF ReadArray
    <3>2. CASE ReadSlot(t)
      BY <3>2, GrowingKept DEF ReadSlot
    <3>3. CASE Found(t)
      BY <3>3, GrowingKept DEF Found
    <3> QED
      BY <1>2, <3>1, <3>2, <3>3
  <2>5. SizeInv'
    BY <1>2, <2>4 DEF SizeInv, ReadArray, ReadSlot, Found
  <2>6. Steady(t)
    BY <1>2 DEF TypeInv, Steady, ReadInv, Making, Writing, Reading, ReadArray,
                ReadSlot, Found
  <2> QED
    BY <2>2, <2>3, <2>5, <2>6, SteadyStep
<1> QED
  BY <1>1, <1>2

\* A structure fresh from the heap is in no slot and in no other call.
LEMMA AllocateStep ==
  ASSUME MapInv, NEW t \in Threads, Allocate(t)
  PROVE  MapInv' /\ HandleTable' = HandleTable
<1> USE DEF MapInv, mapVars
<1>1. PICK s \in Sets \ allocated : /\ allocated' = allocated \cup {s}
                                    /\ cur' = [cur EXCEPT ![t] = s]
  BY DEF Allocate
<1>2. /\ pc[t] = "idle" /\ pc' = [pc EXCEPT ![t] = "add"]
      /\ UNCHANGED <<mapVars, block, slots, EventSetIndex, master, lock, handles,
                     found, arg, ptr>>
  BY DEF Allocate, Goto
<1>3. TypeInv'
  BY <1>1, <1>2 DEF TypeInv, Labels
<1>4. LockInv'
  BY <1>2 DEF TypeInv, LockInv, Writing
<1>5. SizeInv'
  BY <1>2, GrowingKept DEF Goto, SizeInv
<1>6. InUse' = InUse
  BY <1>2 DEF TypeInv, InUse, Erasing
<1>7. TableInv' /\ HandleInv'
  BY <1>1, <1>2, <1>6 DEF TableInv, HandleInv
<1>8. MakeInv'
  BY <1>1, <1>2, <1>6 DEF TypeInv, TableInv, MakeInv, Making, Writing
<1>9. CreatedInv' /\ ReadInv' /\ EraseInv'
  BY <1>1, <1>2, <1>6 DEF TypeInv, CreatedInv, ReadInv, EraseInv, Reading
<1>10. HandleTable' = HandleTable
  BY <1>2, <1>6, SameTable
<1> QED
  BY <1>3, <1>4, <1>5, <1>7, <1>8, <1>9, <1>10

\* The slot taken for an EventSet is nobody's, and the EventSet is in no other.
LEMMA TakeSlot ==
  ASSUME MapInv, NEW t \in Threads, AddEventSet(t), FreeSlots # {}
  PROVE  MapInv' /\ Promise!Create(t)
<1> USE DEF MapInv, mapVars, heapVars
<1> DEFINE s == cur[t]
<1>1. PICK i \in FreeSlots :
        /\ master' = [master EXCEPT ![s] = t]
        /\ EventSetIndex' = [EventSetIndex EXCEPT ![s] = i]
        /\ fullSlots' = fullSlots + 1 /\ availSlots' = availSlots - 1
        /\ slots' = [slots EXCEPT ![i] = s]
        /\ pc' = [pc EXCEPT ![t] = "created"]
        /\ UNCHANGED <<dataSlotArray, totalSlots, block, allocated>>
  BY DEF AddEventSet, Goto
<1>2. /\ pc[t] = "search" /\ lock' = NoThread
      /\ UNCHANGED <<handles, found, cur, arg, ptr>>
  BY DEF AddEventSet
<1>3. s \in allocated /\ s \in Sets
      /\ (\A j \in InUse : slots[j] # s)
      /\ (\A u \in Threads : u # t /\ pc[u] \in Making => cur[u] # s)
  BY <1>2 DEF TypeInv, MakeInv, Making, Writing
<1>4. ~Growing
  BY <1>2, GrowingOf DEF Writing
<1>5. i \in Nat /\ i < totalSlots /\ i \in DOMAIN slots /\ slots[i] = NULL
  BY <1>4 DEF TypeInv, SizeInv, FreeSlots
<1>6. /\ i \notin InUse
      /\ \A u \in Threads : pc[u] = "erase" => arg[u] # i
  BY <1>5 DEF InUse, EraseInv
<1>7. InUse' = InUse \cup {i}
  <2>1. \A j : Erasing(j)' <=> Erasing(j)
    BY <1>1, <1>2 DEF TypeInv, Erasing
  <2>2. ~Erasing(i)
    BY <1>6 DEF Erasing
  <2> QED
    BY <1>1, <1>3, <1>5, <2>1, <2>2 DEF TypeInv, InUse
<1>8. \A j \in InUse : slots'[j] = slots[j] /\ EventSetIndex'[slots[j]] = j
                       /\ master'[slots[j]] = master[slots[j]] /\ slots[j] \in Sets
  BY <1>1, <1>3, <1>6 DEF TypeInv, TableInv, InUse
<1>9. slots'[i] = s /\ EventSetIndex'[s] = i /\ master'[s] = t
  BY <1>1, <1>3, <1>5 DEF TypeInv
<1>10. TypeInv'
  <2>1. slots' \in [DOMAIN slots' -> Sets \cup {NULL, Junk}]
    BY <1>1, <1>3, <1>5 DEF TypeInv
  <2> QED
    BY <1>1, <1>2, <1>3, <1>5, <2>1 DEF TypeInv, Labels
<1>11. LockInv'
  BY <1>1, <1>2 DEF TypeInv, LockInv, Writing
<1>12. SizeInv'
  <2>1. ~Growing'
    BY <1>1, <1>2, <1>4, GrowingKept DEF Goto
  <2> QED
    BY <1>1, <1>3, <1>4, <1>5, <2>1 DEF TypeInv, SizeInv
<1>13. TableInv'
  BY <1>1, <1>3, <1>7, <1>8, <1>9 DEF TypeInv, TableInv
<1>14. MakeInv'
  BY <1>1, <1>2, <1>3, <1>7, <1>8, <1>9 DEF TypeInv, MakeInv, Making, Writing
<1>15. CreatedInv'
  <2>1. i \notin handles[t]
    BY <1>6 DEF HandleInv
  <2>2. \A u \in Threads : u # t /\ pc[u] = "created" => cur[u] # s
    BY <1>3 DEF CreatedInv
  <2> QED
    BY <1>1, <1>2, <1>3, <1>7, <1>8, <1>9, <2>1, <2>2 DEF TypeInv, CreatedInv
<1>16. HandleInv'
  BY <1>2, <1>7, <1>8 DEF HandleInv
<1>17. ReadInv'
  BY <1>1, <1>2, <1>8 DEF TypeInv, ReadInv, HandleInv, Reading
<1>18. EraseInv'
  BY <1>1, <1>2, <1>5, <1>6 DEF TypeInv, EraseInv
<1>19. Promise!Create(t)
  <2>1. HandleTable' = HandleTable \cup {Promise!Entry(i, s, t)}
    BY <1>7, <1>8, <1>9 DEF HandleTable, Promise!Entry
  <2>2. \A e \in HandleTable : e.handle # i /\ e.set # s
    BY <1>3, <1>6 DEF HandleTable
  <2>3. i \in 0..MaxSlots
    BY <1>5 DEF TypeInv, SizeInv
  <2> QED
    BY <1>2, <1>3, <2>1, <2>2, <2>3 DEF Promise!Create
<1> QED
  BY <1>10, <1>11, <1>12, <1>13, <1>14, <1>15, <1>16, <1>17, <1>18, <1>19

\* A creation that finds no slot leaves the map as it is.
LEMMA NoSlot ==
  ASSUME MapInv, NEW t \in Threads, AddEventSet(t), FreeSlots = {}
  PROVE  MapInv' /\ UNCHANGED <<HandleTable, found>>
<1> USE DEF MapInv, mapVars, heapVars
<1>1. /\ pc[t] = "search" /\ lock' = NoThread /\ Goto(t, "discard")
      /\ UNCHANGED <<mapVars, heapVars, handles, found, cur, arg, ptr>>
  BY DEF AddEventSet
<1>2. TypeInv'
  BY <1>1 DEF TypeInv, Labels, Goto
<1>3. LockInv'
  BY <1>1 DEF TypeInv, LockInv, Writing, Goto
<1>4. SizeInv'
  BY <1>1, GrowingKept DEF SizeInv
<1>5. Steady(t)
  BY <1>1 DEF TypeInv, Steady, Making, Writing, Reading, Goto
<1> QED
  BY <1>1, <1>2, <1>3, <1>4, <1>5, SteadyStep

\* The handle returned is one that no thread held.
LEMMA CreatedStep ==
  ASSUME MapInv, NEW t \in Threads, Created(t)
  PROVE  MapInv' /\ Promise!Return(t)
<1> USE DEF MapInv, mapVars, heapVars
<1> DEFINE h == EventSetIndex[cur[t]]
<1>1. /\ pc[t] = "created" /\ Return(t)
      /\ handles' = [handles EXCEPT ![t] = @ \cup {h}]
      /\ UNCHANGED <<mapVars, heapVars, lock>>
  BY DEF Created
<1>2. h \in InUse /\ slots[h] = cur[t] /\ master[cur[t]] = t /\ h \in Nat
  BY <1>1 DEF TypeInv, CreatedInv
<1>3. TypeInv'
  BY <1>1, <1>2 DEF TypeInv, Labels, Return, Goto
<1>4. LockInv'
  BY <1>1 DEF TypeInv, LockInv, Writing, Return, Goto
<1>5. SizeInv'
  BY <1>1, GrowingKept DEF SizeInv, Return
<1>6. InUse' = InUse
  BY <1>1 DEF TypeInv, InUse, Erasing, Return, Goto
<1>7. TableInv'
  BY <1>1, <1>6 DEF TableInv
<1>8. MakeInv'
  BY <1>1, <1>6 DEF TypeInv, MakeInv, Making, Writing, Return, Goto
<1>9. CreatedInv'
  BY <1>1, <1>6 DEF TypeInv, CreatedInv, Return, Goto
<1>10. HandleInv'
  BY <1>1, <1>2, <1>6 DEF TypeInv, HandleInv
<1>11. ReadInv' /\ EraseInv'
  BY <1>1 DEF TypeInv, ReadInv, EraseInv, Reading, Return, Goto
<1>12. Promise!Return(t)
  BY <1>1, <1>6, SameTable DEF Return, Promise!Return
<1> QED
  BY <1>3, <1>4, <1>5, <1>7, <1>8, <1>9, <1>10, <1>11, <1>12

\* What is freed because it could not be added is in no slot.
LEMMA DiscardStep ==
  ASSUME MapInv, NEW t \in Threads, Discard(t)
  PROVE  MapInv' /\ Promise!Return(t)
<1> USE DEF MapInv, mapVars
<1> DEFINE s == cur[t]
<1>1. /\ pc[t] = "discard" /\ Return(t) /\ FreeEventSet(s)
      /\ UNCHANGED <<mapVars, block, slots, lock, handles>>
  BY DEF Discard
<1>2. s \in Sets /\ (\A i \in InUse : slots[i] # s)
      /\ (\A u \in Threads : u # t /\ pc[u] \in Making => cur[u] # s)
  BY <1>1 DEF TypeInv, MakeInv, Making
<1>3. TypeInv'
  BY <1>1, <1>2 DEF TypeInv, Labels, Return, Goto, FreeEventSet
<1>4. LockInv'
  BY <1>1 DEF TypeInv, LockInv, Writing, Return, Goto
<1>5. SizeInv'
  BY <1>1, GrowingKept DEF SizeInv, Return
<1>6. InUse' = InUse
  BY <1>1 DEF TypeInv, InUse, Erasing, Return, Goto
<1>7. \A x \in Sets : x # s => /\ EventSetIndex'[x] = EventSetIndex[x]
                               /\ master'[x] = master[x]
                               /\ x \in allocated' <=> x \in allocated
  BY <1>1, <1>2 DEF TypeInv, FreeEventSet
<1>8. \A i \in InUse : slots[i] \in Sets /\ slots[i] # s
  BY <1>2 DEF InUse
<1>9. TableInv' /\ HandleInv'
  BY <1>1, <1>6, <1>7, <1>8 DEF TableInv, HandleInv
<1>10. MakeInv'
  BY <1>1, <1>2, <1>6, <1>7 DEF TypeInv, MakeInv, Making, Writing, Return, Goto
<1>11. CreatedInv'
  BY <1>1, <1>2, <1>6, <1>7 DEF TypeInv, CreatedInv, Return, Goto
<1>12. ReadInv' /\ EraseInv'
  BY <1>1 DEF TypeInv, ReadInv, EraseInv, Reading, Return, Goto
<1>13. Promise!Return(t)
  BY <1>1, <1>6, <1>7, <1>8, SameTable DEF Return, Promise!Return
<1> QED
  BY <1>3, <1>4, <1>5, <1>9, <1>10, <1>11, <1>12, <1>13

\* The EventSet that a handle denotes is freed; its handle is given up, and nobody
\* else is about to clear its slot.
LEMMA FreeStep ==
  ASSUME MapInv, NEW t \in Threads, Free(t)
  PROVE  MapInv' /\ Promise!Destroy(t)
<1> USE DEF MapInv, mapVars
<1> DEFINE s == found[t]
           h == arg[t]
<1>1. /\ pc[t] = "found" /\ FreeEventSet(s) /\ Goto(t, "erase")
      /\ handles' = [handles EXCEPT ![t] = @ \ {h}]
      /\ arg' = [arg EXCEPT ![t] = EventSetIndex[s]]
      /\ UNCHANGED <<mapVars, block, slots, lock, found, cur, ptr>>
  BY DEF Free
<1>2. /\ h \in handles[t] /\ h \in InUse /\ h \in DOMAIN slots /\ h \in Nat
      /\ s \in Sets /\ s = slots[h] /\ master[s] = t /\ EventSetIndex[s] = h
      /\ \A u \in Threads : pc[u] = "erase" => arg[u] # h
  BY <1>1 DEF TypeInv, ReadInv, Reading, HandleInv, TableInv, InUse, Erasing
<1>3. /\ arg'[t] = h /\ pc'[t] = "erase"
      /\ \A u \in Threads : u # t => arg'[u] = arg[u] /\ pc'[u] = pc[u]
  BY <1>1, <1>2 DEF TypeInv, Goto
<1>4. TypeInv'
  BY <1>1, <1>2 DEF TypeInv, Labels, Goto, FreeEventSet
<1>5. LockInv'
  BY <1>1 DEF TypeInv, LockInv, Writing, Goto
<1>6. SizeInv'
  BY <1>1, GrowingKept DEF SizeInv
<1>7. InUse' = InUse \ {h}
  <2>1. \A i : Erasing(i)' <=> Erasing(i) \/ i = h
    BY <1>1, <1>3 DEF Erasing
  <2> QED
    BY <1>1, <2>1 DEF InUse
<1>8. \A x \in Sets : x # s => /\ EventSetIndex'[x] = EventSetIndex[x]
                               /\ master'[x] = master[x]
                               /\ x \in allocated' <=> x \in allocated
  BY <1>1, <1>2 DEF TypeInv, FreeEventSet
<1>9. \A i \in InUse : slots[i] \in Sets /\ (i # h => slots[i] # s)
  BY <1>2 DEF InUse, TableInv
<1>10. TableInv'
  BY <1>1, <1>7, <1>8, <1>9 DEF TableInv
<1>11. \A u \in Threads : u # t /\ pc[u] \in Making =>
         cur[u] # s /\ cur[u] \in Sets
  BY <1>2 DEF MakeInv, TypeInv
<1>12. MakeInv'
  BY <1>1, <1>3, <1>7, <1>8, <1>11 DEF MakeInv, Making, Writing
<1>13. CreatedInv'
  <2>1. \A u \in Threads : u # t /\ pc[u] = "created" =>
          cur[u] \in Sets /\ cur[u] # s /\ EventSetIndex[cur[u]] # h
    BY <1>2 DEF CreatedInv
  <2> QED
    BY <1>1, <1>3, <1>7, <1>8, <2>1 DEF TypeInv, CreatedInv
<1>14. HandleInv'
  <2>1. \A u \in Threads : \A k \in handles'[u] : k \in handles[u] /\ k # h
    BY <1>1, <1>2 DEF TypeInv, HandleInv
  <2> QED
    BY <1>1, <1>7, <1>8, <1>9, <2>1 DEF HandleInv
<1>15. ReadInv'
  BY <1>1, <1>3 DEF TypeInv, ReadInv, Reading
<1>16. EraseInv'
  BY <1>1, <1>2, <1>3 DEF EraseInv
<1>17. Promise!Destroy(t)
  <2> DEFINE e == [handle |-> h, set |-> s, master |-> t]
  <2>1. e \in HandleTable
    BY <1>2 DEF HandleTable
  <2>2. HandleTable' = HandleTable \ {e}
    BY <1>1, <1>2, <1>7, <1>8, <1>9 DEF HandleTable
  <2> QED
    BY <1>1, <2>1, <2>2 DEF Promise!Destroy
<1> QED
  BY <1>4, <1>5, <1>6, <1>10, <1>12, <1>13, <1>14, <1>15, <1>16, <1>17

\* The slot that is cleared was in use no more; nobody is growing the array.
LEMMA EraseStep ==
  ASSUME MapInv, NEW t \in Threads, Erase(t)
  PROVE  MapInv' /\ Promise!Return(t)
<1> USE DEF MapInv
<1> DEFINE h == arg[t]
<1>1. /\ pc[t] = "erase" /\ lock = NoThread /\ Return(t)
      /\ slots' = [slots EXCEPT ![h] = NULL]
      /\ availSlots' = availSlots + 1 /\ fullSlots' = fullSlots - 1
      /\ UNCHANGED <<dataSlotArray, totalSlots, block, allocated, EventSetIndex,
                     master, lock, handles>>
  BY DEF Erase
<1>2. /\ h \in DOMAIN slots /\ slots[h] \in Sets /\ slots'[h] = NULL
      /\ DOMAIN slots' = DOMAIN slots
      /\ \A i \in DOMAIN slots : i # h => slots'[i] = slots[i]
      /\ \A u \in Threads : u # t /\ pc[u] = "erase" => arg[u] # h
  BY <1>1 DEF EraseInv
<1>3. TypeInv'
  <2>1. slots' \in [DOMAIN slots' -> Sets \cup {NULL, Junk}]
    BY <1>1, <1>2 DEF TypeInv
  <2> QED
    BY <1>1, <2>1 DEF TypeInv, Labels, Return, Goto
<1>4. LockInv'
  BY <1>1 DEF TypeInv, LockInv, Writing, Return, Goto
<1>5. SizeInv'
  <2>1. Growing' <=> Growing
    BY <1>1, GrowingKept DEF Return
  <2> QED
    BY <1>1, <1>2, <2>1 DEF TypeInv, SizeInv
<1>6. InUse' = InUse
  <2>1. \A i : i # h => (Erasing(i)' <=> Erasing(i))
    BY <1>1 DEF TypeInv, Erasing, Return, Goto
  <2>2. h \notin InUse /\ h \notin InUse'
    BY <1>1, <1>2 DEF InUse, Erasing
  <2> QED
    BY <1>2, <2>1, <2>2 DEF InUse
<1>7. \A i \in InUse : slots'[i] = slots[i]
  BY <1>1, <1>2 DEF InUse, Erasing
<1>8. TableInv' /\ HandleInv'
  BY <1>1, <1>6, <1>7 DEF TableInv, HandleInv
<1>9. MakeInv'
  BY <1>1, <1>6, <1>7 DEF TypeInv, MakeInv, Making, Writing, Return, Goto
<1>10. CreatedInv'
  BY <1>1, <1>6, <1>7 DEF TypeInv, CreatedInv, Return, Goto
<1>11. ReadInv'
  BY <1>1, <1>7 DEF TypeInv, ReadInv, HandleInv, Reading, Return, Goto
<1>12. EraseInv'
  BY <1>1, <1>2 DEF TypeInv, EraseInv, Return, Goto
<1>13. Promise!Return(t)
  BY <1>1, <1>6, <1>7, SameTable DEF Return, Promise!Return
<1> QED
  BY <1>3, <1>4, <1>5, <1>8, <1>9, <1>10, <1>11, <1>12, <1>13

\* What a look-up finds is what its handle denotes.
LEMMA LookupKeepsPromise ==
  ASSUME MapInv, NEW t \in Threads,
         \/ \E h \in handles[t] : Lookup(t, h)
         \/ ReadArray(t) \/ ReadSlot(t) \/ Found(t)
  PROVE  UNCHANGED <<HandleTable, found>> \/ Promise!Lookup(t) \/ Promise!Return(t)
<1>1. HandleTable' = HandleTable
  BY LookupSteps
<1>2. CASE \E h \in handles[t] : Lookup(t, h)
  <2>1. PICK h \in handles[t] : Lookup(t, h)
    BY <1>2
  <2>2. ~(h > totalSlots)
    BY HandleBound DEF MapInv, TypeInv
  <2> QED
    BY <1>1, <2>1, <2>2 DEF Lookup
<1>3. CASE ReadArray(t)
  BY <1>1, <1>3 DEF ReadArray
<1>4. CASE ReadSlot(t)
  <2> DEFINE h == arg[t]
             e == [handle |-> h, set |-> slots[h], master |-> t]
  <2>1. e \in HandleTable
    BY <1>4 DEF MapInv, ReadInv, Reading, ReadSlot, HandleInv, HandleTable
  <2> QED
    BY <1>1, <1>4, <2>1 DEF ReadSlot, Promise!Lookup
<1>5. CASE Found(t)
  BY <1>1, <1>5 DEF Found, Return, Promise!Return
<1> QED
  BY <1>2, <1>3, <1>4, <1>5

----------------------------------------------------------------------------
\* Who is under the lock sees all other threads outside of it.
LEMMA Alone ==
  ASSUME MapInv, NEW t \in Threads, pc[t] \in Writing \/ lock = NoThread
  PROVE  \A u \in Threads : u # t => pc[u] \notin Writing
BY DEF MapInv, LockInv

\* Free slots are finitely many, and no more than there are slots.
LEMMA FreeSlotsFinite ==
  ASSUME totalSlots \in Nat
  PROVE  /\ IsFiniteSet(FreeSlots) /\ Cardinality(FreeSlots) \in Nat
         /\ Cardinality(FreeSlots) <= totalSlots
<1>1. IsFiniteSet(0..totalSlots - 1) /\ Cardinality(0..totalSlots - 1) = totalSlots
  BY FS_Interval
<1>2. FreeSlots \subseteq 0..totalSlots - 1
  BY DEF FreeSlots
<1> QED
  BY <1>1, <1>2, FS_Subset, FS_CardinalityType

\* Steps that fill, clear and add no slot, and do not hand out the one that a
\* creation is to find, leave the counts right.
LEMMA CountKept ==
  ASSUME IInv, NEW t \in Threads, NEW l, Goto(t, l),
         UNCHANGED <<totalSlots, availSlots, fullSlots>>,
         \A i \in 0..totalSlots - 1 : slots'[i] = NULL <=> slots[i] = NULL,
         l \in {"expand", "assign", "grow"} => availSlots = 0,
         l = "search" => availSlots # 0
  PROVE  CountInv'
<1>1. FreeSlots' = FreeSlots
  BY DEF FreeSlots
<1> QED
  BY <1>1 DEF IInv, MapInv, TypeInv, CountInv, Goto

\* Growth adds the upper half, as the lower is full.
LEMMA CountGrow ==
  ASSUME IInv, NEW t \in Threads, Grow(t)
  PROVE  CountInv'
<1> USE DEF IInv, MapInv, CountInv
<1>1. /\ pc[t] = "grow" /\ pc' = [pc EXCEPT ![t] = "search"]
      /\ slots' = [i \in DOMAIN slots |-> IF i < totalSlots THEN slots[i] ELSE NULL]
      /\ totalSlots' = 2 * totalSlots /\ availSlots' = 2 * totalSlots - fullSlots
      /\ fullSlots' = fullSlots
  BY DEF Grow, Goto
<1>2. availSlots = 0 /\ fullSlots = totalSlots /\ totalSlots \in Nat /\ totalSlots > 0
  BY <1>1 DEF TypeInv, SizeInv
<1>3. FreeSlots = {}
  BY <1>2, FreeSlotsFinite, FS_EmptySet
<1>4. DOMAIN slots = 0..2 * totalSlots - 1
  BY <1>1, GrowingOf DEF SizeInv, Writing
<1>5. FreeSlots' = totalSlots..2 * totalSlots - 1
  <2>1. \A i \in 0..totalSlots - 1 : slots[i] # NULL
    BY <1>3 DEF FreeSlots
  <2>2. ASSUME NEW i \in 0..2 * totalSlots - 1
        PROVE  slots'[i] = NULL <=> i \in totalSlots..2 * totalSlots - 1
    <3>1. slots'[i] = IF i < totalSlots THEN slots[i] ELSE NULL
      BY <1>1, <1>4
    <3>2. CASE i < totalSlots
      BY <1>2, <2>1, <3>1, <3>2
    <3>3. CASE ~(i < totalSlots)
      BY <1>2, <3>1, <3>3
    <3> QED
      BY <3>2, <3>3
  <2>3. FreeSlots' = {i \in 0..2 * totalSlots - 1 : slots'[i] = NULL}
    BY <1>1 DEF FreeSlots
  <2> QED
    BY <1>2, <2>2, <2>3
<1>6. Cardinality(FreeSlots') = totalSlots
  BY <1>2, <1>5, FS_Interval
<1>7. \A u \in Threads : pc'[u] \notin {"expand", "assign", "grow"}
  BY <1>1, Alone DEF TypeInv, Writing
<1>8. availSlots' = Cardinality(FreeSlots') /\ availSlots' # 0
      /\ fullSlots' = totalSlots' - availSlots'
  BY <1>1, <1>2, <1>6
<1> QED
  BY <1>7, <1>8

\* A creation fills one free slot.
LEMMA CountAdd ==
  ASSUME IInv, NEW t \in Threads, AddEventSet(t)
  PROVE  CountInv'
<1> USE DEF IInv, MapInv, CountInv
<1>1. pc[t] = "search" /\ availSlots # 0 /\ totalSlots \in Nat
  BY DEF AddEventSet, TypeInv
<1>2. FreeSlots # {} /\ IsFiniteSet(FreeSlots)
  BY <1>1, FreeSlotsFinite, FS_EmptySet
<1>3. PICK i \in FreeSlots :
        /\ slots' = [slots EXCEPT ![i] = cur[t]]
        /\ fullSlots' = fullSlots + 1 /\ availSlots' = availSlots - 1
        /\ totalSlots' = totalSlots
        /\ pc' = [pc EXCEPT ![t] = "created"]
  BY <1>2 DEF AddEventSet, Goto
<1>4. i \in DOMAIN slots /\ cur[t] # NULL
  <2>1. ~Growing
    BY <1>1, GrowingOf DEF Writing
  <2>2. cur[t] \in Sets
    BY <1>1 DEF TypeInv, MakeInv, Making, Writing
  <2> QED
    BY <2>1, <2>2 DEF SizeInv, FreeSlots
<1>5. FreeSlots' = FreeSlots \ {i}
  BY <1>3, <1>4 DEF FreeSlots
<1>6. Cardinality(FreeSlots') = Cardinality(FreeSlots) - 1
  BY <1>2, <1>3, <1>5, FS_RemoveElement
<1>7. \A u \in Threads : pc'[u] \notin {"expand", "assign", "grow", "search"}
  BY <1>1, <1>3, Alone DEF TypeInv, Writing
<1>8. availSlots' = Cardinality(FreeSlots') /\ fullSlots' = totalSlots' - availSlots'
  BY <1>1, <1>3, <1>6 DEF TypeInv
<1> QED
  BY <1>7, <1>8

\* A destruction clears one slot that was not free.
LEMMA CountErase ==
  ASSUME IInv, NEW t \in Threads, Erase(t)
  PROVE  CountInv'
<1> USE DEF IInv, MapInv, CountInv
<1> DEFINE h == arg[t]
<1>1. /\ pc[t] = "erase" /\ lock = NoThread /\ pc' = [pc EXCEPT ![t] = "idle"]
      /\ slots' = [slots EXCEPT ![h] = NULL] /\ totalSlots' = totalSlots
      /\ availSlots' = availSlots + 1 /\ fullSlots' = fullSlots - 1
  BY DEF Erase, Return, Goto
<1>2. h \in DOMAIN slots /\ slots[h] \in Sets /\ totalSlots \in Nat
  BY <1>1 DEF EraseInv, TypeInv
<1>3. h \in 0..totalSlots - 1
  BY <1>2 DEF TypeInv, SizeInv
<1>4. h \notin FreeSlots /\ FreeSlots' = FreeSlots \cup {h}
  BY <1>1, <1>2, <1>3 DEF FreeSlots
<1>5. Cardinality(FreeSlots') = Cardinality(FreeSlots) + 1
  BY <1>2, <1>4, FreeSlotsFinite, FS_AddElement
<1>6. \A u \in Threads : pc'[u] \notin {"expand", "assign", "grow", "search"}
  BY <1>1, Alone DEF TypeInv, Writing
<1>7. availSlots' = Cardinality(FreeSlots') /\ fullSlots' = totalSlots' - availSlots'
  BY <1>1, <1>2, <1>5, FreeSlotsFinite DEF TypeInv
<1> QED
  BY <1>6, <1>7

----------------------------------------------------------------------------
\* The map has no EventSet and every slot is free.
LEMMA InitIInv == Init => IInv
<1> SUFFICES ASSUME Init PROVE IInv
  OBVIOUS
<1>1. MapInv
  BY InitMapInv
<1>2. FreeSlots = 0..InitSlots - 1
  BY DEF Init, FreeSlots
<1>3. Cardinality(FreeSlots) = InitSlots
  BY <1>2, FS_Interval
<1> QED
  BY <1>1, <1>3 DEF IInv, CountInv, Init

\* A step of a call keeps the invariant and is a step of the promise, or none.
LEMMA CallKeeps ==
  ASSUME IInv, NEW t \in Threads, CallStep(t)
  PROVE  /\ IInv'
         /\ UNCHANGED <<HandleTable, found>> \/ Promise!Create(t) \/ Promise!Lookup(t)
              \/ Promise!Destroy(t) \/ Promise!Return(t)
<1> USE DEF IInv
<1>1. CASE LockMap(t) \/ ReallocFails(t) \/ Assign(t)
  <2>1. MapInv' /\ UNCHANGED <<HandleTable, found>>
    BY <1>1, LockSteps DEF LockMap, ReallocFails, Assign
  <2>2. CASE LockMap(t)
    BY <2>1, <2>2, CountKept DEF LockMap, mapVars, heapVars
  <2>3. CASE ReallocFails(t)
    BY <2>1, <2>3, CountKept DEF ReallocFails, mapVars, heapVars
  <2>4. CASE Assign(t)
    BY <2>1, <2>4, CountKept DEF Assign, heapVars, CountInv
  <2> QED
    BY <1>1, <2>2, <2>3, <2>4
<1>2. CASE \E moves \in BOOLEAN : Realloc(t, moves)
  <2>1. MapInv' /\ UNCHANGED <<HandleTable, found>>
    BY <1>2, GrowSteps DEF Realloc
  <2>2. \A i \in 0..totalSlots - 1 : slots'[i] = slots[i]
    BY <1>2 DEF Realloc, MapInv, TypeInv
  <2>3. CountInv'
    BY <1>2, <2>2, CountKept DEF Realloc, mapVars, CountInv
  <2> QED
    BY <2>1, <2>3
<1>3. CASE Grow(t)
  BY <1>3, GrowSteps, CountGrow DEF Grow
<1>4. CASE AddEventSet(t)
  BY <1>4, CountAdd, TakeSlot, NoSlot
<1>5. CASE Created(t)
  BY <1>5, CreatedStep, CountKept DEF Created, Return, mapVars, heapVars
<1>6. CASE Discard(t)
  BY <1>6, DiscardStep, CountKept DEF Discard, Return, mapVars
<1>7. CASE ReadArray(t) \/ ReadSlot(t) \/ Found(t)
  <2>1. MapInv'
    BY <1>7, LookupSteps
  <2>2. UNCHANGED <<HandleTable, found>> \/ Promise!Lookup(t) \/ Promise!Return(t)
    BY <1>7, LookupKeepsPromise
  <2>3. CASE ReadArray(t)
    BY <2>1, <2>2, <2>3, CountKept DEF ReadArray, mapVars, heapVars
  <2>4. CASE ReadSlot(t)
    BY <2>1, <2>2, <2>4, CountKept DEF ReadSlot, mapVars, heapVars
  <2>5. CASE Found(t)
    BY <2>1, <2>2, <2>5, CountKept DEF Found, Return, mapVars, heapVars
  <2> QED
    BY <1>7, <2>3, <2>4, <2>5
<1>8. CASE Free(t)
  BY <1>8, FreeStep, CountKept DEF Free, mapVars
<1>9. CASE Erase(t)
  BY <1>9, EraseStep, CountErase
<1> QED
  BY <1>1, <1>2, <1>3, <1>4, <1>5, <1>6, <1>7, <1>8, <1>9 DEF CallStep

\* Any step keeps the invariant and is one of the promise.
LEMMA StepKeeps ==
  ASSUME IInv, [Next]_vars
  PROVE  IInv' /\ [Promise!Next]_<<HandleTable, found>>
<1>1. CASE Next
  <2>1. PICK t \in Threads :
          CallStep(t) \/ Allocate(t) \/ \E h \in handles[t] : Lookup(t, h)
    BY <1>1 DEF Next
  <2>2. CASE CallStep(t)
    BY <2>2, CallKeeps DEF Promise!Next
  <2>3. CASE Allocate(t)
    <3>1. MapInv' /\ UNCHANGED <<HandleTable, found>>
      BY <2>3, AllocateStep DEF IInv, Allocate
    <3>2. CountInv'
      BY <2>3, CountKept DEF Allocate, mapVars
    <3> QED
      BY <3>1, <3>2 DEF IInv
  <2>4. CASE \E h \in handles[t] : Lookup(t, h)
    <3>1. MapInv' /\ [Promise!Next]_<<HandleTable, found>>
      BY <2>4, LookupSteps, LookupKeepsPromise DEF IInv, Promise!Next
    <3>2. PICK h \in handles[t] : Lookup(t, h)
      BY <2>4
    <3>3. PICK l \in {"found", "read_array"} : Goto(t, l)
      BY <3>2 DEF Lookup
    <3>4. CountInv'
      BY <3>2, <3>3, CountKept DEF Lookup, mapVars, heapVars
    <3> QED
      BY <3>1, <3>4 DEF IInv
  <2> QED
    BY <2>1, <2>2, <2>3, <2>4
<1>2. CASE UNCHANGED vars
  <2>1. UNCHANGED <<HandleTable, InUse, FreeSlots, Growing, found>>
    BY <1>2 DEF vars, mapVars, heapVars, threadVars, HandleTable, InUse, Erasing,
                FreeSlots, Growing
  <2>2. MapInv'
    BY <1>2, <2>1 DEF vars, mapVars, heapVars, threadVars, IInv, MapInv, TypeInv,
         LockInv, SizeInv, TableInv, MakeInv, CreatedInv, HandleInv, ReadInv, EraseInv
  <2>3. CountInv'
    BY <1>2, <2>1 DEF vars, mapVars, threadVars, IInv, CountInv
  <2> QED
    BY <2>1, <2>2, <2>3 DEF IInv
<1> QED
  BY <1>1, <1>2

\* The invariant has the type invariant, and the slot that a creation looks for.
LEMMA Consequences ==
  ASSUME IInv
  PROVE  TypeOK /\ AddFindsSlot
<1> USE DEF IInv, MapInv, TypeInv, CountInv
<1>1. availSlots \in Nat /\ fullSlots \in Nat
  BY FreeSlotsFinite
<1>2. TypeOK
  BY <1>1 DEF TypeOK
<1>3. AddFindsSlot
  BY FS_EmptySet DEF AddFindsSlot
<1> QED
  BY <1>2, <1>3

\* The inductive invariant holds in every reachable state.
LEMMA Invariant == Spec => []IInv
<1>1. Init => IInv
  BY InitIInv
<1>2. IInv /\ [Next]_vars => IInv'
  BY StepKeeps
<1> QED
  BY <1>1, <1>2, PTL DEF Spec

\* The map's state has its type: no count goes below zero, no handle, index or
\* array is anything but a number.
THEOREM TypeCorrect == Spec => []TypeOK
<1>1. IInv => TypeOK
  BY Consequences
<1> QED
  BY <1>1, Invariant, PTL

\* However many threads create and destroy EventSets while the array grows, the
\* counts kept by hand never send add_EventSet to look for a slot there is not.
THEOREM SlotFound == Spec => []AddFindsSlot
<1>1. IInv => AddFindsSlot
  BY Consequences
<1> QED
  BY <1>1, Invariant, PTL

\* Unless freed memory is read, a handle denotes one EventSet from the creation
\* that returns it to the destruction that takes it, and no EventSet has two: the
\* unlocked look-ups and the locked array together behave as HandleMap.
THEOREM Implements == Spec => KeepsPromise
<1>1. Init => Promise!Init
  <2> SUFFICES ASSUME Init PROVE Promise!Init
    OBVIOUS
  <2>1. HandleTable = {}
    BY DEF Init, HandleTable, InUse
  <2> QED
    BY <2>1 DEF Init, Promise!Init
<1>2. IInv /\ [Next]_vars => [Promise!Next]_<<HandleTable, found>>
  BY StepKeeps
<1> QED
  BY <1>1, <1>2, Invariant, PTL DEF Spec, KeepsPromise, Promise!Spec
=============================================================================
