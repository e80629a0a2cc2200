----------------------------- MODULE EventSetMap -----------------------------
(***************************************************************************)
(* The global map from handles to EventSets (papi_internal.c): a dynamic   *)
(* array written under INTERNAL_LOCK by the threads that create and        *)
(* destroy EventSets, and read without the lock by every call, through     *)
(* _papi_hwi_lookup_EventSet.  A program hands in the handles it was       *)
(* given, and one thread works with a handle.                              *)
(*                                                                         *)
(* When the array grows, realloc may move it; who then still reads the old *)
(* block reads freed memory, and the behaviour ends as "undefined".  An    *)
(* EventSetInfo_t is its address, which malloc may hand out again as soon  *)
(* as it was freed.                                                        *)
(***************************************************************************)
EXTENDS Integers, FiniteSets

CONSTANTS
  Threads,   \* threads of the program
  Sets,      \* addresses of EventSetInfo_t structures
  InitSlots, \* PAPI_INIT_SLOTS
  MaxSlots,  \* bound: realloc fails beyond it
  NULL,      \* the null pointer
  Junk,      \* what new memory holds
  NoThread   \* nobody

ASSUME EventSetMapAssumption ==
  /\ InitSlots \in Nat \ {0}
  /\ MaxSlots \in Nat
  /\ InitSlots <= MaxSlots
  /\ NULL \notin Sets
  /\ Junk \notin Sets \cup {NULL}
  /\ NoThread \notin Threads

VARIABLES
  \* DynamicArray_t
  dataSlotArray,  \* the block the map points to
  totalSlots, availSlots, fullSlots,
  \* the heap
  block,          \* the block that holds the array: how often it moved
  slots,          \* what is in that block
  allocated,      \* the EventSetInfo_t structures that are allocated
  EventSetIndex,  \* ESI->EventSetIndex
  master,         \* ESI->master
  \* threads
  lock,           \* who holds INTERNAL_LOCK
  handles,        \* the handles the program holds, by thread
  found,          \* the EventSetInfo_t the call of a thread works on
  pc, cur, arg, ptr  \* where a thread is, and its ESI, index and array

mapVars  == <<dataSlotArray, totalSlots, availSlots, fullSlots>>
heapVars == <<block, slots, allocated, EventSetIndex, master>>
threadVars == <<lock, handles, found, pc, cur, arg, ptr>>
vars == <<mapVars, heapVars, threadVars>>

Labels == {"idle", "add", "expand", "assign", "grow", "search",
           "created", "discard", "read_array", "read_slot", "found", "erase",
           "undefined"}

Init ==
  /\ dataSlotArray = 0 /\ block = 0
  /\ totalSlots = InitSlots /\ availSlots = InitSlots /\ fullSlots = 0
  /\ slots = [i \in 0..InitSlots - 1 |-> NULL]
  /\ allocated = {}
  /\ EventSetIndex = [s \in Sets |-> 0]
  /\ master = [s \in Sets |-> NoThread]
  /\ lock = NoThread
  /\ handles = [t \in Threads |-> {}]
  /\ found = [t \in Threads |-> NULL]
  /\ pc = [t \in Threads |-> "idle"]
  /\ cur = [t \in Threads |-> NULL]
  /\ arg = [t \in Threads |-> 0]
  /\ ptr = [t \in Threads |-> 0]

Goto(t, to) == pc' = [pc EXCEPT ![t] = to]

\* Leaves a call; what its locals held is gone.
Return(t) ==
  /\ Goto(t, "idle")
  /\ found' = [found EXCEPT ![t] = NULL]
  /\ cur' = [cur EXCEPT ![t] = NULL]
  /\ arg' = [arg EXCEPT ![t] = 0]
  /\ ptr' = [ptr EXCEPT ![t] = 0]

\* free_EventSet: nothing is left of what the structure held, and its next user
\* starts from zero.
FreeEventSet(s) ==
  /\ allocated' = allocated \ {s}
  /\ EventSetIndex' = [EventSetIndex EXCEPT ![s] = 0]
  /\ master' = [master EXCEPT ![s] = NoThread]

FreeSlots == {i \in 0..totalSlots - 1 : slots[i] = NULL}

----------------------------------------------------------------------------
\* PAPI_create_eventset

\* _papi_hwi_allocate_EventSet
Allocate(t) ==
  /\ pc[t] = "idle"
  /\ \E s \in Sets \ allocated :
       /\ allocated' = allocated \cup {s}
       /\ cur' = [cur EXCEPT ![t] = s]
  /\ Goto(t, "add")
  /\ UNCHANGED <<mapVars, block, slots, EventSetIndex, master, lock, handles, found,
                 arg, ptr>>

\* Mutant: the array is expanded one EventSet too late.
LockMapLate(t) ==
  /\ pc[t] = "add"
  /\ lock = NoThread
  /\ lock' = t
  /\ Goto(t, IF availSlots < 0 THEN "expand" ELSE "search")
  /\ UNCHANGED <<mapVars, heapVars, handles, found, cur, arg, ptr>>

LockMap(t) ==
  /\ pc[t] = "add"
  /\ lock = NoThread
  /\ lock' = t
  /\ Goto(t, IF availSlots = 0 THEN "expand" ELSE "search")
  /\ UNCHANGED <<mapVars, heapVars, handles, found, cur, arg, ptr>>

\* expand_dynamic_array, step by step for those who read without the lock:
\* realloc copies the array when it moves it, and frees the block it was in.
Realloc(t, moves) ==
  /\ pc[t] = "expand"
  /\ 2 * totalSlots <= MaxSlots
  /\ block' = IF moves THEN block + 1 ELSE block
  /\ slots' = [i \in 0..2 * totalSlots - 1 |->
                 IF i < totalSlots THEN slots[i] ELSE Junk]
  /\ Goto(t, "assign")
  /\ UNCHANGED <<mapVars, allocated, EventSetIndex, master, lock, handles, found,
                 cur, arg, ptr>>

\* Mutant: the lock is kept on the way out.
ReallocFailsLocked(t) ==
  /\ pc[t] = "expand"
  /\ Goto(t, "discard")
  /\ UNCHANGED <<mapVars, heapVars, lock, handles, found, cur, arg, ptr>>

ReallocFails(t) ==
  /\ pc[t] = "expand"
  /\ lock' = NoThread
  /\ Goto(t, "discard")
  /\ UNCHANGED <<mapVars, heapVars, handles, found, cur, arg, ptr>>

Assign(t) ==
  /\ pc[t] = "assign"
  /\ dataSlotArray' = block
  /\ Goto(t, "grow")
  /\ UNCHANGED <<totalSlots, availSlots, fullSlots, heapVars, lock, handles, found,
                 cur, arg, ptr>>

\* Mutant: the new counts are taken from the size before.
GrowStale(t) ==
  /\ pc[t] = "grow"
  /\ slots' = [i \in DOMAIN slots |-> IF i < totalSlots THEN slots[i] ELSE NULL]
  /\ totalSlots' = 2 * totalSlots
  /\ availSlots' = totalSlots - fullSlots
  /\ Goto(t, "search")
  /\ UNCHANGED <<dataSlotArray, fullSlots, block, allocated, EventSetIndex, master,
                 lock, handles, found, cur, arg, ptr>>

\* Mutant: the memset begins at the front of the array.
GrowClearsAll(t) ==
  /\ pc[t] = "grow"
  /\ slots' = [i \in DOMAIN slots |-> NULL]
  /\ totalSlots' = 2 * totalSlots
  /\ availSlots' = 2 * totalSlots - fullSlots
  /\ Goto(t, "search")
  /\ UNCHANGED <<dataSlotArray, fullSlots, block, allocated, EventSetIndex, master,
                 lock, handles, found, cur, arg, ptr>>

\* The memset of the upper half and the new counts.
Grow(t) ==
  /\ pc[t] = "grow"
  /\ slots' = [i \in DOMAIN slots |-> IF i < totalSlots THEN slots[i] ELSE NULL]
  /\ totalSlots' = 2 * totalSlots
  /\ availSlots' = 2 * totalSlots - fullSlots
  /\ Goto(t, "search")
  /\ UNCHANGED <<dataSlotArray, fullSlots, block, allocated, EventSetIndex, master,
                 lock, handles, found, cur, arg, ptr>>

\* The EventSet goes into the lowest slot that is NULL, its index and master
\* before it can be seen there; without such a slot the call is to fail with
\* PAPI_EBUG.
AddEventSet(t) ==
  /\ pc[t] = "search"
  /\ lock' = NoThread
  /\ IF FreeSlots = {}
     THEN Goto(t, "discard") /\ UNCHANGED <<mapVars, heapVars>>
     ELSE \E i \in FreeSlots :
            /\ \A j \in FreeSlots : i <= j
            /\ master' = [master EXCEPT ![cur[t]] = t]
            /\ EventSetIndex' = [EventSetIndex EXCEPT ![cur[t]] = i]
            /\ fullSlots' = fullSlots + 1
            /\ availSlots' = availSlots - 1
            /\ slots' = [slots EXCEPT ![i] = cur[t]]
            /\ Goto(t, "created")
            /\ UNCHANGED <<dataSlotArray, totalSlots, block, allocated>>
  /\ UNCHANGED <<handles, found, cur, arg, ptr>>

\* The handle is read back from the EventSet, after the lock was released.
Created(t) ==
  /\ pc[t] = "created"
  /\ handles' = [handles EXCEPT ![t] = @ \cup {EventSetIndex[cur[t]]}]
  /\ Return(t)
  /\ UNCHANGED <<mapVars, heapVars, lock>>

\* The EventSet could not be added.
Discard(t) ==
  /\ pc[t] = "discard"
  /\ FreeEventSet(cur[t])
  /\ Return(t)
  /\ UNCHANGED <<mapVars, block, slots, lock, handles>>

----------------------------------------------------------------------------
\* Look-ups, and PAPI_destroy_eventset

\* The bound check of _papi_hwi_lookup_EventSet.
Lookup(t, h) ==
  /\ pc[t] = "idle"
  /\ h \in handles[t]
  /\ IF h > totalSlots
     THEN found' = [found EXCEPT ![t] = NULL] /\ Goto(t, "found")
     ELSE Goto(t, "read_array") /\ UNCHANGED found
  /\ arg' = [arg EXCEPT ![t] = h]
  /\ UNCHANGED <<mapVars, heapVars, lock, handles, cur, ptr>>

ReadArray(t) ==
  /\ pc[t] = "read_array"
  /\ ptr' = [ptr EXCEPT ![t] = dataSlotArray]
  /\ Goto(t, "read_slot")
  /\ UNCHANGED <<mapVars, heapVars, lock, handles, found, cur, arg>>

ReadSlot(t) ==
  /\ pc[t] = "read_slot"
  /\ IF ptr[t] = block
     THEN found' = [found EXCEPT ![t] = slots[arg[t]]] /\ Goto(t, "found")
     ELSE Goto(t, "undefined") /\ UNCHANGED found
  /\ UNCHANGED <<mapVars, heapVars, lock, handles, cur, arg, ptr>>

\* The rest of a call that leaves the map alone.
Found(t) ==
  /\ pc[t] = "found"
  /\ Return(t)
  /\ UNCHANGED <<mapVars, heapVars, lock, handles>>

\* _papi_hwi_remove_EventSet of an empty, stopped EventSet frees it first,
Free(t) ==
  /\ pc[t] = "found"
  /\ found[t] # NULL
  /\ FreeEventSet(found[t])
  /\ handles' = [handles EXCEPT ![t] = @ \ {arg[t]}]
  /\ arg' = [arg EXCEPT ![t] = EventSetIndex[found[t]]]
  /\ Goto(t, "erase")
  /\ UNCHANGED <<mapVars, block, slots, lock, found, cur, ptr>>

\* and then, under the lock, takes it out of the map.
Erase(t) ==
  /\ pc[t] = "erase"
  /\ lock = NoThread
  /\ slots' = [slots EXCEPT ![arg[t]] = NULL]
  /\ availSlots' = availSlots + 1
  /\ fullSlots' = fullSlots - 1
  /\ Return(t)
  /\ UNCHANGED <<dataSlotArray, totalSlots, block, allocated, EventSetIndex, master,
                 lock, handles>>

----------------------------------------------------------------------------
\* The steps of a call in progress.
CallStep(t) ==
  \/ LockMap(t) \/ (\E moves \in BOOLEAN : Realloc(t, moves)) \/ ReallocFails(t)
  \/ Assign(t) \/ Grow(t) \/ AddEventSet(t) \/ Created(t) \/ Discard(t)
  \/ ReadArray(t) \/ ReadSlot(t) \/ Found(t) \/ Free(t) \/ Erase(t)

\* A program that read freed memory may do anything: nothing more is said of it.
Defined == \A t \in Threads : pc[t] # "undefined"

Next ==
  /\ Defined
  /\ \E t \in Threads :
       CallStep(t) \/ Allocate(t) \/ \E h \in handles[t] : Lookup(t, h)

Spec == Init /\ [][Next]_vars

\* A thread runs on, unless it waits for the lock.
Fairness == \A t \in Threads : WF_vars(Defined /\ CallStep(t))

FairSpec == Spec /\ Fairness

----------------------------------------------------------------------------
TypeOK ==
  /\ dataSlotArray \in Nat /\ block \in Nat
  /\ totalSlots \in Nat /\ availSlots \in Nat /\ fullSlots \in Nat
  /\ slots \in [DOMAIN slots -> Sets \cup {NULL, Junk}]
  /\ allocated \subseteq Sets
  /\ EventSetIndex \in [Sets -> Nat]
  /\ master \in [Sets -> Threads \cup {NoThread}]
  /\ lock \in Threads \cup {NoThread}
  /\ handles \in [Threads -> SUBSET Nat]
  /\ found \in [Threads -> Sets \cup {NULL}]
  /\ pc \in [Threads -> Labels]
  /\ cur \in [Threads -> Sets \cup {NULL}]
  /\ arg \in [Threads -> Nat]
  /\ ptr \in [Threads -> Nat]

\* A creation that got past the growth of the array finds a slot: the counts of
\* free slots, kept by hand through creations, destructions and growth, agree
\* with the array, so that add_EventSet never returns PAPI_EBUG.
AddFindsSlot == \A t \in Threads : pc[t] = "search" => FreeSlots # {}

\* A slot whose EventSet is freed is one its destroyer is about to clear.
Erasing(i) == \E t \in Threads : pc[t] = "erase" /\ arg[t] = i

\* The slots whose handle a program may hold.
InUse == {i \in DOMAIN slots : slots[i] \in Sets /\ ~Erasing(i)}

HandleTable ==
  {[handle |-> i, set |-> slots[i], master |-> master[slots[i]]] : i \in InUse}

\* Handles denote EventSets as HandleMap promises, for as long as nobody reads a
\* freed array: each look-up, in its three unlocked steps, finds what its handle
\* denotes at one moment, while other slots are filled, cleared and moved and
\* freed addresses come back.
Promise == INSTANCE HandleMap WITH
  Handles <- 0..MaxSlots, table <- HandleTable, answer <- found
KeepsPromise == Promise!Spec

\* INTERNAL_LOCK is always given back, on every way out.
LockReleased == \A t \in Threads : lock = t ~> (lock # t \/ ~Defined)

\* A look-up never reads a block that realloc has freed: "Need to assign this
\* value, what if realloc moved it?" (papi_internal.c:160).
NoStaleArray == Defined
=============================================================================
