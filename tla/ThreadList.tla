----------------------------- MODULE ThreadList -----------------------------
(***************************************************************************)
(* The list of registered threads (threads.c, threads.h, and the calls of  *)
(* papi.c that use it): a circular, singly linked list of ThreadInfo_t     *)
(* under THREADS_LOCK, found by a thread-local pointer ("tls", GCC 3.3 and *)
(* later on Linux) or by a search for the thread's id ("list").            *)
(*                                                                         *)
(* The locks do nothing until PAPI_thread_init has set the id function, so *)
(* the manual (PAPI_library_init.3) has it called before any other call;   *)
(* programs here obey that.  A call is cut where another thread can come   *)
(* in between: at the lock, at each element of a walk, at each store.      *)
(* PAPI_library_init, PAPI_thread_init and PAPI_shutdown come while no     *)
(* other thread is inside a call, and are one action each.  fork() may     *)
(* come at any time: the child has one thread and whatever the list and    *)
(* the lock were at that moment, and must initialise again.                *)
(*                                                                         *)
(* "register" is PAPI_register_thread and every other call that looks its  *)
(* thread up and creates the record if there is none                       *)
(* (_papi_hwi_lookup_or_create_thread); the program calls nothing but      *)
(* PAPI_library_init while that has not succeeded.                         *)
(*                                                                         *)
(* Left out: what hwd_init and hwd_shutdown do to the kernel's counters    *)
(* (they may fail), the contexts and storage a ThreadInfo_t points to,     *)
(* PAPI_ALLOW_STOLEN, and GLOBAL_LOCK, which nothing but the               *)
(* initialisation takes (threads.c:423-438): when an earlier id function   *)
(* is still set it is locked, and as the function is cleared in between it *)
(* is not unlocked again; the next lock_init frees it.                     *)
(*                                                                         *)
(* A freed address may be used again, as it is when the library is built   *)
(* with PAPI_NO_MEMORY_MANAGEMENT.                                         *)
(***************************************************************************)
EXTENDS Naturals, FiniteSets

CONSTANTS Threads, NoThread,
          Infos, NoInfo,      \* addresses of ThreadInfo_t, and NULL
          Pid,                \* getpid(), the id of a thread before thread_init
          Builds,             \* subset of {"tls", "list"}
          LeaveFirst,         \* the other threads unregister before one thread
                              \* shuts down or initialises
          MaxInits,           \* bound on initialisations of the library
          MaxThreaded         \* and on those followed by PAPI_thread_init

ASSUME ThreadListAssumption ==
  /\ NoThread \notin Threads /\ Pid \notin Threads
  /\ NoInfo \notin Infos
  /\ Builds \subseteq {"tls", "list"}
  /\ LeaveFirst \in BOOLEAN
  /\ MaxInits \in Nat /\ MaxThreaded \in Nat

VARIABLES
  build,      \* how the library was compiled
  inited,     \* init_retval = PAPI_VER_CURRENT
  starter,    \* the thread that initialised the library
  idFn,       \* _papi_hwi_thread_id_fn # NULL, set by PAPI_thread_init
  child,      \* the thread of a child process that has not initialised yet
  inits,      \* initialisations so far
  lock,       \* holder of THREADS_LOCK
  head,       \* _papi_hwi_thread_head
  next, tid,  \* fields of each ThreadInfo_t
  heap,       \* the ThreadInfo_t that are allocated
  mine,       \* _papi_hwi_my_thread of each thread ("tls")
  pc,         \* where each thread is in its call
  op,         \* the call, while it looks the thread up
  entry,      \* the ThreadInfo_t its call works on
  tmp, prev   \* the walk of its call

process == <<build, inited, starter, idFn, child, inits>>
local == <<pc, op, entry, tmp, prev>>
vars == <<process, lock, head, next, tid, heap, mine, local>>

Calls == {"register", "unregister"}
LookSteps == {"lookLock", "lookWalk", "lookUnlock"}
InsertSteps == {"insertLock", "insertLink", "insertHead", "insertUnlock"}
RemoveSteps == {"removeLock", "removeWalk", "removeLink", "removeUnlock"}
LockedSteps == {"lookWalk", "lookUnlock", "insertLink", "insertHead",
                "insertUnlock", "removeWalk", "removeLink", "removeUnlock"}

-----------------------------------------------------------------------------
(* The list as a reader of the structure sees it.                          *)

Closed(S) == \A i \in S : next[i] \in S
\* What a walk from the head meets.
Members ==
  LET Rings == {S \in SUBSET Infos : head \in S /\ Closed(S)}
  IN {i \in Infos : \A S \in Rings : i \in S}
Listed == IF head = NoInfo THEN {} ELSE Members
Owner(i) == IF tid[i] = Pid THEN starter ELSE tid[i]

Init ==
  /\ build \in Builds
  /\ inited = FALSE /\ starter = NoThread /\ idFn = FALSE
  /\ child = NoThread /\ inits = 0
  /\ lock = NoThread /\ head = NoInfo
  /\ next = [i \in Infos |-> NoInfo] /\ tid = [i \in Infos |-> Pid]
  /\ heap = {}
  /\ mine = [t \in Threads |-> NoInfo]
  /\ pc = [t \in Threads |-> "idle"] /\ op = [t \in Threads |-> "register"]
  /\ entry = [t \in Threads |-> NoInfo]
  /\ tmp = [t \in Threads |-> NoInfo] /\ prev = [t \in Threads |-> NoInfo]

\* What malloc returns: which free address it is makes no difference here.
NewInfo == CHOOSE i \in Infos : i \notin heap

AllIdle == \A u \in Threads : pc[u] = "idle"

\* The rule for programs.  It reaches the initialisation for the sake of a
\* thread that forked, failed to initialise, and leaves that to another thread:
\* the failure (papi.c:265) left it the pointer of the parent's record.
OthersLeft(t) == LeaveFirst => \A u \in Threads \ {t} : mine[u] = NoInfo

-----------------------------------------------------------------------------
(* Initialisation, shutdown, fork.                                         *)

\* PAPI_library_init -> _papi_hwi_init_global_threads: the list starts again
\* with the calling thread in it.  lock_init of the substrate frees the locks.
LibraryInit(t) ==
  /\ AllIdle
  /\ IF child = NoThread THEN ~inited ELSE child = t
  /\ OthersLeft(t)
  /\ inits < MaxInits
  /\ heap # Infos
  /\ heap' = heap \cup {NewInfo}
  /\ tid' = [tid EXCEPT ![NewInfo] = Pid]
  /\ next' = [next EXCEPT ![NewInfo] = NewInfo]
  /\ head' = NewInfo
  /\ mine' = [mine EXCEPT ![t] = IF build = "tls" THEN NewInfo ELSE NoInfo]
  /\ lock' = NoThread
  /\ inited' = TRUE /\ starter' = t /\ idFn' = FALSE
  /\ child' = NoThread /\ inits' = inits + 1
  /\ UNCHANGED <<build, local>>

\* A substrate reports an error: its init_global before the list is touched,
\* or its init for the calling thread, whose record is freed again.
LibraryInitFails(t) ==
  /\ AllIdle
  /\ IF child = NoThread THEN ~inited ELSE child = t
  /\ inits < MaxInits
  /\ \/ UNCHANGED <<head, lock, mine, idFn>>
     \/ /\ head' = NoInfo /\ lock' = NoThread /\ idFn' = FALSE
        /\ mine' = [mine EXCEPT ![t] = NoInfo]
  /\ inited' = FALSE /\ child' = NoThread /\ inits' = inits + 1
  /\ UNCHANGED <<build, starter, next, tid, heap, local>>

\* PAPI_thread_init -> _papi_hwi_set_thread_id_fn, called by the thread that
\* initialised the library while it is the only one in the list.
ThreadInit(t) ==
  /\ inited /\ child = NoThread /\ ~idFn
  /\ inits <= MaxThreaded
  /\ pc[t] = "idle" /\ t = starter
  /\ head # NoInfo /\ next[head] = head
  /\ idFn' = TRUE
  /\ tid' = [tid EXCEPT ![head] = t]
  /\ UNCHANGED <<build, inited, starter, child, inits, lock, head, next,
                 heap, mine, local>>

\* The record that _papi_hwi_lookup_thread finds when nobody interferes.
Lookup(t) ==
  IF build = "tls" THEN mine[t]
  ELSE IF ~idFn THEN head
  ELSE IF \E i \in Listed : tid[i] = t THEN CHOOSE i \in Listed : tid[i] = t
  ELSE NoInfo

CallerTid(t) == IF idFn THEN t ELSE Pid
\* The test of _papi_hwi_shutdown_thread: the record has the caller's id.
Owns(t, i) == IF i = NoInfo THEN FALSE ELSE tid[i] = CallerTid(t)

\* The links after remove_thread has taken i out of a ring of two or more.
Without(i) == [x \in Infos |-> IF x = i THEN NoInfo
                               ELSE IF next[x] = i THEN next[i] ELSE next[x]]

\* PAPI_shutdown: _papi_hwi_shutdown_global_threads removes and frees the
\* caller's record only, and forgets the list and the id function.
Shutdown(t) ==
  /\ AllIdle
  /\ inited /\ child = NoThread
  /\ idFn \/ t = starter
  /\ OthersLeft(t)
  /\ LET i == Lookup(t) IN
       \* a record that is not in the list would be looked for for ever
     /\ Owns(t, i) => i \in Listed
     /\ IF Owns(t, i)
        THEN /\ heap' = heap \ {i}
             /\ next' = Without(i)
             /\ tid' = [tid EXCEPT ![i] = Pid]
        ELSE UNCHANGED <<heap, next, tid>>
  /\ mine' = [mine EXCEPT ![t] = NoInfo]
  /\ head' = NoInfo
  /\ inited' = FALSE /\ idFn' = FALSE
  /\ UNCHANGED <<build, starter, child, inits, lock, local>>

\* fork() in t; the child is what is followed.  Its other threads are new ones.
Fork(t) ==
  /\ inited /\ child = NoThread /\ inits < MaxInits
  /\ pc[t] = "idle"
  /\ child' = t
  /\ mine' = [u \in Threads |-> IF u = t THEN mine[t] ELSE NoInfo]
  /\ pc' = [u \in Threads |-> "idle"] /\ op' = [u \in Threads |-> "register"]
  /\ entry' = [u \in Threads |-> NoInfo]
  /\ tmp' = [u \in Threads |-> NoInfo] /\ prev' = [u \in Threads |-> NoInfo]
  /\ UNCHANGED <<build, inited, starter, idFn, inits, lock, head, next, tid,
                 heap>>

-----------------------------------------------------------------------------
(* Steps of PAPI_register_thread and PAPI_unregister_thread.               *)

\* Mutant: the lock is taken without waiting for it.
LockUnchecked(t) == IF idFn THEN lock' = t ELSE UNCHANGED lock

\* _papi_hwi_lock, _papi_hwi_unlock: skipped while there is no id function.
Lock(t) == IF idFn THEN lock = NoThread /\ lock' = t ELSE UNCHANGED lock

Unlock(t) == IF idFn THEN lock' = NoThread ELSE UNCHANGED lock

Goto(t, label) == pc' = [pc EXCEPT ![t] = label]

\* The look-up returned i: the call goes on or returns.
Proceed(t, o, i) ==
  \/ /\ o = "register" /\ i = NoInfo
     /\ heap # Infos
     /\ heap' = heap \cup {NewInfo}
     /\ tid' = [tid EXCEPT ![NewInfo] = CallerTid(t)]
     /\ entry' = [entry EXCEPT ![t] = NewInfo]
     /\ Goto(t, "insertLock")
  \/ /\ o = "unregister" /\ Owns(t, i)
     /\ entry' = [entry EXCEPT ![t] = i]
     /\ Goto(t, "removeLock")
     /\ UNCHANGED <<heap, tid>>
  \/ \* found, or out of memory, or hwd_init failed; not found, or not the owner
     /\ o = "register" \/ ~Owns(t, i)
     /\ entry' = [entry EXCEPT ![t] = NoInfo]
     /\ Goto(t, "idle")
     /\ UNCHANGED <<heap, tid>>

Call(t, o) ==
  /\ inited /\ child = NoThread
  /\ idFn \/ t = starter
  /\ pc[t] = "idle"
  /\ IF build = "list" /\ idFn
     THEN /\ Goto(t, "lookLock")
          /\ op' = [op EXCEPT ![t] = o]
          /\ UNCHANGED <<heap, tid, entry>>
     ELSE /\ Proceed(t, o, IF build = "tls" THEN mine[t] ELSE head)
          /\ UNCHANGED op
  /\ UNCHANGED <<process, lock, head, next, mine, tmp, prev>>

LookLock(t) ==
  /\ pc[t] = "lookLock"
  /\ Lock(t)
  /\ tmp' = [tmp EXCEPT ![t] = head]
  /\ Goto(t, "lookWalk")
  /\ UNCHANGED <<process, head, next, tid, heap, mine, op, entry, prev>>

\* Mutant: the search does not notice that it is back at the head.
LookWalkOn(t) ==
  /\ pc[t] = "lookWalk"
  /\ LET i == tmp[t]
         hit == IF i = NoInfo THEN FALSE ELSE tid[i] = t
     IN IF ~hit /\ i # NoInfo
        THEN /\ tmp' = [tmp EXCEPT ![t] = next[i]]
             /\ UNCHANGED <<head, entry, pc>>
        ELSE /\ entry' = [entry EXCEPT ![t] = IF hit THEN i ELSE NoInfo]
             /\ head' = IF hit THEN i ELSE head
             /\ tmp' = [tmp EXCEPT ![t] = NoInfo]
             /\ Goto(t, "lookUnlock")
  /\ UNCHANGED <<process, lock, next, tid, heap, mine, op, prev>>

\* One turn of the search for the thread's id; a hit becomes the head.
LookWalk(t) ==
  /\ pc[t] = "lookWalk"
  /\ LET i == tmp[t]
         hit == IF i = NoInfo THEN FALSE ELSE tid[i] = t
         more == IF i = NoInfo THEN FALSE ELSE next[i] # head
     IN IF ~hit /\ more
        THEN /\ tmp' = [tmp EXCEPT ![t] = next[i]]
             /\ UNCHANGED <<head, entry, pc>>
        ELSE /\ entry' = [entry EXCEPT ![t] = IF hit THEN i ELSE NoInfo]
             /\ head' = IF hit THEN i ELSE head
             /\ tmp' = [tmp EXCEPT ![t] = NoInfo]
             /\ Goto(t, "lookUnlock")
  /\ UNCHANGED <<process, lock, next, tid, heap, mine, op, prev>>

LookUnlock(t) ==
  /\ pc[t] = "lookUnlock"
  /\ Unlock(t)
  /\ Proceed(t, op[t], entry[t])
  /\ op' = [op EXCEPT ![t] = "register"]
  /\ UNCHANGED <<process, head, next, mine, tmp, prev>>

InsertLock(t) ==
  /\ pc[t] = "insertLock"
  /\ Lock(t)
  /\ Goto(t, "insertLink")
  /\ UNCHANGED <<process, head, next, tid, heap, mine, op, entry, tmp, prev>>

\* Mutant: the new record closes the ring whatever its length.
LinkedPair(e) ==
  IF head = NoInfo THEN [next EXCEPT ![e] = e]
  ELSE [next EXCEPT ![head] = e, ![e] = head]

\* insert_thread: into the empty list, or after the head.
Linked(e) ==
  IF head = NoInfo THEN [next EXCEPT ![e] = e]
  ELSE IF next[head] = head THEN [next EXCEPT ![head] = e, ![e] = head]
  ELSE [next EXCEPT ![e] = next[head], ![head] = e]

InsertLink(t) ==
  /\ pc[t] = "insertLink"
  /\ next' = Linked(entry[t])
  /\ Goto(t, "insertHead")
  /\ UNCHANGED <<process, lock, head, tid, heap, mine, op, entry, tmp, prev>>

InsertHead(t) ==
  /\ pc[t] = "insertHead"
  /\ head' = entry[t]
  /\ Goto(t, "insertUnlock")
  /\ UNCHANGED <<process, lock, next, tid, heap, mine, op, entry, tmp, prev>>

InsertUnlock(t) ==
  /\ pc[t] = "insertUnlock"
  /\ Unlock(t)
  /\ mine' = IF build = "tls" THEN [mine EXCEPT ![t] = entry[t]] ELSE mine
  /\ entry' = [entry EXCEPT ![t] = NoInfo]
  /\ Goto(t, "idle")
  /\ UNCHANGED <<process, head, next, tid, heap, op, tmp, prev>>

RemoveLock(t) ==
  /\ pc[t] = "removeLock"
  /\ Lock(t)
  /\ tmp' = [tmp EXCEPT ![t] = head]
  /\ prev' = [prev EXCEPT ![t] = NoInfo]
  /\ Goto(t, "removeWalk")
  /\ UNCHANGED <<process, head, next, tid, heap, mine, op, entry>>

\* One turn of the loop that looks for the record and the one before it.
RemoveWalk(t) ==
  /\ pc[t] = "removeWalk"
  /\ tmp[t] # NoInfo
  /\ IF tmp[t] = entry[t] /\ prev[t] # NoInfo
     THEN /\ Goto(t, "removeLink")
          /\ UNCHANGED <<tmp, prev>>
     ELSE /\ prev' = [prev EXCEPT ![t] = tmp[t]]
          /\ tmp' = [tmp EXCEPT ![t] = next[tmp[t]]]
          /\ UNCHANGED pc
  /\ UNCHANGED <<process, lock, head, next, tid, heap, mine, op, entry>>

\* Mutant: the head is left alone.
RemoveLinkOnly(t) ==
  /\ pc[t] = "removeLink"
  /\ IF prev[t] = tmp[t]
     THEN /\ head' = NoInfo
          /\ next' = [next EXCEPT ![tmp[t]] = NoInfo]
     ELSE /\ next' = [next EXCEPT ![prev[t]] = next[tmp[t]]]
          /\ UNCHANGED head
  /\ Goto(t, "removeUnlock")
  /\ UNCHANGED <<process, lock, tid, heap, mine, op, entry, tmp, prev>>

RemoveLink(t) ==
  /\ pc[t] = "removeLink"
  /\ IF prev[t] = tmp[t]
     THEN /\ head' = NoInfo
          /\ next' = [next EXCEPT ![tmp[t]] = NoInfo]
     ELSE /\ next' = [next EXCEPT ![prev[t]] = next[tmp[t]]]
          /\ head' = IF head = tmp[t] THEN next[tmp[t]] ELSE head
  /\ Goto(t, "removeUnlock")
  /\ UNCHANGED <<process, lock, tid, heap, mine, op, entry, tmp, prev>>

\* Mutant: the thread-local pointer is kept.
RemoveUnlockStale(t) ==
  /\ pc[t] = "removeUnlock"
  /\ Unlock(t)
  /\ heap' = heap \ {entry[t]}
  /\ next' = [next EXCEPT ![entry[t]] = NoInfo]
  /\ tid' = [tid EXCEPT ![entry[t]] = Pid]
  /\ entry' = [entry EXCEPT ![t] = NoInfo]
  /\ tmp' = [tmp EXCEPT ![t] = NoInfo]
  /\ prev' = [prev EXCEPT ![t] = NoInfo]
  /\ Goto(t, "idle")
  /\ UNCHANGED <<process, head, op, mine>>

\* The lock is released, then _papi_hwi_shutdown_thread frees the record.
RemoveUnlock(t) ==
  /\ pc[t] = "removeUnlock"
  /\ Unlock(t)
  /\ mine' = [mine EXCEPT ![t] = NoInfo]
  /\ heap' = heap \ {entry[t]}
  /\ next' = [next EXCEPT ![entry[t]] = NoInfo]
  /\ tid' = [tid EXCEPT ![entry[t]] = Pid]
  /\ entry' = [entry EXCEPT ![t] = NoInfo]
  /\ tmp' = [tmp EXCEPT ![t] = NoInfo]
  /\ prev' = [prev EXCEPT ![t] = NoInfo]
  /\ Goto(t, "idle")
  /\ UNCHANGED <<process, head, op>>

Step(t) ==
  \/ LookLock(t) \/ LookWalk(t) \/ LookUnlock(t)
  \/ InsertLock(t) \/ InsertLink(t) \/ InsertHead(t) \/ InsertUnlock(t)
  \/ RemoveLock(t) \/ RemoveWalk(t) \/ RemoveLink(t) \/ RemoveUnlock(t)

Next ==
  \E t \in Threads :
    \/ LibraryInit(t) \/ LibraryInitFails(t) \/ ThreadInit(t)
    \/ Shutdown(t) \/ Fork(t)
    \/ \E o \in Calls : Call(t, o)
    \/ Step(t)

\* A thread inside a call runs on.
Fairness == \A t \in Threads : WF_vars(Step(t))

Spec == Init /\ [][Next]_vars /\ Fairness

-----------------------------------------------------------------------------
(* Properties.                                                             *)

\* The types; and once there is an id function, a thread that is at a step
\* between _papi_hwi_lock and _papi_hwi_unlock holds THREADS_LOCK.
TypeOK ==
  /\ build \in {"tls", "list"} /\ inited \in BOOLEAN /\ idFn \in BOOLEAN
  /\ child \in Threads \cup {NoThread} /\ inits \in 0..MaxInits
  /\ starter \in Threads \cup {NoThread}
  /\ lock \in Threads \cup {NoThread}
  /\ head \in Infos \cup {NoInfo}
  /\ next \in [Infos -> Infos \cup {NoInfo}]
  /\ tid \in [Infos -> Threads \cup {Pid}]
  /\ heap \subseteq Infos
  /\ mine \in [Threads -> Infos \cup {NoInfo}]
  /\ pc \in [Threads -> {"idle"} \cup LookSteps \cup InsertSteps \cup RemoveSteps]
  /\ op \in [Threads -> Calls]
  /\ entry \in [Threads -> Infos \cup {NoInfo}]
  /\ tmp \in [Threads -> Infos \cup {NoInfo}]
  /\ prev \in [Threads -> Infos \cup {NoInfo}]
  /\ \A t \in Threads : idFn /\ pc[t] \in LockedSteps => lock = t

\* Whatever was inserted and removed, and wherever a fork cut another thread
\* off, a walk from the head meets allocated records only and comes back to the
\* head: next permutes what it meets.
ListIsRing ==
  /\ Listed \subseteq heap
  /\ \A i \in Listed : next[i] \in Listed
  /\ \A i, j \in Listed : next[i] = next[j] => i = j

\* A thread has at most one record in the list, and outside of calls its
\* thread-local pointer leads to it.
OneRecordEach ==
  inited /\ child = NoThread =>
    /\ \A i, j \in Listed : Owner(i) = Owner(j) => i = j
    /\ build = "tls" =>
         \A t \in Threads : pc[t] = "idle" =>
           Listed \cap {i \in Infos : Owner(i) = t} = {mine[t]} \ {NoInfo}

\* THREADS_LOCK is always given back: both walks end, whatever others did to
\* the list before.  Only a fork can take the holder away.
LockReleased ==
  \A t \in Threads : inited /\ lock = t ~> lock # t \/ child # NoThread

Registry == INSTANCE ThreadRegistry WITH members <- {Owner(i) : i \in Listed}
\* A step enters or takes out one thread, the one that is calling; nobody loses
\* its place by what another thread does.
KeepsRegistry == Registry!Spec
=============================================================================
