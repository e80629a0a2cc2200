-------------------------- MODULE ThreadListProofs --------------------------
(***************************************************************************)
(* THREADS_LOCK is held by the thread that is between lock and unlock; the *)
(* list of threads is a ring, whatever the interleaving of the steps of    *)
(* threads.c and wherever a fork cut one off; each thread has one record   *)
(* in it; and the list implements ThreadRegistry.  For any threads,        *)
(* records and bounds.                                                     *)
(***************************************************************************)
EXTENDS ThreadList, TLAPS

USE ThreadListAssumption

-----------------------------------------------------------------------------
(* Types and the lock.                                                     *)

Labels == {"idle"} \cup LookSteps \cup InsertSteps \cup RemoveSteps

ProcessTypes ==
  /\ build \in {"tls", "list"} /\ inited \in BOOLEAN /\ idFn \in BOOLEAN
  /\ child \in Threads \cup {NoThread} /\ inits \in 0..MaxInits
  /\ starter \in Threads \cup {NoThread}
ListTypes ==
  /\ lock \in Threads \cup {NoThread}
  /\ head \in Infos \cup {NoInfo}
  /\ next \in [Infos -> Infos \cup {NoInfo}]
  /\ tid \in [Infos -> Threads \cup {Pid}]
  /\ heap \subseteq Infos
  /\ mine \in [Threads -> Infos \cup {NoInfo}]
LocalTypes ==
  /\ pc \in [Threads -> Labels]
  /\ op \in [Threads -> Calls]
  /\ entry \in [Threads -> Infos \cup {NoInfo}]
  /\ tmp \in [Threads -> Infos \cup {NoInfo}]
  /\ prev \in [Threads -> Infos \cup {NoInfo}]
Types == ProcessTypes /\ ListTypes /\ LocalTypes

\* The holder of the lock; only the starter is inside a call while there is no
\* id function, so PAPI_thread_init finds nobody between lock and unlock; and
\* the record to be unlinked is there.
Held == \A t \in Threads : idFn /\ pc[t] \in LockedSteps => lock = t
Alone == ~idFn => \A t \in Threads \ {starter} : pc[t] = "idle"
Found == \A t \in Threads : pc[t] = "removeLink" => tmp[t] # NoInfo

IInv == Types /\ Held /\ Alone /\ Found

USE DEF Labels, Calls, LookSteps, InsertSteps, RemoveSteps, LockedSteps

LEMMA NewInfoFree ==
  ASSUME heap \subseteq Infos, heap # Infos
  PROVE  NewInfo \in Infos /\ NewInfo \notin heap
BY DEF NewInfo

LEMMA LookupType ==
  ASSUME Types, NEW t \in Threads
  PROVE  Lookup(t) \in Infos \cup {NoInfo}
<1>1. Listed \subseteq Infos
  BY DEF Listed, Members
<1> QED BY <1>1 DEF Lookup, Types, ListTypes, ProcessTypes

LEMMA InitIInv == Init => IInv
<1> SUFFICES ASSUME Init PROVE IInv
  OBVIOUS
<1>1. inits \in 0..MaxInits
  BY DEF Init
<1>2. ProcessTypes
  BY <1>1, Zenon DEF Init, ProcessTypes
<1>3. ListTypes /\ LocalTypes
  BY DEF Init, ListTypes, LocalTypes
<1>4. Held /\ Alone /\ Found
  BY DEF Init, Held, Alone, Found
<1> QED BY <1>2, <1>3, <1>4 DEF IInv, Types

-----------------------------------------------------------------------------
\* Initialisation, shutdown and fork: every thread is idle, or becomes so.

LEMMA LibraryInitSteps ==
  ASSUME IInv, NEW t \in Threads, LibraryInit(t)
  PROVE  IInv'
<1>1. NewInfo \in Infos
  BY NewInfoFree DEF LibraryInit, IInv, Types, ListTypes
<1>2. ProcessTypes'
  <2>1. inits' \in 0..MaxInits
    BY DEF LibraryInit, IInv, Types, ProcessTypes
  <2> QED BY <2>1, Zenon DEF LibraryInit, IInv, Types, ProcessTypes
<1>3. ListTypes'
  BY <1>1 DEF LibraryInit, IInv, Types, ListTypes
<1>4. LocalTypes' /\ pc' = pc
  BY DEF LibraryInit, IInv, Types, LocalTypes, local
<1>5. Held' /\ Alone' /\ Found'
  BY <1>4 DEF LibraryInit, AllIdle, Held, Alone, Found
<1> QED BY <1>2, <1>3, <1>4, <1>5 DEF IInv, Types

LEMMA LibraryInitFailsSteps ==
  ASSUME IInv, NEW t \in Threads, LibraryInitFails(t)
  PROVE  IInv'
<1>1. ProcessTypes'
  <2>1. inits' \in 0..MaxInits
    BY DEF LibraryInitFails, IInv, Types, ProcessTypes
  <2> QED BY <2>1, Zenon DEF LibraryInitFails, IInv, Types, ProcessTypes
<1>2. ListTypes'
  BY DEF LibraryInitFails, IInv, Types, ListTypes
<1>3. LocalTypes' /\ pc' = pc
  BY DEF LibraryInitFails, IInv, Types, LocalTypes, local
<1>4. Held' /\ Alone' /\ Found'
  BY <1>3 DEF LibraryInitFails, AllIdle, Held, Alone, Found
<1> QED BY <1>1, <1>2, <1>3, <1>4 DEF IInv, Types

LEMMA ThreadInitSteps ==
  ASSUME IInv, NEW t \in Threads, ThreadInit(t)
  PROVE  IInv'
<1>1. ProcessTypes'
  BY DEF ThreadInit, IInv, Types, ProcessTypes
<1>2. ListTypes'
  BY DEF ThreadInit, IInv, Types, ListTypes
<1>3. LocalTypes' /\ pc' = pc /\ tmp' = tmp
  BY DEF ThreadInit, IInv, Types, LocalTypes, local
<1>4. \A u \in Threads : pc[u] = "idle"
  BY DEF ThreadInit, IInv, Alone
<1>5. Held' /\ Alone' /\ Found'
  BY <1>3, <1>4 DEF Held, Alone, Found
<1> QED BY <1>1, <1>2, <1>3, <1>5 DEF IInv, Types

LEMMA ShutdownSteps ==
  ASSUME IInv, NEW t \in Threads, Shutdown(t)
  PROVE  IInv'
<1> DEFINE i == Lookup(t)
<1>1. i \in Infos \cup {NoInfo}
  BY LookupType DEF IInv
<1>2. ProcessTypes'
  BY DEF Shutdown, IInv, Types, ProcessTypes
<1>3. heap' \in SUBSET heap /\ next' \in [Infos -> Infos \cup {NoInfo}]
      /\ tid' \in [Infos -> Threads \cup {Pid}]
  <2>1. CASE Owns(t, i)
    <3>1. i \in Infos /\ heap' = heap \ {i} /\ next' = Without(i)
          /\ tid' = [tid EXCEPT ![i] = Pid]
      BY <1>1, <2>1 DEF Shutdown, Owns
    <3>2. Without(i) \in [Infos -> Infos \cup {NoInfo}]
      BY <3>1 DEF Without, IInv, Types, ListTypes
    <3> QED BY <3>1, <3>2 DEF IInv, Types, ListTypes
  <2>2. CASE ~Owns(t, i)
    BY <2>2 DEF Shutdown, IInv, Types, ListTypes
  <2> QED BY <2>1, <2>2
<1>4. ListTypes'
  BY <1>3 DEF Shutdown, IInv, Types, ListTypes
<1>5. LocalTypes' /\ pc' = pc
  BY DEF Shutdown, IInv, Types, LocalTypes, local
<1>6. Held' /\ Alone' /\ Found'
  BY <1>5 DEF Shutdown, AllIdle, Held, Alone, Found
<1> QED BY <1>2, <1>4, <1>5, <1>6 DEF IInv, Types

LEMMA ForkSteps ==
  ASSUME IInv, NEW t \in Threads, Fork(t)
  PROVE  IInv'
BY DEF Fork, IInv, Types, ProcessTypes, ListTypes, LocalTypes, Held, Alone, Found

-----------------------------------------------------------------------------
\* Calls.

\* What a call does once it has looked its thread up.
LEMMA ProceedTypes ==
  ASSUME Types, NEW t \in Threads, NEW o \in Calls,
         NEW i \in Infos \cup {NoInfo}, Proceed(t, o, i)
  PROVE  /\ heap' \subseteq Infos
         /\ tid' \in [Infos -> Threads \cup {Pid}]
         /\ entry' \in [Threads -> Infos \cup {NoInfo}]
         /\ \E label \in {"idle", "insertLock", "removeLock"} :
              pc' = [pc EXCEPT ![t] = label]
<1>1. CASE i = NoInfo /\ heap # Infos /\ heap' = heap \cup {NewInfo}
           /\ tid' = [tid EXCEPT ![NewInfo] = CallerTid(t)]
           /\ entry' = [entry EXCEPT ![t] = NewInfo]
           /\ Goto(t, "insertLock")
  <2>1. NewInfo \in Infos /\ CallerTid(t) \in Threads \cup {Pid}
    BY <1>1, NewInfoFree DEF Types, ListTypes, CallerTid
  <2> QED BY <1>1, <2>1 DEF Types, ListTypes, LocalTypes, Goto
<1>2. CASE entry' = [entry EXCEPT ![t] = i] /\ Goto(t, "removeLock")
           /\ UNCHANGED <<heap, tid>>
  BY <1>2 DEF Types, ListTypes, LocalTypes, Goto
<1>3. CASE entry' = [entry EXCEPT ![t] = NoInfo] /\ Goto(t, "idle")
           /\ UNCHANGED <<heap, tid>>
  BY <1>3 DEF Types, ListTypes, LocalTypes, Goto
<1> QED BY <1>1, <1>2, <1>3 DEF Proceed

LEMMA CallSteps ==
  ASSUME IInv, NEW t \in Threads, NEW o \in Calls, Call(t, o)
  PROVE  IInv'
<1> DEFINE i == IF build = "tls" THEN mine[t] ELSE head
<1>1. i \in Infos \cup {NoInfo}
  BY DEF IInv, Types, ListTypes
<1>2. /\ UNCHANGED <<process, lock, head, next, mine, tmp, prev>>
      /\ idFn \/ t = starter
  BY DEF Call
<1>3. /\ heap' \subseteq Infos
      /\ tid' \in [Infos -> Threads \cup {Pid}]
      /\ entry' \in [Threads -> Infos \cup {NoInfo}]
      /\ op' \in [Threads -> Calls]
      /\ \E label \in {"idle", "insertLock", "removeLock", "lookLock"} :
           pc' = [pc EXCEPT ![t] = label]
  <2>1. CASE build = "list" /\ idFn
    BY <2>1 DEF Call, Goto, IInv, Types, ListTypes, LocalTypes
  <2>2. CASE ~(build = "list" /\ idFn)
    <3>1. Proceed(t, o, i) /\ op' = op
      BY <2>2 DEF Call
    <3> QED BY <3>1, <1>1, ProceedTypes DEF IInv, Types, LocalTypes
  <2> QED BY <2>1, <2>2
<1>4. Types'
  BY <1>2, <1>3 DEF IInv, Types, ProcessTypes, ListTypes, LocalTypes, process
<1>5. Held' /\ Alone' /\ Found'
  BY <1>2, <1>3 DEF IInv, Types, LocalTypes, Held, Alone, Found, process
<1> QED BY <1>4, <1>5 DEF IInv

LEMMA LookingSteps ==
  ASSUME IInv, NEW t \in Threads,
         LookLock(t) \/ LookWalk(t) \/ LookUnlock(t)
  PROVE  IInv'
<1>1. CASE LookLock(t)
  <2>1. Types'
    BY <1>1 DEF LookLock, Lock, Goto, IInv, Types, ProcessTypes, ListTypes,
                LocalTypes, process
  <2>2. Held' /\ Alone' /\ Found'
    BY <1>1 DEF LookLock, Lock, Goto, IInv, Types, LocalTypes, Held, Alone,
                Found, process
  <2> QED BY <2>1, <2>2 DEF IInv
<1>2. CASE LookWalk(t)
  <2>1. UNCHANGED <<process, lock, next, tid, heap, mine, op, prev>>
        /\ pc[t] = "lookWalk"
    BY <1>2 DEF LookWalk
  <2>2. /\ head' \in Infos \cup {NoInfo}
        /\ entry' \in [Threads -> Infos \cup {NoInfo}]
        /\ tmp' \in [Threads -> Infos \cup {NoInfo}]
        /\ pc' = pc \/ pc' = [pc EXCEPT ![t] = "lookUnlock"]
        /\ \A u \in Threads \ {t} : tmp'[u] = tmp[u]
    BY <1>2 DEF LookWalk, Goto, IInv, Types, ListTypes, LocalTypes
  <2>3. Types'
    BY <2>1, <2>2 DEF IInv, Types, ProcessTypes, ListTypes, LocalTypes, process
  <2>4. Held' /\ Alone' /\ Found'
    BY <2>1, <2>2 DEF IInv, Types, LocalTypes, Held, Alone, Found, process
  <2> QED BY <2>3, <2>4 DEF IInv
<1>3. CASE LookUnlock(t)
  <2>1. /\ pc[t] = "lookUnlock" /\ Unlock(t)
        /\ op' = [op EXCEPT ![t] = "register"]
        /\ UNCHANGED <<process, head, next, mine, tmp, prev>>
    BY <1>3 DEF LookUnlock
  <2>2. /\ heap' \subseteq Infos
        /\ tid' \in [Infos -> Threads \cup {Pid}]
        /\ entry' \in [Threads -> Infos \cup {NoInfo}]
        /\ \E label \in {"idle", "insertLock", "removeLock"} :
             pc' = [pc EXCEPT ![t] = label]
    BY <1>3, ProceedTypes DEF LookUnlock, IInv, Types, LocalTypes
  <2>3. Types'
    BY <2>1, <2>2 DEF Unlock, IInv, Types, ProcessTypes, ListTypes, LocalTypes,
                      process
  <2>4. Held' /\ Alone' /\ Found'
    BY <2>1, <2>2 DEF Unlock, IInv, Types, LocalTypes, Held, Alone, Found, process
  <2> QED BY <2>3, <2>4 DEF IInv
<1> QED BY <1>1, <1>2, <1>3

LEMMA LinkedType ==
  ASSUME Types, NEW e \in Infos \cup {NoInfo}
  PROVE  Linked(e) \in [Infos -> Infos \cup {NoInfo}]
<1>1. e = NoInfo => e \notin Infos
  OBVIOUS
<1> QED BY <1>1 DEF Linked, Types, ListTypes

LEMMA InsertingSteps ==
  ASSUME IInv, NEW t \in Threads,
         \/ InsertLock(t) \/ InsertLink(t) \/ InsertHead(t) \/ InsertUnlock(t)
  PROVE  IInv'
<1>1. CASE InsertLock(t)
  <2>1. Types'
    BY <1>1 DEF InsertLock, Lock, Goto, IInv, Types, ProcessTypes, ListTypes,
                LocalTypes, process
  <2>2. Held' /\ Alone' /\ Found'
    BY <1>1 DEF InsertLock, Lock, Goto, IInv, Types, LocalTypes, Held, Alone,
                Found, process
  <2> QED BY <2>1, <2>2 DEF IInv
<1>2. CASE InsertLink(t)
  <2>1. next' \in [Infos -> Infos \cup {NoInfo}]
    BY <1>2, LinkedType DEF InsertLink, IInv, Types, LocalTypes
  <2>2. Types'
    BY <1>2, <2>1 DEF InsertLink, Goto, IInv, Types, ProcessTypes, ListTypes,
                      LocalTypes, process
  <2>3. Held' /\ Alone' /\ Found'
    BY <1>2 DEF InsertLink, Goto, IInv, Types, LocalTypes, Held, Alone, Found,
                process
  <2> QED BY <2>2, <2>3 DEF IInv
<1>3. CASE InsertHead(t)
  <2>1. Types'
    BY <1>3 DEF InsertHead, Goto, IInv, Types, ProcessTypes, ListTypes,
                LocalTypes, process
  <2>2. Held' /\ Alone' /\ Found'
    BY <1>3 DEF InsertHead, Goto, IInv, Types, LocalTypes, Held, Alone, Found,
                process
  <2> QED BY <2>1, <2>2 DEF IInv
<1>4. CASE InsertUnlock(t)
  <2>1. Types'
    BY <1>4 DEF InsertUnlock, Unlock, Goto, IInv, Types, ProcessTypes, ListTypes,
                LocalTypes, process
  <2>2. Held' /\ Alone' /\ Found'
    BY <1>4 DEF InsertUnlock, Unlock, Goto, IInv, Types, LocalTypes, Held, Alone,
                Found, process
  <2> QED BY <2>1, <2>2 DEF IInv
<1> QED BY <1>1, <1>2, <1>3, <1>4

LEMMA RemovingSteps ==
  ASSUME IInv, NEW t \in Threads,
         \/ RemoveLock(t) \/ RemoveWalk(t) \/ RemoveLink(t) \/ RemoveUnlock(t)
  PROVE  IInv'
<1>1. CASE RemoveLock(t)
  <2>1. Types'
    BY <1>1 DEF RemoveLock, Lock, Goto, IInv, Types, ProcessTypes, ListTypes,
                LocalTypes, process
  <2>2. Held' /\ Alone' /\ Found'
    BY <1>1 DEF RemoveLock, Lock, Goto, IInv, Types, LocalTypes, Held, Alone,
                Found, process
  <2> QED BY <2>1, <2>2 DEF IInv
<1>2. CASE RemoveWalk(t)
  <2>1. Types'
    BY <1>2 DEF RemoveWalk, Goto, IInv, Types, ProcessTypes, ListTypes,
                LocalTypes, process
  <2>2. Held' /\ Alone' /\ Found'
    BY <1>2 DEF RemoveWalk, Goto, IInv, Types, LocalTypes, Held, Alone, Found,
                process
  <2> QED BY <2>1, <2>2 DEF IInv
<1>3. CASE RemoveLink(t)
  <2>1. tmp[t] \in Infos
    BY <1>3 DEF RemoveLink, IInv, Types, LocalTypes, Found
  <2>2. Types'
    BY <1>3, <2>1 DEF RemoveLink, Goto, IInv, Types, ProcessTypes, ListTypes,
                      LocalTypes, process
  <2>3. Held' /\ Alone' /\ Found'
    BY <1>3 DEF RemoveLink, Goto, IInv, Types, LocalTypes, Held, Alone, Found,
                process
  <2> QED BY <2>2, <2>3 DEF IInv
<1>4. CASE RemoveUnlock(t)
  <2>1. Types'
    BY <1>4 DEF RemoveUnlock, Unlock, Goto, IInv, Types, ProcessTypes, ListTypes,
                LocalTypes, process
  <2>2. Held' /\ Alone' /\ Found'
    BY <1>4 DEF RemoveUnlock, Unlock, Goto, IInv, Types, LocalTypes, Held, Alone,
                Found, process
  <2> QED BY <2>1, <2>2 DEF IInv
<1> QED BY <1>1, <1>2, <1>3, <1>4

LEMMA NextIInv == IInv /\ [Next]_vars => IInv'
<1>1. ASSUME IInv, Next PROVE IInv'
  BY <1>1, LibraryInitSteps, LibraryInitFailsSteps, ThreadInitSteps,
     ShutdownSteps, ForkSteps, CallSteps, LookingSteps, InsertingSteps, RemovingSteps
     DEF Next, Step
<1>2. ASSUME IInv, UNCHANGED vars PROVE IInv'
  BY <1>2 DEF vars, process, local, IInv, Types, ProcessTypes, ListTypes,
              LocalTypes, Held, Alone, Found
<1> QED BY <1>1, <1>2

LEMMA Always == Spec => []IInv
BY InitIInv, NextIInv, PTL DEF Spec

\* The types, and that a thread between _papi_hwi_lock and _papi_hwi_unlock is
\* the holder of THREADS_LOCK, also across PAPI_thread_init, which switches the
\* lock on, PAPI_shutdown and fork.
THEOREM TypeCorrect == Spec => []TypeOK
<1>1. IInv => TypeOK
  BY DEF IInv, Types, ProcessTypes, ListTypes, LocalTypes, Held, TypeOK
<1> QED BY <1>1, Always, PTL

HIDE DEF Labels, Calls, LookSteps, InsertSteps, RemoveSteps, LockedSteps

-----------------------------------------------------------------------------
(* Rings of records, for any head h and links nx.                          *)

ClosedUnder(S, nx) == \A i \in S : nx[i] \in S

\* S is closed, no two links lead to one record, and S is one cycle: it has no
\* closed part but itself.
IsRing(S, h, nx) ==
  /\ S \in SUBSET Infos /\ h \in S
  /\ ClosedUnder(S, nx)
  /\ \A i, j \in S : nx[i] = nx[j] => i = j
  /\ \A T \in SUBSET S : T # {} /\ ClosedUnder(T, nx) => T = S

Links == [Infos -> Infos \cup {NoInfo}]

\* What a walk meets is the ring.
Walk(h, nx) ==
  {i \in Infos : \A S \in SUBSET Infos : h \in S /\ ClosedUnder(S, nx) => i \in S}

LEMMA RingWalk ==
  ASSUME NEW S, NEW h, NEW nx, IsRing(S, h, nx)
  PROVE  Walk(h, nx) = S
<1>1. ASSUME NEW R \in SUBSET Infos, h \in R, ClosedUnder(R, nx)
      PROVE  S \subseteq R
  <2>1. S \cap R # {} /\ ClosedUnder(S \cap R, nx)
    BY <1>1 DEF IsRing, ClosedUnder
  <2>2. S \cap R = S
    BY <2>1 DEF IsRing
  <2> QED BY <2>2
<1> QED BY <1>1 DEF Walk, IsRing

LEMMA ListedNow ==
  ASSUME NEW S, head # NoInfo, IsRing(S, head, next)
  PROVE  Listed = S
<1>1. Members = Walk(head, next)
  BY DEF Members, Closed, Walk, ClosedUnder
<1> QED BY <1>1, RingWalk DEF Listed

LEMMA ListedNext ==
  ASSUME NEW S, head' # NoInfo, IsRing(S, head', next')
  PROVE  Listed' = S
<1>1. Members' = Walk(head', next')
  BY DEF Members, Closed, Walk, ClosedUnder
<1> QED BY <1>1, RingWalk DEF Listed

LEMMA RingLone ==
  ASSUME NEW S, NEW h, NEW nx, IsRing(S, h, nx), NEW i \in S, nx[i] = i
  PROVE  S = {i}
<1>1. {i} \in SUBSET S /\ ClosedUnder({i}, nx)
  BY DEF ClosedUnder
<1> QED BY <1>1 DEF IsRing

\* Only the links of its own records matter to a ring, and any of them may be
\* the head.
LEMMA RingFrame ==
  ASSUME NEW S, NEW h, NEW nx, IsRing(S, h, nx),
         NEW k \in S, NEW mx, \A i \in S : mx[i] = nx[i]
  PROVE  IsRing(S, k, mx)
<1>1. \A T \in SUBSET S : ClosedUnder(T, mx) => ClosedUnder(T, nx)
  BY DEF ClosedUnder
<1> QED BY <1>1 DEF IsRing, ClosedUnder

LEMMA RingNew ==
  ASSUME NEW e \in Infos, NEW nx, nx[e] = e
  PROVE  IsRing({e}, e, nx)
BY DEF IsRing, ClosedUnder

\* insert_thread puts e after the head.
LEMMA RingInsert ==
  ASSUME NEW S, NEW h, NEW nx \in Links, IsRing(S, h, nx),
         NEW e \in Infos, e \notin S,
         NEW mx \in Links, mx[e] = nx[h], mx[h] = e,
         \A i \in S \ {h} : mx[i] = nx[i]
  PROVE  IsRing(S \cup {e}, h, mx)
<1> DEFINE R == S \cup {e}
<1>1. /\ S \subseteq Infos /\ h \in S /\ ClosedUnder(S, nx)
      /\ \A i, j \in S : nx[i] = nx[j] => i = j
      /\ \A T \in SUBSET S : T # {} /\ ClosedUnder(T, nx) => T = S
  BY DEF IsRing
<1>2. ClosedUnder(R, mx)
  BY <1>1 DEF ClosedUnder
<1>3. \A i, j \in R : mx[i] = mx[j] => i = j
  <2>1. \A i \in S : nx[i] # e
    BY <1>1 DEF ClosedUnder
  <2> QED BY <1>1, <2>1
<1>4. ASSUME NEW T \in SUBSET R, T # {}, ClosedUnder(T, mx)
      PROVE  T = R
  <2>1. e \in T
    <3>1. SUFFICES ASSUME e \notin T PROVE FALSE
      OBVIOUS
    <3>2. h \notin T
      BY <1>4, <3>1 DEF ClosedUnder
    <3>3. T \subseteq S /\ ClosedUnder(T, nx)
      BY <1>4, <3>1, <3>2 DEF ClosedUnder
    <3> QED BY <1>1, <1>4, <3>2, <3>3
  <2>2. nx[h] \in T \ {e}
    BY <1>1, <1>4, <2>1 DEF ClosedUnder
  <2>3. ASSUME NEW i \in T \ {e} PROVE nx[i] \in T \ {e}
    <3>1. i \in S /\ nx[i] # e
      BY <1>1, <2>3 DEF ClosedUnder
    <3>2. CASE i = h
      BY <2>2, <3>2
    <3>3. CASE i # h
      BY <1>4, <3>1, <3>3 DEF ClosedUnder
    <3> QED BY <3>2, <3>3
  <2>4. T \ {e} = S
    BY <1>1, <2>2, <2>3 DEF ClosedUnder
  <2> QED BY <2>1, <2>4
<1>5. R \in SUBSET Infos /\ h \in R
  BY <1>1
<1> HIDE DEF R
<1>6. IsRing(R, h, mx)
  BY <1>2, <1>3, <1>4, <1>5 DEF IsRing
<1> QED BY <1>6 DEF R

\* remove_thread leads the record before i past it; the head moves on if it
\* was i.
LEMMA RingRemove ==
  ASSUME NEW S, NEW h, NEW nx \in Links, IsRing(S, h, nx),
         NEW p \in S, NEW i \in S, nx[p] = i, p # i,
         NEW mx \in Links, mx[p] = nx[i], \A j \in S \ {p} : mx[j] = nx[j]
  PROVE  IsRing(S \ {i}, IF h = i THEN nx[i] ELSE h, mx)
<1> DEFINE R == S \ {i}
           k == IF h = i THEN nx[i] ELSE h
<1>1. /\ S \subseteq Infos /\ h \in S /\ ClosedUnder(S, nx)
      /\ \A a, b \in S : nx[a] = nx[b] => a = b
      /\ \A T \in SUBSET S : T # {} /\ ClosedUnder(T, nx) => T = S
  BY DEF IsRing
<1>2. nx[i] \in R
  <2>1. nx[i] # i
    BY RingLone
  <2> QED BY <1>1, <2>1 DEF ClosedUnder
<1>3. R \in SUBSET Infos /\ k \in R
  BY <1>1, <1>2
<1>4. \A a \in R \ {p} : nx[a] # i
  BY <1>1
<1>5. ClosedUnder(R, mx)
  BY <1>1, <1>2, <1>4 DEF ClosedUnder
<1>6. \A a, b \in R : mx[a] = mx[b] => a = b
  BY <1>1
<1>7. ASSUME NEW T \in SUBSET R, T # {}, ClosedUnder(T, mx)
      PROVE  T = R
  <2>1. CASE p \in T
    <3>1. ClosedUnder(T \cup {i}, nx)
      BY <1>7, <2>1 DEF ClosedUnder
    <3>2. T \cup {i} = S
      BY <1>1, <3>1
    <3> QED BY <3>2
  <2>2. CASE p \notin T
    <3>1. ClosedUnder(T, nx)
      BY <1>7, <2>2 DEF ClosedUnder
    <3> QED BY <1>1, <1>7, <3>1
  <2> QED BY <2>1, <2>2
<1> HIDE DEF R, k
<1>8. IsRing(R, k, mx)
  BY <1>3, <1>5, <1>6, <1>7 DEF IsRing
<1> QED BY <1>8 DEF R, k

-----------------------------------------------------------------------------
(* The inductive invariant: the list, and what each call knows of it.      *)

Ring == head # NoInfo => IsRing(Listed, head, next) /\ Listed \subseteq heap

\* Who the records in the list belong to.
Named == \A i \in Listed : IF idFn THEN tid[i] \in Threads ELSE tid[i] = Pid

\* The record that an insertion or removal works on is the caller's own.
HasEntry(t) ==
  pc[t] \in InsertSteps \cup RemoveSteps =>
    entry[t] \in heap /\ tid[entry[t]] = CallerTid(t)

\* Where that record, or the walk, is.
LookPlace(t) ==
  /\ pc[t] \in LookSteps => idFn /\ build = "list"
  /\ pc[t] = "lookWalk" =>
       IF head = NoInfo THEN tmp[t] = NoInfo ELSE tmp[t] \in Listed
  /\ pc[t] = "lookUnlock" /\ entry[t] # NoInfo =>
       entry[t] \in Listed /\ tid[entry[t]] = t
InsertPlace(t) ==
  /\ pc[t] \in {"insertLock", "insertLink"} => entry[t] \notin Listed
  /\ pc[t] = "insertHead" =>
       IF head = NoInfo THEN next[entry[t]] = entry[t] ELSE entry[t] \in Listed
  /\ pc[t] = "insertUnlock" => entry[t] \in Listed
RemovePlace(t) ==
  /\ pc[t] = "removeWalk" =>
       /\ tmp[t] # NoInfo => tmp[t] \in Listed
       /\ prev[t] # NoInfo => prev[t] \in Listed /\ next[prev[t]] = tmp[t]
  /\ pc[t] = "removeLink" =>
       tmp[t] = entry[t] /\ prev[t] \in Listed /\ next[prev[t]] = tmp[t]
  /\ pc[t] = "removeUnlock" => entry[t] \notin Listed

Place(t) == HasEntry(t) /\ LookPlace(t) /\ InsertPlace(t) /\ RemovePlace(t)
Places == \A t \in Threads : Place(t)

\* The thread-local pointers: to allocated records, each to one of its own, and
\* to none that is being inserted.
Mine ==
  /\ build = "list" => \A t \in Threads : mine[t] = NoInfo
  /\ \A t \in Threads : mine[t] # NoInfo => mine[t] \in heap
  /\ \A t, u \in Threads : mine[t] = mine[u] /\ mine[t] # NoInfo => t = u
  /\ \A t \in Threads :
       build = "tls" /\ pc[t] \in RemoveSteps => entry[t] = mine[t]
  /\ \A t, u \in Threads :
       build = "tls" /\ pc[t] \in InsertSteps => mine[t] = NoInfo /\ mine[u] # entry[t]

ListInv == Ring /\ Named /\ Places /\ Mine

USE DEF Labels, Calls, LookSteps, InsertSteps, RemoveSteps, LockedSteps

LEMMA ListedAllocated ==
  ASSUME Ring
  PROVE  Listed \subseteq Infos /\ Listed \subseteq heap /\ (Listed # {} => head # NoInfo)
BY DEF Ring, Listed, Members

LEMMA SameList ==
  ASSUME UNCHANGED <<head, next>>
  PROVE  Listed' = Listed
BY DEF Listed, Members, Closed

\* No two threads are between lock and unlock, and none while there is no id
\* function but the one that initialised the library.
LEMMA Exclusive ==
  ASSUME IInv, NEW t \in Threads, NEW u \in Threads \ {t}, pc[t] \in LockedSteps
  PROVE  pc[u] \notin LockedSteps
BY DEF IInv, Held, Alone, Types, LocalTypes

\* No two calls work on one record.
LEMMA OwnEntry ==
  ASSUME IInv, Places, NEW t \in Threads, NEW u \in Threads \ {t},
         pc[t] \in InsertSteps \cup RemoveSteps,
         pc[u] \in InsertSteps \cup RemoveSteps
  PROVE  entry[t] # entry[u]
<1>1. idFn
  BY DEF IInv, Alone
<1>2. tid[entry[t]] = t /\ tid[entry[u]] = u
  BY <1>1, Zenon DEF Places, Place, HasEntry, CallerTid
<1> QED BY <1>2

\* A thread is where it was when the list is what it was.
LEMMA PlaceStays ==
  ASSUME NEW u, Place(u),
         UNCHANGED <<head, next, idFn, build>>,
         heap \subseteq heap', \A i \in heap : tid'[i] = tid[i],
         Listed \subseteq heap,
         pc'[u] = pc[u], entry'[u] = entry[u], tmp'[u] = tmp[u], prev'[u] = prev[u]
  PROVE  Place(u)'
<1>1. Listed' = Listed
  BY SameList
<1>2. HasEntry(u)'
  BY DEF Place, HasEntry, CallerTid
<1>3. LookPlace(u)'
  BY <1>1 DEF Place, LookPlace
<1>4. InsertPlace(u)'
  BY <1>1 DEF Place, InsertPlace
<1>5. RemovePlace(u)'
  BY <1>1 DEF Place, RemovePlace
<1> QED BY <1>2, <1>3, <1>4, <1>5 DEF Place

\* A thread that is not between lock and unlock relies on little.
LEMMA PlaceOutside ==
  ASSUME NEW u, Place(u), pc[u] \notin LockedSteps,
         UNCHANGED <<idFn, build>>,
         pc'[u] = pc[u], entry'[u] = entry[u],
         pc[u] \in InsertSteps \cup RemoveSteps =>
           entry[u] \in heap' /\ tid'[entry[u]] = tid[entry[u]],
         pc[u] = "insertLock" => entry[u] \notin Listed'
  PROVE  Place(u)'
BY DEF Place, HasEntry, LookPlace, InsertPlace, RemovePlace, CallerTid

LEMMA InitListInv == Init => ListInv
<1> SUFFICES ASSUME Init PROVE ListInv
  OBVIOUS
<1>1. Listed = {}
  BY DEF Init, Listed
<1>2. Ring /\ Named
  BY <1>1 DEF Init, Ring, Named
<1>3. Places
  BY DEF Init, Places, Place, HasEntry, LookPlace, InsertPlace, RemovePlace
<1>4. Mine
  BY DEF Init, Mine
<1> QED BY <1>2, <1>3, <1>4 DEF ListInv

-----------------------------------------------------------------------------
\* Initialisation, shutdown and fork: nobody is inside a call afterwards.

LEMMA IdlePlaces ==
  ASSUME \A u \in Threads : pc'[u] = "idle"
  PROVE  Places'
BY DEF Places, Place, HasEntry, LookPlace, InsertPlace, RemovePlace

LEMMA LibraryInitKeeps ==
  ASSUME IInv, ListInv, NEW t \in Threads, LibraryInit(t)
  PROVE  ListInv' /\ Listed' = {NewInfo}
<1> DEFINE e == NewInfo
<1>1. e \in Infos /\ e \notin heap
  BY NewInfoFree DEF LibraryInit, IInv, Types, ListTypes
<1>2. /\ next' = [next EXCEPT ![e] = e] /\ tid' = [tid EXCEPT ![e] = Pid]
      /\ head' = e /\ heap' = heap \cup {e} /\ idFn' = FALSE
      /\ mine' = [mine EXCEPT ![t] = IF build = "tls" THEN e ELSE NoInfo]
      /\ build' = build /\ pc' = pc /\ \A u \in Threads : pc[u] = "idle"
  BY DEF LibraryInit, local, AllIdle
<1> HIDE DEF e
<1>3. next'[e] = e /\ tid'[e] = Pid
  BY <1>1, <1>2 DEF IInv, Types, ListTypes
<1>4. IsRing({e}, e, next')
  BY <1>1, <1>3, RingNew
<1>5. Listed' = {e}
  BY <1>1, <1>2, <1>4, ListedNext
<1>6. Ring' /\ Named'
  BY <1>2, <1>3, <1>4, <1>5 DEF Ring, Named
<1>7. Places'
  BY <1>2, IdlePlaces
<1>8. Mine'
  BY <1>1, <1>2 DEF Mine, ListInv, IInv, Types, ListTypes
<1> QED BY <1>5, <1>6, <1>7, <1>8 DEF ListInv, e

LEMMA LibraryInitFailsKeeps ==
  ASSUME IInv, ListInv, NEW t \in Threads, LibraryInitFails(t)
  PROVE  ListInv' /\ (Listed' = {} \/ Listed' = Listed)
<1>1. /\ UNCHANGED <<next, tid, heap, build, pc>>
      /\ \A u \in Threads : pc[u] = "idle"
      /\ \/ UNCHANGED <<head, mine, idFn>>
         \/ head' = NoInfo /\ mine' = [mine EXCEPT ![t] = NoInfo]
  BY Zenon DEF LibraryInitFails, local, AllIdle
<1>2. Places'
  BY <1>1, IdlePlaces
<1>3. CASE UNCHANGED <<head, mine, idFn>>
  <2>1. Listed' = Listed
    BY <1>1, <1>3, SameList
  <2>2. Ring' /\ Named'
    BY <1>1, <1>3, <2>1 DEF ListInv, Ring, Named
  <2>3. Mine'
    BY <1>1, <1>3 DEF ListInv, Mine
  <2> QED BY <1>2, <2>1, <2>2, <2>3 DEF ListInv
<1>4. CASE head' = NoInfo /\ mine' = [mine EXCEPT ![t] = NoInfo]
  <2>1. Listed' = {}
    BY <1>4 DEF Listed
  <2>2. Ring' /\ Named'
    BY <1>4, <2>1 DEF Ring, Named
  <2>3. Mine'
    BY <1>1, <1>4 DEF ListInv, Mine, IInv, Types, ListTypes
  <2> QED BY <1>2, <2>1, <2>2, <2>3 DEF ListInv
<1> QED BY <1>1, <1>3, <1>4

LEMMA ThreadInitKeeps ==
  ASSUME IInv, ListInv, NEW t \in Threads, ThreadInit(t)
  PROVE  ListInv' /\ Listed = {head} /\ Listed' = Listed
<1>1. /\ UNCHANGED <<head, next, heap, build, mine, pc, entry>>
      /\ idFn' = TRUE /\ tid' = [tid EXCEPT ![head] = t]
      /\ head # NoInfo /\ next[head] = head /\ ~idFn /\ pc[t] = "idle" /\ t = starter
  BY DEF ThreadInit, local
<1>2. head \in Infos /\ IsRing(Listed, head, next)
  BY <1>1 DEF ListInv, Ring, IInv, Types, ListTypes
<1>3. Listed = {head}
  <2>1. head \in Listed
    BY <1>2 DEF IsRing
  <2> QED BY <1>1, <1>2, <2>1, RingLone
<1>4. Listed' = Listed
  BY <1>1, SameList
<1>5. Ring' /\ Named'
  BY <1>1, <1>2, <1>3, <1>4 DEF ListInv, Ring, Named, IInv, Types, ListTypes
<1>6. \A u \in Threads : pc[u] = "idle"
  BY <1>1 DEF IInv, Alone
<1>7. Places'
  BY <1>1, <1>6, IdlePlaces
<1>8. Mine'
  BY <1>1 DEF ListInv, Mine
<1> QED BY <1>3, <1>4, <1>5, <1>7, <1>8 DEF ListInv

LEMMA ShutdownKeeps ==
  ASSUME IInv, ListInv, NEW t \in Threads, Shutdown(t)
  PROVE  ListInv' /\ Listed' = {}
<1> DEFINE i == Lookup(t)
<1>1. /\ UNCHANGED <<build, pc, entry>> /\ head' = NoInfo
      /\ \A u \in Threads : pc[u] = "idle"
      /\ mine' = [mine EXCEPT ![t] = NoInfo]
      /\ heap' = heap \/ heap' = heap \ {i}
  BY Zenon DEF Shutdown, local, AllIdle
<1>2. build = "tls" => i = mine[t]
  BY DEF Lookup
<1> HIDE DEF i
<1>3. Listed' = {}
  BY <1>1 DEF Listed
<1>4. Ring' /\ Named'
  BY <1>1, <1>3 DEF Ring, Named
<1>5. Places'
  BY <1>1, IdlePlaces
<1>6. Mine'
  <2>1. \A u \in Threads : mine'[u] = IF u = t THEN NoInfo ELSE mine[u]
    BY <1>1 DEF IInv, Types, ListTypes
  <2>2. \A u \in Threads : mine'[u] # NoInfo => mine'[u] \in heap'
    <3>1. SUFFICES ASSUME NEW u \in Threads, mine'[u] # NoInfo
                   PROVE  mine'[u] \in heap'
      OBVIOUS
    <3>2. u # t /\ mine'[u] = mine[u] /\ mine[u] \in heap
      BY <2>1, <3>1 DEF ListInv, Mine
    <3>3. build = "tls"
      BY <3>1, <3>2 DEF ListInv, Mine, IInv, Types, ProcessTypes
    <3>4. mine[u] # i
      BY <1>2, <3>1, <3>2, <3>3 DEF ListInv, Mine
    <3> QED BY <1>1, <3>2, <3>4
  <2> QED BY <1>1, <2>1, <2>2 DEF ListInv, Mine
<1> QED BY <1>3, <1>4, <1>5, <1>6 DEF ListInv

LEMMA ForkKeeps ==
  ASSUME IInv, ListInv, NEW t \in Threads, Fork(t)
  PROVE  ListInv' /\ Listed' = Listed
<1>1. /\ UNCHANGED <<build, idFn, head, next, tid, heap>>
      /\ mine' = [u \in Threads |-> IF u = t THEN mine[t] ELSE NoInfo]
      /\ pc' = [u \in Threads |-> "idle"]
  BY DEF Fork
<1>2. Listed' = Listed
  BY <1>1, SameList
<1>3. Ring' /\ Named'
  BY <1>1, <1>2 DEF ListInv, Ring, Named
<1>4. Places'
  BY <1>1, IdlePlaces
<1>5. Mine'
  BY <1>1 DEF ListInv, Mine
<1> QED BY <1>2, <1>3, <1>4, <1>5 DEF ListInv

-----------------------------------------------------------------------------
\* Steps of a call that leave the list alone.

\* Goto moves nobody else.
LEMMA GotoPc ==
  ASSUME IInv, NEW t \in Threads, NEW label, Goto(t, label)
  PROVE  pc'[t] = label /\ \A u \in Threads \ {t} : pc'[u] = pc[u]
BY DEF IInv, Types, LocalTypes, Goto

\* What Proceed does to the records and to the caller: a new record, its own,
\* or none.
LEMMA ProceedDoes ==
  ASSUME IInv, ListInv, NEW t \in Threads, NEW o \in Calls,
         NEW i \in Infos \cup {NoInfo}, Proceed(t, o, i),
         i # NoInfo => i \in heap
  PROVE  /\ heap \subseteq heap' /\ \A j \in heap : tid'[j] = tid[j]
         /\ \A u \in Threads \ {t} : pc'[u] = pc[u] /\ entry'[u] = entry[u]
         /\ \/ /\ pc'[t] = "insertLock" /\ i = NoInfo
               /\ entry'[t] \in heap' /\ entry'[t] \notin heap
               /\ tid'[entry'[t]] = CallerTid(t)
            \/ /\ pc'[t] = "removeLock" /\ entry'[t] = i
               /\ i \in heap' /\ tid'[i] = CallerTid(t)
            \/ pc'[t] = "idle" /\ entry'[t] = NoInfo
               /\ (i = NoInfo \/ o = "register" \/ ~Owns(t, i))
<1> DEFINE e == NewInfo
<1>1. heap \subseteq Infos /\ tid \in [Infos -> Threads \cup {Pid}]
      /\ entry \in [Threads -> Infos \cup {NoInfo}]
  BY DEF IInv, Types, ListTypes, LocalTypes
<1>2. CASE i = NoInfo /\ heap # Infos /\ heap' = heap \cup {e}
           /\ tid' = [tid EXCEPT ![e] = CallerTid(t)]
           /\ entry' = [entry EXCEPT ![t] = e]
           /\ Goto(t, "insertLock")
  <2>1. e \in Infos /\ e \notin heap
    BY <1>1, <1>2, NewInfoFree
  <2> HIDE DEF e
  <2>2. pc'[t] = "insertLock" /\ \A u \in Threads \ {t} : pc'[u] = pc[u]
    BY <1>2, GotoPc
  <2>3. tid'[e] = CallerTid(t) /\ (\A j \in heap : tid'[j] = tid[j]) /\ entry'[t] = e
    BY <1>1, <1>2, <2>1
  <2> QED BY <1>1, <1>2, <2>1, <2>2, <2>3
<1>3. CASE Owns(t, i) /\ entry' = [entry EXCEPT ![t] = i]
           /\ Goto(t, "removeLock") /\ UNCHANGED <<heap, tid>>
  <2>1. i # NoInfo /\ tid[i] = CallerTid(t)
    BY <1>3 DEF Owns
  <2>2. pc'[t] = "removeLock" /\ \A u \in Threads \ {t} : pc'[u] = pc[u]
    BY <1>3, GotoPc
  <2> QED BY <1>1, <1>3, <2>1, <2>2
<1>4. CASE (o = "register" \/ ~Owns(t, i))
           /\ entry' = [entry EXCEPT ![t] = NoInfo]
           /\ Goto(t, "idle") /\ UNCHANGED <<heap, tid>>
  <2>1. pc'[t] = "idle" /\ \A u \in Threads \ {t} : pc'[u] = pc[u]
    BY <1>4, GotoPc
  <2> QED BY <1>1, <1>4, <2>1
<1> QED BY <1>2, <1>3, <1>4, Zenon DEF Proceed, e

LEMMA ProceedKeeps ==
  ASSUME IInv, ListInv, NEW t \in Threads, NEW o \in Calls,
         NEW i \in Infos \cup {NoInfo}, Proceed(t, o, i),
         i # NoInfo => i \in heap,
         build = "tls" => i = mine[t],
         UNCHANGED <<head, next, idFn, build, mine, tmp, prev>>
  PROVE  ListInv' /\ Listed' = Listed
<1>1. /\ heap \subseteq heap' /\ \A j \in heap : tid'[j] = tid[j]
      /\ \A u \in Threads \ {t} : pc'[u] = pc[u] /\ entry'[u] = entry[u]
      /\ \/ /\ pc'[t] = "insertLock" /\ i = NoInfo
            /\ entry'[t] \in heap' /\ entry'[t] \notin heap
            /\ tid'[entry'[t]] = CallerTid(t)
         \/ /\ pc'[t] = "removeLock" /\ entry'[t] = i
            /\ i \in heap' /\ tid'[i] = CallerTid(t)
         \/ pc'[t] = "idle" /\ entry'[t] = NoInfo
  BY ProceedDoes
<1>2. Listed' = Listed /\ Listed \subseteq heap
  BY SameList, ListedAllocated DEF ListInv
<1>3. Ring' /\ Named'
  BY <1>1, <1>2 DEF ListInv, Ring, Named
<1>4. Places'
  <2>1. ASSUME NEW u \in Threads \ {t} PROVE Place(u)'
    BY <1>1, <1>2, PlaceStays DEF ListInv, Places
  <2>2. CallerTid(t)' = CallerTid(t)
    BY DEF CallerTid
  <2>3. Place(t)'
    BY <1>1, <1>2, <2>2 DEF Place, HasEntry, LookPlace, InsertPlace, RemovePlace
  <2> QED BY <2>1, <2>3 DEF Places
<1>5. Mine'
  <2>1. heap' \subseteq Infos
    BY ProceedTypes DEF IInv
  <2>2. pc'[t] = "insertLock" => \A u \in Threads : mine[u] # entry'[t]
    BY <1>1, <2>1 DEF ListInv, Mine
  <2> QED BY <1>1, <2>2 DEF ListInv, Mine
<1> QED BY <1>2, <1>3, <1>4, <1>5 DEF ListInv

LEMMA CallKeeps ==
  ASSUME IInv, ListInv, NEW t \in Threads, NEW o \in Calls, Call(t, o)
  PROVE  ListInv' /\ Listed' = Listed
<1> DEFINE i == IF build = "tls" THEN mine[t] ELSE head
<1>1. UNCHANGED <<build, idFn, head, next, mine, tmp, prev>> /\ pc[t] = "idle"
  BY DEF Call, process
<1>2. CASE build = "list" /\ idFn
  <2>1. UNCHANGED <<heap, tid, entry>> /\ Goto(t, "lookLock")
    BY <1>2 DEF Call
  <2>2. pc'[t] = "lookLock" /\ \A u \in Threads \ {t} : pc'[u] = pc[u]
    BY <2>1, GotoPc
  <2>3. Listed' = Listed /\ Listed \subseteq heap
    BY <1>1, SameList, ListedAllocated DEF ListInv
  <2>4. Ring' /\ Named'
    BY <1>1, <2>1, <2>3 DEF ListInv, Ring, Named
  <2>5. ASSUME NEW u \in Threads PROVE Place(u)'
    <3>1. CASE u = t
      BY <1>1, <1>2, <2>2, <3>1 DEF Place, HasEntry, LookPlace, InsertPlace, RemovePlace
    <3>2. CASE u # t
      BY <1>1, <2>1, <2>2, <2>3, <3>2, PlaceStays DEF ListInv, Places
    <3> QED BY <3>1, <3>2
  <2>6. Mine'
    BY <1>1, <2>1, <2>2 DEF ListInv, Mine
  <2> QED BY <2>3, <2>4, <2>5, <2>6 DEF ListInv, Places
<1>3. CASE ~(build = "list" /\ idFn)
  <2>1. Proceed(t, o, i)
    BY <1>3 DEF Call
  <2>2. i \in Infos \cup {NoInfo} /\ (build = "tls" => i = mine[t])
    BY DEF IInv, Types, ListTypes
  <2>3. i # NoInfo => i \in heap
    <3>1. head # NoInfo => head \in heap
      BY DEF ListInv, Ring, IsRing
    <3> QED BY <3>1 DEF ListInv, Mine
  <2> HIDE DEF i
  <2> QED BY <1>1, <2>1, <2>2, <2>3, ProceedKeeps
<1> QED BY <1>2, <1>3

LEMMA LookLockKeeps ==
  ASSUME IInv, ListInv, NEW t \in Threads, LookLock(t)
  PROVE  ListInv' /\ Listed' = Listed
<1>1. /\ UNCHANGED <<build, idFn, head, next, tid, heap, mine, entry, prev>>
      /\ pc[t] = "lookLock" /\ Goto(t, "lookWalk")
      /\ tmp'[t] = head /\ \A u \in Threads \ {t} : tmp'[u] = tmp[u]
  BY DEF LookLock, process, IInv, Types, LocalTypes
<1>2. pc'[t] = "lookWalk" /\ \A u \in Threads \ {t} : pc'[u] = pc[u]
  BY <1>1, GotoPc
<1>3. Listed' = Listed /\ Listed \subseteq heap /\ (head # NoInfo => head \in Listed)
  BY <1>1, SameList, ListedAllocated DEF ListInv, Ring, IsRing
<1>4. Ring' /\ Named'
  BY <1>1, <1>3 DEF ListInv, Ring, Named
<1>5. ASSUME NEW u \in Threads PROVE Place(u)'
  <2>1. CASE u = t
    BY <1>1, <1>2, <1>3, <2>1 DEF ListInv, Places, Place, HasEntry, LookPlace,
                                  InsertPlace, RemovePlace
  <2>2. CASE u # t
    BY <1>1, <1>2, <1>3, <2>2, PlaceStays DEF ListInv, Places
  <2> QED BY <2>1, <2>2
<1>6. Mine'
  BY <1>1, <1>2 DEF ListInv, Mine
<1> QED BY <1>3, <1>4, <1>5, <1>6 DEF ListInv, Places

LEMMA LookUnlockKeeps ==
  ASSUME IInv, ListInv, NEW t \in Threads, LookUnlock(t)
  PROVE  ListInv' /\ Listed' = Listed
<1>1. /\ UNCHANGED <<build, idFn, head, next, mine, tmp, prev>>
      /\ pc[t] = "lookUnlock" /\ Proceed(t, op[t], entry[t])
  BY DEF LookUnlock, process
<1>2. op[t] \in Calls /\ entry[t] \in Infos \cup {NoInfo}
  BY DEF IInv, Types, LocalTypes
<1>3. build = "list" /\ (entry[t] # NoInfo => entry[t] \in heap)
  BY <1>1, ListedAllocated DEF ListInv, Places, Place, LookPlace
<1> QED BY <1>1, <1>2, <1>3, ProceedKeeps

LEMMA InsertLockKeeps ==
  ASSUME IInv, ListInv, NEW t \in Threads, InsertLock(t)
  PROVE  ListInv' /\ Listed' = Listed
<1>1. /\ UNCHANGED <<build, idFn, head, next, tid, heap, mine, entry, tmp, prev>>
      /\ pc[t] = "insertLock" /\ Goto(t, "insertLink")
  BY DEF InsertLock, process
<1>2. pc'[t] = "insertLink" /\ \A u \in Threads \ {t} : pc'[u] = pc[u]
  BY <1>1, GotoPc
<1>3. Listed' = Listed /\ Listed \subseteq heap
  BY <1>1, SameList, ListedAllocated DEF ListInv
<1>4. Ring' /\ Named'
  BY <1>1, <1>3 DEF ListInv, Ring, Named
<1>5. ASSUME NEW u \in Threads PROVE Place(u)'
  <2>1. CASE u = t
    BY <1>1, <1>2, <1>3, <2>1 DEF ListInv, Places, Place, HasEntry, LookPlace,
                                  InsertPlace, RemovePlace, CallerTid
  <2>2. CASE u # t
    BY <1>1, <1>2, <1>3, <2>2, PlaceStays DEF ListInv, Places
  <2> QED BY <2>1, <2>2
<1>6. Mine'
  BY <1>1, <1>2 DEF ListInv, Mine
<1> QED BY <1>3, <1>4, <1>5, <1>6 DEF ListInv, Places

LEMMA InsertUnlockKeeps ==
  ASSUME IInv, ListInv, NEW t \in Threads, InsertUnlock(t)
  PROVE  ListInv' /\ Listed' = Listed
<1>1. /\ UNCHANGED <<build, idFn, head, next, tid, heap, tmp, prev>>
      /\ pc[t] = "insertUnlock" /\ Goto(t, "idle")
      /\ mine' = IF build = "tls" THEN [mine EXCEPT ![t] = entry[t]] ELSE mine
      /\ entry' = [entry EXCEPT ![t] = NoInfo]
  BY DEF InsertUnlock, process
<1>2. pc'[t] = "idle" /\ \A u \in Threads \ {t} : pc'[u] = pc[u]
  BY <1>1, GotoPc
<1>3. Listed' = Listed /\ Listed \subseteq heap
  BY <1>1, SameList, ListedAllocated DEF ListInv
<1>4. Ring' /\ Named'
  BY <1>1, <1>3 DEF ListInv, Ring, Named
<1>5. \A u \in Threads \ {t} : entry'[u] = entry[u]
  BY <1>1 DEF IInv, Types, LocalTypes
<1>6. ASSUME NEW u \in Threads PROVE Place(u)'
  <2>1. CASE u = t
    BY <1>2, <2>1 DEF Place, HasEntry, LookPlace, InsertPlace, RemovePlace
  <2>2. CASE u # t
    BY <1>1, <1>2, <1>3, <1>5, <2>2, PlaceStays DEF ListInv, Places
  <2> QED BY <2>1, <2>2
<1>7. Mine'
  <2>1. CASE build = "list"
    BY <1>1, <1>2, <2>1 DEF ListInv, Mine
  <2>2. CASE build = "tls"
    <3>1. mine'[t] = entry[t] /\ \A u \in Threads \ {t} : mine'[u] = mine[u]
      BY <1>1, <2>2 DEF IInv, Types, ListTypes
    <3>2. entry[t] \in heap /\ \A u \in Threads : mine[u] # entry[t]
      BY <1>1, <2>2, Zenon DEF ListInv, Mine, Places, Place, HasEntry
    <3>3. \A u \in Threads \ {t} : pc[u] \in InsertSteps => entry[u] # entry[t]
      BY <1>1, OwnEntry DEF ListInv
    <3> QED BY <1>1, <1>2, <1>5, <2>2, <3>1, <3>2, <3>3 DEF ListInv, Mine
  <2> QED BY <2>1, <2>2 DEF IInv, Types, ProcessTypes
<1> QED BY <1>3, <1>4, <1>6, <1>7 DEF ListInv, Places

LEMMA RemoveLockKeeps ==
  ASSUME IInv, ListInv, NEW t \in Threads, RemoveLock(t)
  PROVE  ListInv' /\ Listed' = Listed
<1>1. /\ UNCHANGED <<build, idFn, head, next, tid, heap, mine, entry>>
      /\ pc[t] = "removeLock" /\ Goto(t, "removeWalk")
      /\ tmp'[t] = head /\ prev'[t] = NoInfo
      /\ \A u \in Threads \ {t} : tmp'[u] = tmp[u] /\ prev'[u] = prev[u]
  BY DEF RemoveLock, process, IInv, Types, LocalTypes
<1>2. pc'[t] = "removeWalk" /\ \A u \in Threads \ {t} : pc'[u] = pc[u]
  BY <1>1, GotoPc
<1>3. Listed' = Listed /\ Listed \subseteq heap /\ (head # NoInfo => head \in Listed)
  BY <1>1, SameList, ListedAllocated DEF ListInv, Ring, IsRing
<1>4. Ring' /\ Named'
  BY <1>1, <1>3 DEF ListInv, Ring, Named
<1>5. ASSUME NEW u \in Threads PROVE Place(u)'
  <2>1. CASE u = t
    BY <1>1, <1>2, <1>3, <2>1 DEF ListInv, Places, Place, HasEntry, LookPlace,
                                  InsertPlace, RemovePlace, CallerTid
  <2>2. CASE u # t
    BY <1>1, <1>2, <1>3, <2>2, PlaceStays DEF ListInv, Places
  <2> QED BY <2>1, <2>2
<1>6. Mine'
  BY <1>1, <1>2 DEF ListInv, Mine
<1> QED BY <1>3, <1>4, <1>5, <1>6 DEF ListInv, Places

LEMMA RemoveWalkKeeps ==
  ASSUME IInv, ListInv, NEW t \in Threads, RemoveWalk(t)
  PROVE  ListInv' /\ Listed' = Listed
<1>1. /\ UNCHANGED <<build, idFn, head, next, tid, heap, mine, entry>>
      /\ pc[t] = "removeWalk" /\ tmp[t] # NoInfo
      /\ \A u \in Threads \ {t} : tmp'[u] = tmp[u] /\ prev'[u] = prev[u]
      /\ \/ /\ tmp[t] = entry[t] /\ prev[t] # NoInfo
            /\ Goto(t, "removeLink") /\ UNCHANGED <<tmp, prev>>
         \/ pc' = pc /\ prev'[t] = tmp[t] /\ tmp'[t] = next[tmp[t]]
  BY DEF RemoveWalk, process, IInv, Types, LocalTypes
<1>2. /\ pc'[t] \in {"removeWalk", "removeLink"}
      /\ \A u \in Threads \ {t} : pc'[u] = pc[u]
  BY <1>1, GotoPc
<1>3. Listed' = Listed /\ Listed \subseteq heap
  BY <1>1, SameList, ListedAllocated DEF ListInv
<1>4. Ring' /\ Named'
  BY <1>1, <1>3 DEF ListInv, Ring, Named
<1>5. tmp[t] \in Listed /\ next[tmp[t]] \in Listed
  <2>1. tmp[t] \in Listed
    BY <1>1, Zenon DEF ListInv, Places, Place, RemovePlace
  <2> QED BY <2>1, ListedAllocated DEF ListInv, Ring, IsRing, ClosedUnder
<1>6. ASSUME NEW u \in Threads PROVE Place(u)'
  <2>1. CASE u = t
    <3>1. Place(t)
      BY DEF ListInv, Places
    <3>2. HasEntry(t)' /\ LookPlace(t)' /\ InsertPlace(t)'
      BY <1>1, <1>2, <3>1 DEF Place, HasEntry, LookPlace, InsertPlace, CallerTid
    <3>3. RemovePlace(t)'
      <4>1. CASE /\ tmp[t] = entry[t] /\ prev[t] # NoInfo
                 /\ Goto(t, "removeLink") /\ UNCHANGED <<tmp, prev>>
        <5>1. pc'[t] = "removeLink"
          BY <4>1, GotoPc
        <5> QED BY <1>1, <1>3, <3>1, <4>1, <5>1 DEF Place, RemovePlace
      <4>2. CASE pc' = pc /\ prev'[t] = tmp[t] /\ tmp'[t] = next[tmp[t]]
        BY <1>1, <1>3, <1>5, <4>2 DEF RemovePlace
      <4> QED BY <1>1, <4>1, <4>2
    <3> QED BY <2>1, <3>2, <3>3 DEF Place
  <2>2. CASE u # t
    BY <1>1, <1>2, <1>3, <2>2, PlaceStays DEF ListInv, Places
  <2> QED BY <2>1, <2>2
<1>7. Mine'
  BY <1>1, <1>2 DEF ListInv, Mine
<1> QED BY <1>3, <1>4, <1>6, <1>7 DEF ListInv, Places

-----------------------------------------------------------------------------
\* Steps between lock and unlock that store into the list.

\* The others are where they were, if their records are.
LEMMA OthersStay ==
  ASSUME IInv, ListInv, NEW t \in Threads, pc[t] \in LockedSteps,
         UNCHANGED <<idFn, build>>,
         \A u \in Threads \ {t} : pc'[u] = pc[u] /\ entry'[u] = entry[u],
         \A u \in Threads \ {t} :
           pc[u] \in InsertSteps \cup RemoveSteps =>
             entry[u] \in heap' /\ tid'[entry[u]] = tid[entry[u]],
         \A u \in Threads \ {t} : pc[u] = "insertLock" => entry[u] \notin Listed',
         Place(t)'
  PROVE  Places'
<1>1. ASSUME NEW u \in Threads \ {t} PROVE Place(u)'
  <2>1. Place(u)
    BY DEF ListInv, Places
  <2>2. pc[u] \notin LockedSteps
    BY Exclusive
  <2> QED BY <2>1, <2>2, PlaceOutside
<1> QED BY <1>1 DEF Places

LEMMA LookWalkKeeps ==
  ASSUME IInv, ListInv, NEW t \in Threads, LookWalk(t)
  PROVE  ListInv' /\ Listed' = Listed
<1> DEFINE i == tmp[t]
           hit == IF i = NoInfo THEN FALSE ELSE tid[i] = t
           more == IF i = NoInfo THEN FALSE ELSE next[i] # head
<1>1. /\ UNCHANGED <<build, idFn, next, tid, heap, mine, prev>> /\ pc[t] = "lookWalk"
      /\ IF ~hit /\ more
         THEN tmp' = [tmp EXCEPT ![t] = next[i]] /\ UNCHANGED <<head, entry, pc>>
         ELSE /\ entry' = [entry EXCEPT ![t] = IF hit THEN i ELSE NoInfo]
              /\ head' = IF hit THEN i ELSE head
              /\ Goto(t, "lookUnlock")
  BY DEF LookWalk, process
<1>2. Place(t) /\ (IF head = NoInfo THEN i = NoInfo ELSE i \in Listed)
      /\ idFn /\ build = "list"
  BY <1>1, Zenon DEF ListInv, Places, Place, LookPlace
<1>3. Listed \subseteq heap /\ Listed \subseteq Infos
  BY ListedAllocated DEF ListInv
<1>4. CASE ~hit /\ more
  <2>1. tmp'[t] = next[i] /\ UNCHANGED <<head, entry, pc>>
    BY <1>1, <1>4 DEF IInv, Types, LocalTypes
  <2>2. Listed' = Listed
    BY <1>1, <2>1, SameList
  <2>3. head # NoInfo /\ next[i] \in Listed
    BY <1>2, <1>3, <1>4 DEF ListInv, Ring, IsRing, ClosedUnder
  <2>4. Ring' /\ Named' /\ Mine'
    BY <1>1, <2>1, <2>2 DEF ListInv, Ring, Named, Mine
  <2>5. Place(t)'
    BY <1>1, <1>2, <2>1, <2>2, <2>3 DEF Place, HasEntry, LookPlace, InsertPlace,
                                        RemovePlace
  <2>6. Places'
    <3>1. \A u \in Threads \ {t} : Place(u)
      BY DEF ListInv, Places
    <3> QED BY <1>1, <2>1, <2>2, <2>5, <3>1, OthersStay, Zenon
               DEF Place, HasEntry, InsertPlace
  <2> QED BY <2>2, <2>4, <2>6 DEF ListInv
<1>5. CASE ~(~hit /\ more)
  <2>1. /\ entry'[t] = IF hit THEN i ELSE NoInfo
        /\ \A u \in Threads \ {t} : entry'[u] = entry[u]
        /\ head' = IF hit THEN i ELSE head
    BY <1>1, <1>5 DEF IInv, Types, LocalTypes
  <2>2. pc'[t] = "lookUnlock" /\ \A u \in Threads \ {t} : pc'[u] = pc[u]
    BY <1>1, <1>5, GotoPc
  <2>3. hit => i \in Listed /\ i # NoInfo /\ head # NoInfo /\ tid[i] = t
    BY <1>2
  <2> HIDE DEF hit
  <2>4. Listed' = Listed /\ Ring'
    <3>1. CASE head = NoInfo
      BY <1>1, <2>1, <2>3, <3>1, SameList DEF Ring
    <3>2. CASE head # NoInfo
      <4>1. head' \in Listed /\ head' # NoInfo
        BY <1>3, <2>1, <2>3, <3>2 DEF ListInv, Ring, IsRing
      <4>2. IsRing(Listed, head', next')
        BY <1>1, <3>2, <4>1, RingFrame DEF ListInv, Ring
      <4>3. Listed' = Listed
        BY <4>1, <4>2, ListedNext
      <4> QED BY <1>1, <1>3, <4>2, <4>3 DEF Ring
    <3> QED BY <3>1, <3>2
  <2>5. Named' /\ Mine'
    BY <1>1, <2>2, <2>4, <1>2 DEF ListInv, Named, Mine
  <2>6. Place(t)'
    BY <1>1, <1>2, <2>1, <2>2, <2>3, <2>4 DEF Place, HasEntry, LookPlace,
                                              InsertPlace, RemovePlace
  <2>7. Places'
    <3>1. \A u \in Threads \ {t} : Place(u)
      BY DEF ListInv, Places
    <3> QED BY <1>1, <2>1, <2>2, <2>4, <2>6, <3>1, OthersStay, Zenon
               DEF Place, HasEntry, InsertPlace
  <2> QED BY <2>4, <2>5, <2>7 DEF ListInv
<1> QED BY <1>4, <1>5

LEMMA InsertLinkKeeps ==
  ASSUME IInv, ListInv, NEW t \in Threads, InsertLink(t)
  PROVE  /\ ListInv'
         /\ Listed' = IF head = NoInfo THEN {} ELSE Listed \cup {entry[t]}
<1> DEFINE e == entry[t]
<1>1. /\ UNCHANGED <<build, idFn, head, tid, heap, mine, entry, tmp, prev>>
      /\ pc[t] = "insertLink" /\ Goto(t, "insertHead") /\ next' = Linked(e)
  BY DEF InsertLink, process
<1>2. pc'[t] = "insertHead" /\ \A u \in Threads \ {t} : pc'[u] = pc[u]
  BY <1>1, GotoPc
<1>3. Place(t) /\ e \in heap /\ tid[e] = CallerTid(t) /\ e \notin Listed
  BY <1>1, Zenon DEF ListInv, Places, Place, HasEntry, InsertPlace
<1>4. /\ Listed \subseteq heap /\ Listed \subseteq Infos
      /\ e \in Infos /\ head \in Infos \cup {NoInfo} /\ next \in Links
      /\ tid \in [Infos -> Threads \cup {Pid}]
  BY <1>3, ListedAllocated DEF ListInv, IInv, Types, ListTypes, Links
<1> HIDE DEF e
<1>5. Listed' = (IF head = NoInfo THEN {} ELSE Listed \cup {e}) /\ Ring'
  <2>1. CASE head = NoInfo
    BY <1>1, <2>1 DEF Listed, Ring
  <2>2. CASE head # NoInfo
    <3>1. IsRing(Listed, head, next) /\ head \in Listed /\ head # e
      BY <1>3, <2>2 DEF ListInv, Ring, IsRing
    <3>2. /\ next' \in Links /\ next'[e] = next[head] /\ next'[head] = e
          /\ \A i \in Listed \ {head} : next'[i] = next[i]
      <4>1. CASE next[head] = head
        <5>1. next' = [next EXCEPT ![head] = e, ![e] = head]
          BY <1>1, <2>2, <4>1 DEF Linked
        <5> QED BY <1>3, <1>4, <3>1, <4>1, <5>1 DEF Links
      <4>2. CASE next[head] # head
        <5>1. next' = [next EXCEPT ![e] = next[head], ![head] = e]
          BY <1>1, <2>2, <4>2 DEF Linked
        <5> QED BY <1>3, <1>4, <3>1, <5>1 DEF Links
      <4> QED BY <4>1, <4>2
    <3>3. IsRing(Listed \cup {e}, head', next')
      BY <1>1, <1>3, <1>4, <3>1, <3>2, RingInsert
    <3>4. Listed' = Listed \cup {e}
      BY <1>1, <2>2, <3>3, ListedNext
    <3> QED BY <1>1, <1>3, <1>4, <2>2, <3>3, <3>4 DEF Ring
  <2> QED BY <2>1, <2>2
<1>6. Named'
  <2>1. IF idFn THEN tid[e] \in Threads ELSE tid[e] = Pid
    BY <1>3 DEF CallerTid
  <2> QED BY <1>1, <1>5, <2>1 DEF ListInv, Named
<1>7. Place(t)'
  <2>1. head = NoInfo => next'[e] = e
    BY <1>1, <1>4 DEF Linked, Links
  <2> QED BY <1>1, <1>2, <1>3, <1>5, <2>1
          DEF Place, HasEntry, LookPlace, InsertPlace, RemovePlace, CallerTid, e
<1>8. Places'
  <2>1. \A u \in Threads \ {t} : Place(u)
    BY DEF ListInv, Places
  <2>2. \A u \in Threads \ {t} : pc[u] = "insertLock" => entry[u] # e
    BY <1>1, OwnEntry DEF ListInv, e
  <2>3. \A u \in Threads \ {t} : pc[u] = "insertLock" => entry[u] \notin Listed'
    BY <1>5, <2>1, <2>2 DEF Place, InsertPlace
  <2> QED BY <1>1, <1>2, <1>7, <2>1, <2>3, OthersStay, Zenon DEF Place, HasEntry
<1>9. Mine'
  BY <1>1, <1>2 DEF ListInv, Mine
<1> QED BY <1>5, <1>6, <1>8, <1>9 DEF ListInv, e

LEMMA InsertHeadKeeps ==
  ASSUME IInv, ListInv, NEW t \in Threads, InsertHead(t)
  PROVE  ListInv' /\ Listed' = Listed \cup {entry[t]}
<1> DEFINE e == entry[t]
<1>1. /\ UNCHANGED <<build, idFn, next, tid, heap, mine, entry, tmp, prev>>
      /\ pc[t] = "insertHead" /\ Goto(t, "insertUnlock") /\ head' = e
  BY DEF InsertHead, process
<1>2. pc'[t] = "insertUnlock" /\ \A u \in Threads \ {t} : pc'[u] = pc[u]
  BY <1>1, GotoPc
<1>3. /\ Place(t) /\ e \in heap /\ tid[e] = CallerTid(t)
      /\ IF head = NoInfo THEN next[e] = e ELSE e \in Listed
  BY <1>1, Zenon DEF ListInv, Places, Place, HasEntry, InsertPlace
<1>4. e \in Infos /\ e # NoInfo /\ Listed \subseteq heap
  BY <1>3, ListedAllocated DEF ListInv, IInv, Types, ListTypes
<1> HIDE DEF e
<1>5. Listed' = Listed \cup {e} /\ Ring'
  <2>1. IsRing(Listed \cup {e}, e, next')
    <3>1. CASE head = NoInfo
      <4>1. Listed = {}
        BY <3>1 DEF Listed
      <4> QED BY <1>1, <1>3, <1>4, <3>1, <4>1, RingNew
    <3>2. CASE head # NoInfo
      <4>1. e \in Listed /\ IsRing(Listed, head, next) /\ Listed \cup {e} = Listed
        BY <1>3, <3>2 DEF ListInv, Ring
      <4> QED BY <1>1, <4>1, RingFrame
    <3> QED BY <3>1, <3>2
  <2>2. Listed' = Listed \cup {e}
    BY <1>1, <1>4, <2>1, ListedNext
  <2> QED BY <1>1, <1>3, <1>4, <2>1, <2>2 DEF Ring
<1>6. Named'
  <2>1. IF idFn THEN tid[e] \in Threads ELSE tid[e] = Pid
    BY <1>3 DEF CallerTid
  <2> QED BY <1>1, <1>5, <2>1 DEF ListInv, Named
<1>7. Place(t)'
  BY <1>1, <1>2, <1>3, <1>5
     DEF Place, HasEntry, LookPlace, InsertPlace, RemovePlace, CallerTid, e
<1>8. Places'
  <2>1. \A u \in Threads \ {t} : Place(u)
    BY DEF ListInv, Places
  <2>2. \A u \in Threads \ {t} : pc[u] = "insertLock" => entry[u] # e
    BY <1>1, OwnEntry DEF ListInv, e
  <2>3. \A u \in Threads \ {t} : pc[u] = "insertLock" => entry[u] \notin Listed'
    BY <1>5, <2>1, <2>2 DEF Place, InsertPlace
  <2> QED BY <1>1, <1>2, <1>7, <2>1, <2>3, OthersStay, Zenon DEF Place, HasEntry
<1>9. Mine'
  BY <1>1, <1>2 DEF ListInv, Mine
<1> QED BY <1>5, <1>6, <1>8, <1>9 DEF ListInv, e

LEMMA RemoveLinkKeeps ==
  ASSUME IInv, ListInv, NEW t \in Threads, RemoveLink(t)
  PROVE  ListInv' /\ entry[t] \in Listed /\ Listed' = Listed \ {entry[t]}
<1> DEFINE i == tmp[t]
           p == prev[t]
<1>1. /\ UNCHANGED <<build, idFn, tid, heap, mine, entry, tmp, prev>>
      /\ pc[t] = "removeLink" /\ Goto(t, "removeUnlock")
      /\ IF p = i
         THEN head' = NoInfo
         ELSE /\ next' = [next EXCEPT ![p] = next[i]]
              /\ head' = IF head = i THEN next[i] ELSE head
  BY DEF RemoveLink, process
<1>2. pc'[t] = "removeUnlock" /\ \A u \in Threads \ {t} : pc'[u] = pc[u]
  BY <1>1, GotoPc
<1>3. /\ Place(t) /\ i = entry[t] /\ p \in Listed /\ next[p] = i
      /\ entry[t] \in heap /\ tid[entry[t]] = CallerTid(t)
  BY <1>1, Zenon DEF ListInv, Places, Place, HasEntry, RemovePlace
<1>4. /\ Listed \subseteq heap /\ Listed \subseteq Infos /\ head # NoInfo
      /\ next \in Links
  BY <1>3, ListedAllocated DEF ListInv, IInv, Types, ListTypes, Links
<1>5. IsRing(Listed, head, next) /\ i \in Listed
  BY <1>3, <1>4 DEF ListInv, Ring, IsRing, ClosedUnder
<1> HIDE DEF i, p
<1>6. Listed' = Listed \ {i} /\ Ring'
  <2>1. CASE p = i
    <3>1. Listed = {i}
      BY <1>3, <1>5, <2>1, RingLone
    <3>2. head' = NoInfo /\ Listed' = {}
      BY <1>1, <2>1 DEF Listed
    <3> QED BY <3>1, <3>2 DEF Ring
  <2>2. CASE p # i
    <3>1. next' = [next EXCEPT ![p] = next[i]] /\ head' = IF head = i THEN next[i] ELSE head
      BY <1>1, <2>2
    <3>2. next' \in Links /\ next'[p] = next[i] /\ \A j \in Listed \ {p} : next'[j] = next[j]
      <4>1. next[i] \in Infos \cup {NoInfo}
        BY <1>4, <1>5 DEF Links
      <4> QED BY <1>3, <1>4, <3>1, <4>1 DEF Links
    <3>3. IsRing(Listed \ {i}, head', next')
      <4>1. IsRing(Listed \ {i}, IF head = i THEN next[i] ELSE head, next')
        BY <1>3, <1>4, <1>5, <2>2, <3>2, RingRemove
      <4> QED BY <3>1, <4>1
    <3>4. head' # NoInfo
      BY <1>4, <3>3 DEF IsRing
    <3>5. Listed' = Listed \ {i}
      BY <3>3, <3>4, ListedNext
    <3> QED BY <1>1, <1>4, <3>3, <3>5 DEF Ring
  <2> QED BY <2>1, <2>2
<1>7. Named'
  BY <1>1, <1>6 DEF ListInv, Named
<1>8. Place(t)'
  BY <1>1, <1>2, <1>3, <1>6
     DEF Place, HasEntry, LookPlace, InsertPlace, RemovePlace, CallerTid
<1>9. Places'
  <2>1. \A u \in Threads \ {t} : Place(u)
    BY DEF ListInv, Places
  <2>2. \A u \in Threads \ {t} : pc[u] = "insertLock" => entry[u] \notin Listed'
    BY <1>6, <2>1 DEF Place, InsertPlace
  <2> QED BY <1>1, <1>2, <1>8, <2>1, <2>2, OthersStay, Zenon DEF Place, HasEntry
<1>10. Mine'
  BY <1>1, <1>2 DEF ListInv, Mine
<1> QED BY <1>3, <1>5, <1>6, <1>7, <1>9, <1>10 DEF ListInv

LEMMA RemoveUnlockKeeps ==
  ASSUME IInv, ListInv, NEW t \in Threads, RemoveUnlock(t)
  PROVE  ListInv' /\ Listed' = Listed /\ entry[t] \notin Listed
<1> DEFINE e == entry[t]
<1>1. /\ UNCHANGED <<build, idFn, head>>
      /\ pc[t] = "removeUnlock" /\ Goto(t, "idle")
      /\ mine' = [mine EXCEPT ![t] = NoInfo]
      /\ heap' = heap \ {e}
      /\ next' = [next EXCEPT ![e] = NoInfo]
      /\ tid' = [tid EXCEPT ![e] = Pid]
      /\ entry' = [entry EXCEPT ![t] = NoInfo]
  BY DEF RemoveUnlock, process
<1>2. pc'[t] = "idle" /\ \A u \in Threads \ {t} : pc'[u] = pc[u]
  BY <1>1, GotoPc
<1>3. e \in heap /\ e \notin Listed
  BY <1>1, Zenon DEF ListInv, Places, Place, HasEntry, RemovePlace
<1>4. /\ Listed \subseteq heap /\ Listed \subseteq Infos /\ heap \subseteq Infos
      /\ next \in Links /\ tid \in [Infos -> Threads \cup {Pid}]
      /\ entry \in [Threads -> Infos \cup {NoInfo}]
      /\ mine \in [Threads -> Infos \cup {NoInfo}]
  BY ListedAllocated DEF ListInv, IInv, Types, ListTypes, LocalTypes, Links
<1>5. \A u \in Threads \ {t} : pc[u] \in InsertSteps \cup RemoveSteps => entry[u] # e
  BY <1>1, OwnEntry DEF ListInv
<1> HIDE DEF e
<1>6. /\ \A i \in Infos \ {e} : next'[i] = next[i] /\ tid'[i] = tid[i]
      /\ \A u \in Threads \ {t} : entry'[u] = entry[u] /\ mine'[u] = mine[u]
      /\ mine'[t] = NoInfo
  BY <1>1, <1>4 DEF Links
<1>7. Listed' = Listed /\ Ring'
  <2>1. CASE head = NoInfo
    BY <1>1, <2>1 DEF Listed, Ring
  <2>2. CASE head # NoInfo
    <3>1. IsRing(Listed, head, next) /\ head \in Listed
      BY <2>2 DEF ListInv, Ring, IsRing
    <3>2. IsRing(Listed, head', next')
      <4>1. head' \in Listed /\ \A i \in Listed : next'[i] = next[i]
        BY <1>1, <1>3, <1>4, <1>6, <3>1
      <4> QED BY <3>1, <4>1, RingFrame
    <3>3. Listed' = Listed
      BY <1>1, <2>2, <3>2, ListedNext
    <3> QED BY <1>1, <1>3, <1>4, <3>2, <3>3 DEF Ring
  <2> QED BY <2>1, <2>2
<1>8. Named'
  BY <1>1, <1>3, <1>4, <1>6, <1>7 DEF ListInv, Named
<1>9. Place(t)'
  BY <1>2 DEF Place, HasEntry, LookPlace, InsertPlace, RemovePlace
<1>10. Places'
  <2>1. \A u \in Threads \ {t} : Place(u)
    BY DEF ListInv, Places
  <2>2. \A u \in Threads \ {t} : pc[u] \in InsertSteps \cup RemoveSteps =>
          entry[u] \in heap' /\ tid'[entry[u]] = tid[entry[u]]
    BY <1>1, <1>4, <1>5, <1>6, <2>1 DEF Place, HasEntry
  <2>3. \A u \in Threads \ {t} : pc[u] = "insertLock" => entry[u] \notin Listed'
    BY <1>7, <2>1 DEF Place, InsertPlace
  <2> QED BY <1>1, <1>2, <1>6, <1>9, <2>2, <2>3, OthersStay, Zenon
<1>11. Mine'
  <2>1. build = "tls" => e = mine[t]
    BY <1>1 DEF ListInv, Mine, e
  <2>2. \A u \in Threads : mine'[u] # NoInfo => mine'[u] \in heap'
    <3>1. SUFFICES ASSUME NEW u \in Threads, mine'[u] # NoInfo
                   PROVE  mine'[u] \in heap'
      OBVIOUS
    <3>2. u # t /\ mine'[u] = mine[u] /\ mine[u] \in heap /\ build = "tls"
      BY <1>6, <3>1 DEF ListInv, Mine, IInv, Types, ProcessTypes
    <3>3. mine[u] # e
      BY <2>1, <3>1, <3>2 DEF ListInv, Mine
    <3> QED BY <1>1, <3>2, <3>3
  <2> QED BY <1>1, <1>2, <1>6, <2>2 DEF ListInv, Mine
<1> QED BY <1>3, <1>7, <1>8, <1>10, <1>11 DEF ListInv, e

-----------------------------------------------------------------------------
LEMMA NextListInv == IInv /\ ListInv /\ [Next]_vars => ListInv'
<1>1. ASSUME IInv, ListInv, Next PROVE ListInv'
  BY <1>1, LibraryInitKeeps, LibraryInitFailsKeeps, ThreadInitKeeps, ShutdownKeeps,
     ForkKeeps, CallKeeps, LookLockKeeps, LookWalkKeeps, LookUnlockKeeps,
     InsertLockKeeps, InsertLinkKeeps, InsertHeadKeeps, InsertUnlockKeeps,
     RemoveLockKeeps, RemoveWalkKeeps, RemoveLinkKeeps, RemoveUnlockKeeps, Zenon
     DEF Next, Step
<1>2. ASSUME ListInv, UNCHANGED vars PROVE ListInv'
  <2>1. Listed' = Listed
    BY <1>2, SameList DEF vars
  <2>2. Ring' /\ Named' /\ Mine'
    BY <1>2, <2>1 DEF vars, process, local, ListInv, Ring, Named, Mine
  <2>3. Places'
    BY <1>2, <2>1 DEF vars, process, local, ListInv, Places, Place, HasEntry,
                      LookPlace, InsertPlace, RemovePlace, CallerTid
  <2> QED BY <2>2, <2>3 DEF ListInv
<1> QED BY <1>1, <1>2

LEMMA AlwaysList == Spec => []ListInv
BY InitListInv, NextListInv, Always, PTL DEF Spec

\* At every moment a walk from the head meets allocated records only and comes
\* back to the head: while a record is being linked in or taken out (threads.c:
\* 172 to 190, 226 to 242), after a shutdown that leaves records of other threads
\* behind, and in a child forked between two of these stores.
THEOREM Rings == Spec => []ListIsRing
<1>1. ListInv => ListIsRing
  <2> SUFFICES ASSUME ListInv PROVE ListIsRing
    OBVIOUS
  <2>1. CASE head = NoInfo
    BY <2>1 DEF Listed, ListIsRing
  <2>2. CASE head # NoInfo
    BY <2>2 DEF ListInv, Ring, IsRing, ClosedUnder, ListIsRing
  <2> QED BY <2>1, <2>2
<1> QED BY <1>1, AlwaysList, PTL

-----------------------------------------------------------------------------
(* The list implements ThreadRegistry: the members are the owners of its   *)
(* records.                                                                *)

Owners == {Owner(i) : i \in Listed}

LEMMA OwnerOfEntry ==
  ASSUME IInv, ListInv, NEW t \in Threads,
         pc[t] \in InsertSteps \cup RemoveSteps
  PROVE  Owner(entry[t]) = t
<1>1. tid[entry[t]] = CallerTid(t)
  BY DEF ListInv, Places, Place, HasEntry
<1>2. CASE idFn
  BY <1>1, <1>2 DEF Owner, CallerTid
<1>3. CASE ~idFn
  BY <1>1, <1>3 DEF Owner, CallerTid, IInv, Alone
<1> QED BY <1>2, <1>3 DEF IInv, Types, ProcessTypes

\* A call, or the end of a look-up, may create a record, in no list yet.
LEMMA RecordsStay ==
  ASSUME IInv, ListInv, NEW t \in Threads,
         (\E o \in Calls : Call(t, o)) \/ LookUnlock(t)
  PROVE  \A i \in heap : tid'[i] = tid[i]
<1>1. ASSUME NEW o \in Calls, Call(t, o) PROVE \A i \in heap : tid'[i] = tid[i]
  <2> DEFINE i == IF build = "tls" THEN mine[t] ELSE head
  <2>1. i \in Infos \cup {NoInfo} /\ (i # NoInfo => i \in heap)
    <3>1. head # NoInfo => head \in heap
      BY DEF ListInv, Ring, IsRing
    <3> QED BY <3>1 DEF ListInv, Mine, IInv, Types, ListTypes
  <2>2. tid' = tid \/ Proceed(t, o, i)
    BY <1>1 DEF Call
  <2> HIDE DEF i
  <2> QED BY <2>1, <2>2, ProceedDoes
<1>2. CASE LookUnlock(t)
  <2>1. Proceed(t, op[t], entry[t]) /\ pc[t] = "lookUnlock"
    BY <1>2 DEF LookUnlock
  <2>2. op[t] \in Calls /\ entry[t] \in Infos \cup {NoInfo}
    BY DEF IInv, Types, LocalTypes
  <2>3. entry[t] # NoInfo => entry[t] \in heap
    BY <2>1, ListedAllocated DEF ListInv, Places, Place, LookPlace
  <2> QED BY <2>1, <2>2, <2>3, ProceedDoes
<1> QED BY <1>1, <1>2

LEMMA SameOwners ==
  ASSUME ListInv, UNCHANGED starter, \A i \in heap : tid'[i] = tid[i]
  PROVE  \A i \in Listed : Owner(i)' = Owner(i)
BY ListedAllocated DEF ListInv, Owner

\* The steps of a call, and what each does to the list.
LEMMA CallOwners ==
  ASSUME IInv, ListInv, NEW t \in Threads,
         (\E o \in Calls : Call(t, o)) \/ Step(t)
  PROVE  /\ \A i \in Listed : Owner(i)' = Owner(i)
         /\ \/ Listed' = Listed
            \/ /\ pc[t] \in {"insertLink", "insertHead"}
               /\ Listed' = Listed \cup {entry[t]}
               /\ \A i \in {entry[t]} : Owner(i)' = t
            \/ /\ pc[t] = "removeLink"
               /\ entry[t] \in Listed /\ Owner(entry[t]) = t
               /\ Listed' = Listed \ {entry[t]}
<1>1. UNCHANGED starter
  BY Zenon DEF Call, Step, LookLock, LookWalk, LookUnlock, InsertLock, InsertLink,
         InsertHead, InsertUnlock, RemoveLock, RemoveWalk, RemoveLink,
         RemoveUnlock, process
<1>2. CASE (\E o \in Calls : Call(t, o)) \/ LookUnlock(t)
  BY <1>1, <1>2, RecordsStay, SameOwners, CallKeeps, LookUnlockKeeps
<1>3. CASE \/ LookLock(t) \/ LookWalk(t) \/ InsertLock(t) \/ InsertUnlock(t)
           \/ RemoveLock(t) \/ RemoveWalk(t)
  <2>1. Listed' = Listed
    BY <1>3, LookLockKeeps, LookWalkKeeps, InsertLockKeeps, InsertUnlockKeeps,
       RemoveLockKeeps, RemoveWalkKeeps
  <2>2. UNCHANGED tid
    BY <1>3, Zenon DEF LookLock, LookWalk, InsertLock, InsertUnlock, RemoveLock,
                       RemoveWalk
  <2> QED BY <1>1, <2>1, <2>2, SameOwners
<1>4. CASE InsertLink(t) \/ InsertHead(t)
  <2>1. pc[t] \in {"insertLink", "insertHead"} /\ UNCHANGED tid
    BY <1>4 DEF InsertLink, InsertHead
  <2>2. \A i \in {entry[t]} : Owner(i)' = t
    <3>1. Owner(entry[t]) = t
      BY <2>1, OwnerOfEntry
    <3> QED BY <1>1, <2>1, <3>1 DEF Owner
  <2>3. Listed' = Listed \/ Listed' = Listed \cup {entry[t]}
    <3>1. head = NoInfo => Listed = {}
      BY DEF Listed
    <3> QED BY <1>4, <3>1, InsertLinkKeeps, InsertHeadKeeps
  <2> QED BY <1>1, <2>1, <2>2, <2>3, SameOwners
<1>5. CASE RemoveLink(t)
  <2>1. pc[t] = "removeLink" /\ UNCHANGED tid
    BY <1>5 DEF RemoveLink
  <2> QED BY <1>1, <1>5, <2>1, RemoveLinkKeeps, OwnerOfEntry, SameOwners
<1>6. CASE RemoveUnlock(t)
  <2>1. tid' = [tid EXCEPT ![entry[t]] = Pid] /\ entry[t] \notin Listed /\ Listed' = Listed
    BY <1>6, RemoveUnlockKeeps DEF RemoveUnlock
  <2>2. \A i \in Listed : tid'[i] = tid[i]
    BY <2>1, ListedAllocated DEF ListInv, IInv, Types, ListTypes
  <2> QED BY <1>1, <2>1, <2>2 DEF Owner
<1> QED BY <1>2, <1>3, <1>4, <1>5, <1>6, Zenon DEF Step

LEMMA NextRegistry ==
  ASSUME IInv, ListInv, Next
  PROVE  [Registry!Next]_Owners
<1>1. PICK t \in Threads :
        \/ LibraryInit(t) \/ LibraryInitFails(t) \/ ThreadInit(t)
        \/ Shutdown(t) \/ Fork(t)
        \/ (\E o \in Calls : Call(t, o)) \/ Step(t)
  BY Zenon DEF Next
<1>2. CASE LibraryInit(t)
  <2>1. NewInfo \in Infos /\ tid' = [tid EXCEPT ![NewInfo] = Pid] /\ starter' = t
    BY <1>2, NewInfoFree DEF LibraryInit, IInv, Types, ListTypes
  <2>2. tid'[NewInfo] = Pid
    BY <2>1 DEF IInv, Types, ListTypes
  <2>3. Listed' = {NewInfo}
    BY <1>2, LibraryInitKeeps
  <2>4. Owners' = {t}
    BY <2>1, <2>2, <2>3 DEF Owners, Owner
  <2> QED BY <2>4 DEF Registry!Next, Registry!Start, Owners
<1>3. CASE LibraryInitFails(t)
  <2>1. UNCHANGED <<tid, starter>>
    BY <1>3 DEF LibraryInitFails
  <2>2. Listed' = {} \/ Listed' = Listed
    BY <1>3, LibraryInitFailsKeeps
  <2>3. Owners' = {} \/ Owners' = Owners
    BY <2>1, <2>2 DEF Owners, Owner
  <2> QED BY <2>3 DEF Registry!Next, Registry!Close, Owners
<1>4. CASE ThreadInit(t)
  <2>1. /\ tid' = [tid EXCEPT ![head] = t] /\ t = starter /\ starter' = starter
        /\ head \in Infos
    BY <1>4 DEF ThreadInit, IInv, Types, ListTypes
  <2>2. tid'[head] = t
    BY <2>1 DEF IInv, Types, ListTypes
  <2>3. Listed' = {head}
    BY <1>4, ThreadInitKeeps
  <2>4. Owners' = {t}
    BY <2>1, <2>2, <2>3 DEF Owners, Owner
  <2> QED BY <2>4 DEF Registry!Next, Registry!Start, Owners
<1>5. CASE Shutdown(t)
  <2>1. Owners' = {}
    BY <1>5, ShutdownKeeps DEF Owners
  <2> QED BY <2>1 DEF Registry!Next, Registry!Close, Owners
<1>6. CASE Fork(t)
  <2>1. UNCHANGED <<tid, starter>> /\ Listed' = Listed
    BY <1>6, ForkKeeps DEF Fork
  <2> QED BY <2>1 DEF Owners, Owner
<1>7. CASE (\E o \in Calls : Call(t, o)) \/ Step(t)
  <2>1. \A i \in Listed : Owner(i)' = Owner(i)
    BY <1>7, CallOwners
  <2>2. CASE Listed' = Listed
    BY <2>1, <2>2 DEF Owners
  <2>3. CASE /\ Listed' = Listed \cup {entry[t]}
             /\ \A i \in {entry[t]} : Owner(i)' = t
    <3>1. \A x \in Owners' : x \in Owners \/ x = t
      BY <2>1, <2>3 DEF Owners
    <3>2. t \in Owners' /\ Owners \subseteq Owners'
      BY <2>1, <2>3 DEF Owners
    <3> QED BY <3>1, <3>2 DEF Registry!Next, Registry!Join, Owners
  <2>4. CASE entry[t] \in Listed /\ Owner(entry[t]) = t /\ Listed' = Listed \ {entry[t]}
    <3>1. t \in Owners /\ Owners' \subseteq Owners
      BY <2>1, <2>4 DEF Owners
    <3>2. \A x \in Owners : x \in Owners' \/ x = t
      BY <2>1, <2>4 DEF Owners
    <3> QED BY <3>1, <3>2 DEF Registry!Next, Registry!Leave, Owners
  <2> QED BY <1>7, <2>2, <2>3, <2>4, CallOwners
<1> QED BY <1>1, <1>2, <1>3, <1>4, <1>5, <1>6, <1>7

\* A step of threads.c enters one thread into the list or takes one out, starts
\* the list with the thread that initialises, or empties it: an insertion cannot
\* cut off, and a removal cannot take along, the record of another thread.
THEOREM Refinement == Spec => KeepsRegistry
<1>1. Init => Registry!Init
  BY DEF Init, Registry!Init, Listed
<1>2. IInv /\ ListInv /\ [Next]_vars => [Registry!Next]_{Owner(i) : i \in Listed}
  <2>1. ASSUME IInv, ListInv, Next PROVE [Registry!Next]_{Owner(i) : i \in Listed}
    BY <2>1, NextRegistry DEF Owners
  <2>2. ASSUME UNCHANGED vars PROVE UNCHANGED {Owner(i) : i \in Listed}
    <3>1. Listed' = Listed
      BY <2>2, SameList DEF vars
    <3> QED BY <2>2, <3>1 DEF vars, process, Owner
  <2> QED BY <2>1, <2>2
<1> QED BY <1>1, <1>2, Always, AlwaysList, PTL DEF Spec, KeepsRegistry, Registry!Spec

-----------------------------------------------------------------------------
(* One record for each thread.                                             *)

Active == inited /\ child = NoThread
Of(t) == {i \in Listed : Owner(i) = t}

\* What a walk that has come to i still meets before it is back at the head.
Ahead(i) ==
  {j \in Infos : \A S \in SUBSET Infos :
     i \in S /\ (\A k \in S : next[k] = head \/ next[k] \in S) => j \in S}

Single == \A i, j \in Listed : Owner(i) = Owner(j) => i = j

\* A thread that inserts has no other record in the list.
Fresh(t) ==
  /\ pc[t] \in {"insertLock", "insertLink"} => Of(t) = {}
  /\ pc[t] \in {"insertHead", "insertUnlock"} => Of(t) \subseteq {entry[t]}

\* A search has not passed the caller's record ("list").
Searched(t) ==
  /\ pc[t] = "lookWalk" /\ tmp[t] # NoInfo => Of(t) \subseteq Ahead(tmp[t])
  /\ pc[t] = "lookUnlock" /\ entry[t] = NoInfo => Of(t) = {}

\* The thread-local pointer leads to the record ("tls").
Pointed(t) ==
  /\ pc[t] \in {"idle", "removeLock", "removeWalk", "removeLink"} =>
       /\ Of(t) \subseteq {mine[t]}
       /\ LeaveFirst /\ mine[t] # NoInfo => mine[t] \in Of(t)
  /\ pc[t] = "removeUnlock" => Of(t) = {}

Known(t) ==
  /\ Fresh(t)
  /\ build = "list" => Searched(t)
  /\ build = "tls" => Pointed(t)

OneInv == Active => Single /\ \A t \in Threads : Known(t)

LEMMA AheadOfHead ==
  ASSUME Ring, head # NoInfo
  PROVE  Listed \subseteq Ahead(head)
<1> SUFFICES ASSUME NEW S \in SUBSET Infos, head \in S,
                    \A k \in S : next[k] = head \/ next[k] \in S
             PROVE  Listed \subseteq S
  BY ListedAllocated DEF Ahead
<1>1. Closed(S)
  BY DEF Closed
<1> QED BY <1>1 DEF Listed, Members

LEMMA AheadOfNext ==
  ASSUME NEW i \in Infos, NEW j \in Ahead(i), j # i, next[i] # head
  PROVE  j \in Ahead(next[i])
<1> SUFFICES ASSUME NEW S \in SUBSET Infos, next[i] \in S,
                    \A k \in S : next[k] = head \/ next[k] \in S
             PROVE  j \in S
  BY DEF Ahead
<1>1. \A k \in S \cup {i} : next[k] = head \/ next[k] \in S \cup {i}
  OBVIOUS
<1>2. j \in S \cup {i}
  BY <1>1 DEF Ahead
<1> QED BY <1>2

LEMMA AheadAtEnd ==
  ASSUME NEW i \in Infos, NEW j \in Ahead(i), next[i] = head
  PROVE  j = i
<1>1. j \in {i}
  BY DEF Ahead
<1> QED BY <1>1

\* What another thread does in a call changes nothing of this.
LEMMA CallLocal ==
  ASSUME IInv, NEW t \in Threads, (\E o \in Calls : Call(t, o)) \/ Step(t)
  PROVE  /\ UNCHANGED process
         /\ \A u \in Threads \ {t} :
              /\ pc'[u] = pc[u] /\ entry'[u] = entry[u] /\ tmp'[u] = tmp[u]
              /\ mine'[u] = mine[u]
         /\ pc[t] \in LockedSteps \/ UNCHANGED <<head, next>>
<1>1. /\ pc \in [Threads -> Labels] /\ entry \in [Threads -> Infos \cup {NoInfo}]
      /\ tmp \in [Threads -> Infos \cup {NoInfo}]
      /\ mine \in [Threads -> Infos \cup {NoInfo}]
  BY DEF IInv, Types, ListTypes, LocalTypes
<1>2. ASSUME NEW o, NEW i, Proceed(t, o, i)
      PROVE  \A u \in Threads \ {t} : pc'[u] = pc[u] /\ entry'[u] = entry[u]
  BY <1>1, <1>2 DEF Proceed, Goto
<1>3. CASE \E o \in Calls : Call(t, o)
  BY <1>1, <1>2, <1>3 DEF Call, Goto
<1>4. CASE LookLock(t) \/ LookWalk(t)
  BY <1>1, <1>4 DEF LookLock, LookWalk, Goto
<1>5. CASE LookUnlock(t)
  BY <1>2, <1>5 DEF LookUnlock
<1>6. CASE InsertLock(t) \/ InsertLink(t) \/ InsertHead(t)
  BY <1>1, <1>6 DEF InsertLock, InsertLink, InsertHead, Goto
<1>7. CASE InsertUnlock(t)
  BY <1>1, <1>7 DEF InsertUnlock, Goto
<1>8. CASE RemoveLock(t) \/ RemoveWalk(t)
  BY <1>1, <1>8 DEF RemoveLock, RemoveWalk, Goto
<1>9. CASE RemoveLink(t) \/ RemoveUnlock(t)
  BY <1>1, <1>9 DEF RemoveLink, RemoveUnlock, Goto
<1> QED BY <1>3, <1>4, <1>5, <1>6, <1>7, <1>8, <1>9, Zenon DEF Step

LEMMA OthersKnown ==
  ASSUME IInv, ListInv, OneInv, Active,
         NEW t \in Threads, (\E o \in Calls : Call(t, o)) \/ Step(t),
         NEW u \in Threads \ {t}
  PROVE  Known(u)'
<1>1. /\ UNCHANGED process
      /\ pc'[u] = pc[u] /\ entry'[u] = entry[u] /\ tmp'[u] = tmp[u]
      /\ mine'[u] = mine[u]
      /\ pc[t] \in LockedSteps \/ UNCHANGED <<head, next>>
  BY CallLocal
<1>2. Of(u)' = Of(u)
  BY CallOwners DEF Of
<1>3. pc[u] = "lookWalk" => UNCHANGED <<head, next>>
  BY <1>1, Exclusive
<1>4. pc[u] = "lookWalk" => \A i : Ahead(i)' = Ahead(i)
  BY <1>3 DEF Ahead
<1>5. Known(u)
  BY DEF OneInv
<1>6. Fresh(u)' /\ (build = "tls" => Pointed(u)')
  BY <1>1, <1>2, <1>5 DEF Known, Fresh, Pointed
<1>7. build = "list" => Searched(u)'
  <2>1. pc[u] = "lookWalk" => Ahead(tmp[u])' = Ahead(tmp[u])
    BY <1>1, <1>3 DEF Ahead
  <2> QED BY <1>1, <1>2, <1>5, <2>1 DEF Known, Searched
<1> QED BY <1>1, <1>6, <1>7 DEF Known, process

LEMMA SingleStays ==
  ASSUME IInv, ListInv, OneInv, Active,
         NEW t \in Threads, (\E o \in Calls : Call(t, o)) \/ Step(t)
  PROVE  Single'
<1>1. Single /\ Fresh(t)
  BY DEF OneInv, Known
<1>2. \A i \in Listed : Owner(i)' = Owner(i)
  BY CallOwners
<1>3. CASE Listed' \subseteq Listed
  BY <1>1, <1>2, <1>3 DEF Single
<1>4. CASE /\ pc[t] \in {"insertLink", "insertHead"}
           /\ Listed' = Listed \cup {entry[t]}
           /\ \A i \in {entry[t]} : Owner(i)' = t
  <2>1. \A i \in Listed : Owner(i) = t => i = entry[t]
    BY <1>1, <1>4 DEF Fresh, Of
  <2> QED BY <1>1, <1>2, <1>4, <2>1 DEF Single
<1> QED BY <1>3, <1>4, CallOwners

\* The thread that takes the step: calls and look-ups.
LEMMA ProceedKnown ==
  ASSUME IInv, ListInv, NEW t \in Threads, NEW o \in Calls,
         NEW i \in Infos \cup {NoInfo}, Proceed(t, o, i),
         i # NoInfo => i \in heap,
         UNCHANGED <<build, mine>>, Of(t)' = Of(t),
         i = NoInfo => Of(t) = {},
         build = "tls" => /\ Of(t) \subseteq {mine[t]}
                          /\ LeaveFirst /\ mine[t] # NoInfo => mine[t] \in Of(t)
  PROVE  Known(t)'
<1>1. \/ pc'[t] = "insertLock" /\ i = NoInfo
      \/ pc'[t] \in {"removeLock", "idle"}
  BY ProceedDoes
<1> QED BY <1>1 DEF Known, Fresh, Searched, Pointed

LEMMA CallKnown ==
  ASSUME IInv, ListInv, OneInv, Active,
         NEW t \in Threads, NEW o \in Calls, Call(t, o)
  PROVE  Known(t)'
<1> DEFINE i == IF build = "tls" THEN mine[t] ELSE head
<1>1. UNCHANGED <<build, idFn, head, mine>> /\ pc[t] = "idle" /\ Of(t)' = Of(t)
  <2>1. Listed' = Listed
    BY CallKeeps
  <2> QED BY <2>1, CallOwners DEF Call, process, Of
<1>2. Known(t)
  BY DEF OneInv
<1>3. CASE build = "list" /\ idFn
  <2>1. pc'[t] = "lookLock"
    BY <1>3, GotoPc DEF Call
  <2> QED BY <1>1, <1>3, <2>1 DEF Known, Fresh, Searched
<1>4. CASE ~(build = "list" /\ idFn)
  <2>1. Proceed(t, o, i)
    BY <1>4 DEF Call
  <2>2. /\ i \in Infos \cup {NoInfo} /\ (build = "tls" => i = mine[t])
        /\ build # "tls" => i = head
    BY DEF IInv, Types, ListTypes
  <2>3. i # NoInfo => i \in heap
    <3>1. head # NoInfo => head \in heap
      BY DEF ListInv, Ring, IsRing
    <3> QED BY <3>1 DEF ListInv, Mine
  <2> HIDE DEF i
  <2>4. build = "tls" => /\ Of(t) \subseteq {mine[t]}
                         /\ LeaveFirst /\ mine[t] # NoInfo => mine[t] \in Of(t)
    BY <1>1, <1>2 DEF Known, Pointed
  <2>5. i = NoInfo => Of(t) = {}
    <3>1. CASE build = "tls"
      BY <2>2, <2>4, <3>1, ListedAllocated DEF ListInv, Of
    <3>2. CASE build # "tls"
      BY <2>2, <3>2 DEF Of, Listed
    <3> QED BY <3>1, <3>2
  <2> QED BY <1>1, <2>1, <2>2, <2>3, <2>4, <2>5, ProceedKnown
<1> QED BY <1>3, <1>4

LEMMA LookKnown ==
  ASSUME IInv, ListInv, OneInv, Active, NEW t \in Threads,
         LookLock(t) \/ LookWalk(t) \/ LookUnlock(t)
  PROVE  Known(t)'
<1>1. Listed' = Listed /\ Of(t)' = Of(t)
  <2>1. Listed' = Listed
    BY LookLockKeeps, LookWalkKeeps, LookUnlockKeeps
  <2> QED BY <2>1, CallOwners DEF Of, Step
<1>2. /\ Known(t) /\ pc[t] \in LookSteps /\ build' = build
      /\ idFn /\ build = "list" /\ LookPlace(t) /\ Searched(t)
  <2>1. pc[t] \in LookSteps /\ build' = build
    BY DEF LookLock, LookWalk, LookUnlock, process
  <2> QED BY <2>1 DEF OneInv, Known, ListInv, Places, Place, LookPlace
<1>3. CASE LookLock(t)
  <2>1. /\ UNCHANGED <<head, next>> /\ Goto(t, "lookWalk")
        /\ tmp'[t] = head
    BY <1>3 DEF LookLock, IInv, Types, LocalTypes
  <2>2. pc'[t] = "lookWalk"
    BY <2>1, GotoPc
  <2>3. tmp'[t] # NoInfo => Of(t)' \subseteq Ahead(tmp[t])'
    <3>1. Ahead(tmp[t])' = Ahead(head)
      BY <2>1 DEF Ahead
    <3> QED BY <1>1, <2>1, <3>1, AheadOfHead DEF ListInv, Of
  <2> QED BY <1>2, <2>2, <2>3 DEF Known, Fresh, Searched
<1>4. CASE LookWalk(t)
  <2> DEFINE i == tmp[t]
             hit == IF i = NoInfo THEN FALSE ELSE tid[i] = t
             more == IF i = NoInfo THEN FALSE ELSE next[i] # head
  <2>1. /\ next' = next /\ pc[t] = "lookWalk"
        /\ IF ~hit /\ more
           THEN tmp' = [tmp EXCEPT ![t] = next[i]] /\ UNCHANGED <<head, entry, pc>>
           ELSE /\ entry' = [entry EXCEPT ![t] = IF hit THEN i ELSE NoInfo]
                /\ Goto(t, "lookUnlock")
    BY <1>4 DEF LookWalk
  <2>2. /\ IF head = NoInfo THEN i = NoInfo ELSE i \in Listed
        /\ i # NoInfo => Of(t) \subseteq Ahead(i)
    BY <1>2, <2>1 DEF LookPlace, Searched
  <2>3. Listed \subseteq Infos
    BY ListedAllocated DEF ListInv
  <2>4. ~hit /\ i # NoInfo => i \notin Of(t)
    BY <1>2, <2>2 DEF Of, Owner, ListInv, Named
  <2>5. CASE ~hit /\ more
    <3>1. tmp'[t] = next[i] /\ UNCHANGED <<head, entry, pc>> /\ i # NoInfo
      BY <2>1, <2>5 DEF IInv, Types, LocalTypes
    <3>2. i \in Infos /\ Of(t) \subseteq Ahead(next[i])
      <4>1. i \in Infos
        BY <2>2, <2>3, <3>1
      <4> QED BY <2>2, <2>4, <2>5, <3>1, <4>1, AheadOfNext
    <3>3. Ahead(tmp[t])' = Ahead(next[i])
      BY <2>1, <3>1 DEF Ahead
    <3> QED BY <1>1, <1>2, <2>1, <3>1, <3>2, <3>3 DEF Known, Fresh, Searched
  <2>6. CASE ~(~hit /\ more)
    <3>1. entry'[t] = (IF hit THEN i ELSE NoInfo) /\ pc'[t] = "lookUnlock"
      BY <2>1, <2>6, GotoPc DEF IInv, Types, LocalTypes
    <3>2. ~hit => Of(t) = {}
      <4>1. CASE i = NoInfo
        BY <2>2, <2>3, <4>1 DEF Of, Listed
      <4>2. CASE i # NoInfo
        BY <2>2, <2>3, <2>4, <2>6, <4>2, AheadAtEnd
      <4> QED BY <4>1, <4>2
    <3> QED BY <1>1, <1>2, <3>1, <3>2 DEF Known, Fresh, Searched
  <2> QED BY <2>5, <2>6
<1>5. CASE LookUnlock(t)
  <2>1. pc[t] = "lookUnlock" /\ Proceed(t, op[t], entry[t]) /\ mine' = mine
    BY <1>5 DEF LookUnlock
  <2>2. op[t] \in Calls /\ entry[t] \in Infos \cup {NoInfo}
    BY DEF IInv, Types, LocalTypes
  <2>3. /\ entry[t] # NoInfo => entry[t] \in heap
        /\ entry[t] = NoInfo => Of(t) = {}
    BY <1>2, <2>1, ListedAllocated DEF ListInv, LookPlace, Searched
  <2> QED BY <1>1, <1>2, <2>1, <2>2, <2>3, ProceedKnown
<1> QED BY <1>3, <1>4, <1>5

\* The thread that takes the step: insertions and removals.
LEMMA InsertKnown ==
  ASSUME IInv, ListInv, OneInv, Active, NEW t \in Threads,
         \/ InsertLock(t) \/ InsertLink(t) \/ InsertHead(t) \/ InsertUnlock(t)
  PROVE  Known(t)'
<1>1. Known(t) /\ build' = build
  BY DEF OneInv, InsertLock, InsertLink, InsertHead, InsertUnlock, process
<1>2. \A i \in Listed : Owner(i)' = Owner(i)
  BY CallOwners DEF Step
<1>3. CASE InsertLock(t)
  <2>1. pc[t] = "insertLock" /\ pc'[t] = "insertLink" /\ Listed' = Listed
    BY <1>3, GotoPc, InsertLockKeeps DEF InsertLock
  <2>2. Of(t)' = {}
    BY <1>1, <1>2, <2>1 DEF Known, Fresh, Of
  <2> QED BY <1>1, <2>1, <2>2 DEF Known, Fresh, Searched, Pointed
<1>4. CASE InsertLink(t) \/ InsertHead(t)
  <2>1. /\ pc[t] \in {"insertLink", "insertHead"} /\ UNCHANGED entry
        /\ pc'[t] \in {"insertHead", "insertUnlock"}
    BY <1>4, GotoPc DEF InsertLink, InsertHead
  <2>2. Listed' \subseteq Listed \cup {entry[t]}
    BY <1>4, InsertLinkKeeps, InsertHeadKeeps
  <2>3. Of(t)' \subseteq {entry[t]}
    BY <1>1, <1>2, <2>1, <2>2 DEF Known, Fresh, Of
  <2> QED BY <1>1, <2>1, <2>3 DEF Known, Fresh, Searched, Pointed
<1>5. CASE InsertUnlock(t)
  <2>1. /\ pc[t] = "insertUnlock" /\ pc'[t] = "idle" /\ Listed' = Listed
        /\ build = "tls" => mine'[t] = entry[t]
    BY <1>5, GotoPc, InsertUnlockKeeps DEF InsertUnlock, IInv, Types, ListTypes
  <2>2. Of(t)' = Of(t) /\ Of(t) \subseteq {entry[t]}
    BY <1>1, <1>2, <2>1 DEF Known, Fresh, Of
  <2>3. entry[t] \in Of(t)
    <3>1. entry[t] \in Listed
      BY <2>1 DEF ListInv, Places, Place, InsertPlace
    <3> QED BY <2>1, <3>1, OwnerOfEntry DEF Of
  <2> QED BY <1>1, <2>1, <2>2, <2>3 DEF Known, Fresh, Searched, Pointed
<1> QED BY <1>3, <1>4, <1>5

LEMMA RemoveKnown ==
  ASSUME IInv, ListInv, OneInv, Active, NEW t \in Threads,
         \/ RemoveLock(t) \/ RemoveWalk(t) \/ RemoveLink(t) \/ RemoveUnlock(t)
  PROVE  Known(t)'
<1>1. Known(t) /\ build' = build /\ pc[t] \in RemoveSteps
  BY DEF OneInv, RemoveLock, RemoveWalk, RemoveLink, RemoveUnlock, process
<1>2. \A i \in Listed : Owner(i)' = Owner(i)
  BY CallOwners DEF Step
<1>3. CASE RemoveLock(t) \/ RemoveWalk(t)
  <2>1. /\ pc[t] \in {"removeLock", "removeWalk"} /\ UNCHANGED mine
        /\ pc'[t] \in {"removeWalk", "removeLink"}
    BY <1>3, GotoPc DEF RemoveLock, RemoveWalk
  <2>2. Listed' = Listed
    BY <1>3, RemoveLockKeeps, RemoveWalkKeeps
  <2>3. Of(t)' = Of(t)
    BY <1>2, <2>2 DEF Of
  <2> QED BY <1>1, <2>1, <2>3 DEF Known, Fresh, Searched, Pointed
<1>4. CASE RemoveLink(t)
  <2>1. pc[t] = "removeLink" /\ pc'[t] = "removeUnlock" /\ UNCHANGED mine
    BY <1>4, GotoPc DEF RemoveLink
  <2>2. Listed' = Listed \ {entry[t]}
    BY <1>4, RemoveLinkKeeps
  <2>3. build = "tls" => Of(t) \subseteq {entry[t]}
    BY <1>1, <2>1 DEF Known, Pointed, ListInv, Mine
  <2>4. build = "tls" => Of(t)' = {}
    BY <1>2, <2>2, <2>3 DEF Of
  <2> QED BY <1>1, <2>1, <2>4 DEF Known, Fresh, Searched, Pointed
<1>5. CASE RemoveUnlock(t)
  <2>1. pc[t] = "removeUnlock" /\ pc'[t] = "idle" /\ mine'[t] = NoInfo
    BY <1>5, GotoPc DEF RemoveUnlock, IInv, Types, ListTypes
  <2>2. Listed' = Listed
    BY <1>5, RemoveUnlockKeeps
  <2>3. build = "tls" => Of(t)' = {}
    BY <1>1, <1>2, <2>1, <2>2 DEF Known, Pointed, Of
  <2> QED BY <1>1, <2>1, <2>3 DEF Known, Fresh, Searched, Pointed
<1> QED BY <1>3, <1>4, <1>5

LEMMA LibraryInitKnown ==
  ASSUME IInv, ListInv, NEW t \in Threads, LibraryInit(t)
  PROVE  OneInv'
<1> DEFINE e == NewInfo
<1>1. /\ e \in Infos /\ tid' = [tid EXCEPT ![e] = Pid] /\ starter' = t
      /\ mine' = [mine EXCEPT ![t] = IF build = "tls" THEN e ELSE NoInfo]
      /\ UNCHANGED <<build, pc>> /\ \A u \in Threads : pc[u] = "idle"
      /\ LeaveFirst => \A u \in Threads \ {t} : mine[u] = NoInfo
  BY NewInfoFree DEF LibraryInit, IInv, Types, ListTypes, local, AllIdle, OthersLeft
<1>2. Listed' = {e}
  BY LibraryInitKeeps
<1> HIDE DEF e
<1>3. tid'[e] = Pid
  BY <1>1 DEF IInv, Types, ListTypes
<1>4. \A i \in {e} : Owner(i)' = t
  BY <1>1, <1>3 DEF Owner
<1>5. Single'
  BY <1>2 DEF Single
<1>6. ASSUME NEW u \in Threads PROVE Known(u)'
  <2>1. Of(u)' = IF u = t THEN {e} ELSE {}
    BY <1>2, <1>4 DEF Of
  <2>2. mine'[u] = IF u # t THEN mine[u] ELSE IF build = "tls" THEN e ELSE NoInfo
    BY <1>1 DEF IInv, Types, ListTypes
  <2> QED BY <1>1, <2>1, <2>2 DEF Known, Fresh, Searched, Pointed
<1> QED BY <1>5, <1>6 DEF OneInv

LEMMA ThreadInitKnown ==
  ASSUME IInv, ListInv, OneInv, NEW t \in Threads, ThreadInit(t)
  PROVE  OneInv'
<1>1. /\ UNCHANGED <<build, inited, child, starter, mine, pc>>
      /\ tid' = [tid EXCEPT ![head] = t] /\ t = starter /\ head \in Infos /\ ~idFn
      /\ inited /\ child = NoThread
  BY DEF ThreadInit, local, IInv, Types, ListTypes
<1>2. Listed = {head} /\ Listed' = {head}
  BY ThreadInitKeeps
<1>3. \A i \in Listed : Owner(i)' = Owner(i)
  <2>1. tid[head] = Pid /\ tid'[head] = t
    BY <1>1, <1>2 DEF ListInv, Named, IInv, Types, ListTypes
  <2> QED BY <1>1, <1>2, <2>1 DEF Owner
<1>4. Single'
  BY <1>2 DEF Single
<1>5. ASSUME NEW u \in Threads PROVE Known(u)'
  <2>1. Known(u) /\ pc[u] = "idle"
    BY <1>1 DEF OneInv, Active, IInv, Alone, ThreadInit
  <2>2. Of(u)' = Of(u)
    BY <1>2, <1>3 DEF Of
  <2> QED BY <1>1, <2>1, <2>2 DEF Known, Fresh, Searched, Pointed
<1> QED BY <1>4, <1>5 DEF OneInv

LEMMA NextOneInv == IInv /\ ListInv /\ OneInv /\ [Next]_vars => OneInv'
<1>1. ASSUME IInv, ListInv, OneInv, Next PROVE OneInv'
  <2>1. PICK t \in Threads :
          \/ LibraryInit(t) \/ LibraryInitFails(t) \/ ThreadInit(t)
          \/ Shutdown(t) \/ Fork(t)
          \/ (\E o \in Calls : Call(t, o)) \/ Step(t)
    BY <1>1, Zenon DEF Next
  <2>2. CASE LibraryInit(t) \/ ThreadInit(t)
    BY <1>1, <2>2, LibraryInitKnown, ThreadInitKnown
  <2>3. CASE LibraryInitFails(t) \/ Shutdown(t) \/ Fork(t)
    <3>1. ~Active'
      BY <2>3 DEF LibraryInitFails, Shutdown, Fork, Active
    <3> QED BY <3>1 DEF OneInv
  <2>4. CASE (\E o \in Calls : Call(t, o)) \/ Step(t)
    <3>1. SUFFICES ASSUME Active' PROVE Single' /\ \A u \in Threads : Known(u)'
      BY DEF OneInv
    <3>2. Active
      BY <1>1, <2>4, <3>1, CallLocal DEF process, Active
    <3>3. Single'
      BY <1>1, <2>4, <3>2, SingleStays
    <3>4. \A u \in Threads \ {t} : Known(u)'
      BY <1>1, <2>4, <3>2, OthersKnown
    <3>5. Known(t)'
      BY <1>1, <2>4, <3>2, CallKnown, LookKnown, InsertKnown, RemoveKnown DEF Step
    <3> QED BY <3>3, <3>4, <3>5
  <2> QED BY <2>1, <2>2, <2>3, <2>4
<1>2. ASSUME OneInv, UNCHANGED vars PROVE OneInv'
  <2>1. Listed' = Listed
    BY <1>2, SameList DEF vars
  <2>2. \A i : Owner(i)' = Owner(i)
    BY <1>2 DEF vars, process, Owner
  <2>3. \A u \in Threads : Of(u)' = Of(u)
    BY <2>1, <2>2 DEF Of
  <2>4. Single' = Single
    BY <2>1, <2>2 DEF Single
  <2>5. \A u \in Threads : Ahead(tmp[u])' = Ahead(tmp[u])
    BY <1>2 DEF vars, local, Ahead
  <2> QED BY <1>2, <2>3, <2>4, <2>5
          DEF vars, process, local, OneInv, Active, Known, Fresh, Searched, Pointed
<1> QED BY <1>1, <1>2

LEMMA AlwaysOne == Spec => []OneInv
<1>1. Init => OneInv
  BY DEF Init, OneInv, Active
<1> QED BY <1>1, NextOneInv, Always, AlwaysList, PTL DEF Spec

\* No thread is in the list twice, in a program that keeps the rule LeaveFirst
\* or not: the search of threads.h:102 to 113 does not miss the record that is
\* there, whoever has made another one the head since, and a thread with a
\* pointer does not insert.
THEOREM NoDoubles == Spec => [](Active => Single)
<1>1. OneInv => (Active => Single)
  BY DEF OneInv
<1> QED BY <1>1, AlwaysOne, PTL

\* With the rule, the thread-local pointer of a thread outside of a call leads
\* to its record in the list, and is NULL if there is none.
THEOREM OneRecord ==
  ASSUME LeaveFirst
  PROVE  Spec => []OneRecordEach
<1>1. ListInv /\ OneInv => OneRecordEach
  <2> SUFFICES ASSUME ListInv, OneInv, Active PROVE
        /\ Single
        /\ build = "tls" =>
             \A t \in Threads : pc[t] = "idle" =>
               Listed \cap {i \in Infos : Owner(i) = t} = {mine[t]} \ {NoInfo}
    BY DEF OneRecordEach, Single, Active
  <2>1. ASSUME NEW t \in Threads, build = "tls", pc[t] = "idle"
        PROVE  Listed \cap {i \in Infos : Owner(i) = t} = {mine[t]} \ {NoInfo}
    <3>1. /\ Of(t) \subseteq {mine[t]}
          /\ mine[t] # NoInfo => mine[t] \in Of(t)
      BY <2>1 DEF OneInv, Known, Pointed
    <3>2. Listed \subseteq Infos
      BY ListedAllocated DEF ListInv
    <3> QED BY <3>1, <3>2 DEF Of
  <2> QED BY <2>1 DEF OneInv
<1> QED BY <1>1, AlwaysList, AlwaysOne, PTL
=============================================================================
