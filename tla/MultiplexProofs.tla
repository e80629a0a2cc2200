-------------------------- MODULE MultiplexProofs --------------------------
(***************************************************************************)
(* Multiplex for any threads, EventSets, events and timers.  The invariant *)
(* ties a thread's reference counts to its EventSets: a master event has   *)
(* exactly as many users as EventSets with that event, is active at least  *)
(* once for each of them that was started, and never without a user.       *)
(***************************************************************************)
EXTENDS Multiplex, FiniteSetTheorems, WellFoundedInduction, TLAPS

USE MultiplexAssumption

Users(t, c) == {s \in Sets : MasterOf[s] = t /\ c \in mev[s]}
Starters(t, c) == {s \in Users(t, c) : status[s]}

SetTypes ==
  /\ mev \in [Sets -> SUBSET Events]
  /\ status \in [Sets -> BOOLEAN]
  /\ stoppedBit \in [Sets -> BOOLEAN]
  /\ runningBit \in [Sets -> BOOLEAN]
MasterTypes ==
  /\ master_events \in [Threads -> Seq(Events)]
  /\ uses \in [Threads -> [Events -> Nat]]
  /\ active \in [Threads -> [Events -> Nat]]
TurnTypes ==
  /\ cur_event \in [Threads -> Events \cup {NoEvent}]
  /\ running_eventset \in [Threads -> Events \cup {NoEvent, Freed}]
  /\ stopFailed \in [Threads -> BOOLEAN]
SignalTypes ==
  /\ held \in [Threads -> BOOLEAN]
  /\ handler \in BOOLEAN
  /\ armed \in [Timers -> BOOLEAN]
ControlTypes ==
  /\ pc \in [Threads -> Labels]
  /\ cur \in [Threads -> Sets \cup {NoSet}]
Types == SetTypes /\ MasterTypes /\ TurnTypes /\ SignalTypes /\ ControlTypes

\* What UsesMatch says of one thread.
ListOnce(t) == IsInjective(master_events[t])
Counted(t) == \A c \in Events : uses[t][c] = Cardinality(Users(t, c))
Listed(t) == \A c \in Events : c \in ToSet(master_events[t]) <=> Users(t, c) # {}

\* The starts of a master event: one for each set that was started, which may be
\* more, since a set whose event failed to restart can be started again.
Backed(t) == \A c \in Events : Cardinality(Starters(t, c)) <= active[t][c]
ActiveUsed(t) == \A c \in Events : active[t][c] > 0 => Users(t, c) # {}

\* What CurrentIsActive says of one thread.
CurrentSome(t) == cur_event[t] = NoEvent <=> \A c \in Events : active[t][c] = 0
CurrentActive(t) == cur_event[t] # NoEvent => active[t][cur_event[t]] > 0
OnlyCurrent(t) == ~stopFailed[t] => running_eventset[t] \in {cur_event[t], NoEvent}

Lists(t) == ListOnce(t) /\ Counted(t) /\ Listed(t)
Actives(t) == Backed(t) /\ ActiveUsed(t)
Current(t) == CurrentSome(t) /\ CurrentActive(t) /\ OnlyCurrent(t)

\* A set that was started says so to AddEvent and MPX_cleanup.
StartedRuns ==
  \A s \in Sets : status[s] =>
    runningBit[s] \/ (pc[MasterOf[s]] = "startup" /\ cur[MasterOf[s]] = s)

\* The set that a thread is about to start is one of its own.
Begins(t) ==
  pc[t] \in {"starting", "startup"} =>
    cur[t] \in Sets /\ MasterOf[cur[t]] = t /\ mev[cur[t]] # {}

Good(t) == Lists(t) /\ Actives(t) /\ Current(t) /\ Begins(t)
Sound == \A t \in Threads : Good(t)
IInv == Types /\ (Alive => StartedRuns /\ Sound)

-----------------------------------------------------------------------------
\* Sets, lists and counts.

LEMMA UsersFinite ==
  ASSUME NEW t, NEW c
  PROVE  /\ IsFiniteSet(Users(t, c)) /\ IsFiniteSet(Starters(t, c))
         /\ Cardinality(Users(t, c)) \in Nat /\ Cardinality(Starters(t, c)) \in Nat
<1>1. Users(t, c) \in SUBSET Sets /\ Starters(t, c) \in SUBSET Sets
  BY DEF Users, Starters
<1>2. IsFiniteSet(Users(t, c)) /\ IsFiniteSet(Starters(t, c))
  BY <1>1, FS_Subset
<1> QED BY <1>2, FS_CardinalityType

LEMMA ShiftedType ==
  ASSUME NEW counts \in [Events -> Nat], NEW S \in SUBSET Events
  PROVE  /\ Shifted(counts, S, 1) \in [Events -> Nat]
         /\ (\A c \in S : counts[c] > 0) => Shifted(counts, S, -1) \in [Events -> Nat]
BY DEF Shifted

\* The smallest of a non-empty set of numbers is one of them.
LEMMA MinIn ==
  ASSUME NEW S \in SUBSET Nat, S # {}
  PROVE  Min(S) \in S
<1> DEFINE Less == {ss \in Nat \X Nat : ss[1] < ss[2]}
<1>1. IsWellFoundedOn(Less, Nat)
  BY NatLessThanWellFounded DEF OpToRel
<1>2. PICK x \in S : \A y \in S : ~ (<<y, x>> \in Less)
  BY <1>1, WFMin
<1>3. ASSUME NEW y \in S PROVE ~ (y < x)
  <2> SUFFICES ASSUME y < x PROVE <<y, x>> \in Less
    BY <1>2
  <2>1. <<y, x>> \in Nat \X Nat /\ <<y, x>>[1] = y /\ <<y, x>>[2] = x
    OBVIOUS
  <2> QED BY <2>1
<1>4. \A y \in S : x =< y
  BY <1>3
<1> QED BY <1>4 DEF Min

\* What is unlinked from a list is gone, what is kept is there once.
LEMMA KeptList ==
  ASSUME NEW list \in Seq(Events), NEW S \in SUBSET Events, NEW l \in Kept(list, S)
  PROVE  /\ l \in Seq(Events)
         /\ ToSet(l) = ToSet(list) \cap S
         /\ IsInjective(l)
<1>1. PICK n \in 0..Len(list) : l \in [1..n -> S]
  BY DEF Kept, SeqOf
<1>2. l \in Seq(Events)
  BY <1>1
<1>3. ToSet(l) = ToSet(list) \cap S
  BY DEF Kept
<1>4. ASSUME NEW i \in DOMAIN l, NEW j \in DOMAIN l, l[i] = l[j], i < j PROVE FALSE
  <2>1. PICK m \in DOMAIN list : l[i] = list[m]
    BY <1>3 DEF ToSet
  <2>2. m < m
    BY <1>4, <2>1 DEF Kept
  <2> QED BY <2>2
<1>5. DOMAIN l = 1..n
  BY <1>1
<1>6. IsInjective(l)
  BY <1>4, <1>5 DEF IsInjective
<1> QED BY <1>2, <1>3, <1>6

\* Going round the list finds an active event, or there is none.
LEMMA NextActiveFinds ==
  ASSUME Types, NEW t \in Threads, NEW act \in [Events -> Nat],
         cur_event[t] \in ToSet(master_events[t]),
         \A c \in Events : act[c] > 0 => c \in ToSet(master_events[t])
  PROVE  /\ NextActive(t, act) \in Events \cup {NoEvent}
         /\ NextActive(t, act) # NoEvent =>
              act[NextActive(t, act)] > 0
         /\ NextActive(t, act) = NoEvent =>
              \A c \in Events : act[c] > 0 => c = cur_event[t]
<1> DEFINE list == master_events[t]
           here == CHOOSE i \in DOMAIN list : list[i] = cur_event[t]
           place(i) == IF here + i > Len(list) THEN here + i - Len(list) ELSE here + i
           found == {i \in 1..Len(list) - 1 : act[list[place(i)]] > 0}
<1>1. list \in Seq(Events) /\ Len(list) \in Nat /\ DOMAIN list = 1..Len(list)
  BY DEF Types, MasterTypes
<1>2. here \in 1..Len(list) /\ list[here] = cur_event[t]
  BY <1>1 DEF ToSet
<1> HIDE DEF list, here
<1>3. \A i \in 1..Len(list) - 1 : place(i) \in 1..Len(list) /\ list[place(i)] \in Events
  BY <1>1, <1>2
<1>4. NextActive(t, act) = IF found = {} THEN NoEvent ELSE list[place(Min(found))]
  BY DEF NextActive, list, here
<1>5. CASE found # {}
  <2>1. Min(found) \in found
    <3>1. found \in SUBSET Nat
      BY <1>1
    <3> HIDE DEF found
    <3> QED BY <1>5, <3>1, MinIn
  <2> QED BY <1>3, <1>4, <1>5, <2>1
<1>6. CASE found = {}
  <2>1. ASSUME NEW c \in Events, act[c] > 0, c # cur_event[t] PROVE FALSE
    <3>1. PICK k \in 1..Len(list) : list[k] = c
      BY <1>1, <2>1 DEF ToSet, list
    <3>2. k # here
      BY <1>2, <2>1, <3>1
    <3>3. PICK i \in 1..Len(list) - 1 : place(i) = k
      <4>1. CASE k > here
        <5>1. k - here \in 1..Len(list) - 1 /\ place(k - here) = k
          BY <1>1, <1>2, <4>1
        <5> QED BY <5>1
      <4>2. CASE k < here
        <5>1. k - here + Len(list) \in 1..Len(list) - 1 /\ place(k - here + Len(list)) = k
          BY <1>1, <1>2, <4>2
        <5> QED BY <5>1
      <4> QED BY <1>1, <1>2, <3>2, <4>1, <4>2
    <3>4. i \in found
      BY <2>1, <3>1, <3>3
    <3> QED BY <1>6, <3>4
  <2> QED BY <1>4, <1>6, <2>1
<1> QED BY <1>5, <1>6

-----------------------------------------------------------------------------
\* What an action leaves alone.

LEMMA ListsKept ==
  ASSUME NEW t \in Threads, Lists(t),
         \A s \in Sets : MasterOf[s] = t => mev'[s] = mev[s],
         master_events'[t] = master_events[t], uses'[t] = uses[t]
  PROVE  Lists(t)'
<1>1. \A c \in Events : Users(t, c)' = Users(t, c)
  BY DEF Users
<1> QED BY <1>1 DEF Lists, ListOnce, Counted, Listed

LEMMA ActivesKept ==
  ASSUME NEW t \in Threads, Actives(t),
         \A s \in Sets : MasterOf[s] = t => mev'[s] = mev[s] /\ status'[s] = status[s],
         active'[t] = active[t]
  PROVE  Actives(t)'
<1>1. \A c \in Events : Users(t, c)' = Users(t, c) /\ Starters(t, c)' = Starters(t, c)
  BY DEF Users, Starters
<1> QED BY <1>1 DEF Actives, Backed, ActiveUsed

LEMMA CurrentKept ==
  ASSUME NEW t \in Threads, Current(t),
         active'[t] = active[t], cur_event'[t] = cur_event[t],
         running_eventset'[t] = running_eventset[t], stopFailed'[t] = stopFailed[t]
  PROVE  Current(t)'
BY DEF Current, CurrentSome, CurrentActive, OnlyCurrent

LEMMA BeginsKept ==
  ASSUME NEW t \in Threads, Begins(t), pc'[t] = pc[t], cur'[t] = cur[t],
         \A s \in Sets : MasterOf[s] = t => mev'[s] = mev[s]
  PROVE  Begins(t)'
BY DEF Begins

\* What a call of another thread leaves alone.
LEMMA OtherThread ==
  ASSUME Sound, NEW u \in Threads,
         \A s \in Sets : MasterOf[s] = u => mev'[s] = mev[s] /\ status'[s] = status[s],
         master_events'[u] = master_events[u], uses'[u] = uses[u],
         active'[u] = active[u], cur_event'[u] = cur_event[u],
         running_eventset'[u] = running_eventset[u], stopFailed'[u] = stopFailed[u],
         pc'[u] = pc[u], cur'[u] = cur[u]
  PROVE  Good(u)'
BY ListsKept, ActivesKept, CurrentKept, BeginsKept DEF Sound, Good

LEMMA ThreadTypes ==
  ASSUME Types, NEW t \in Threads
  PROVE  /\ master_events[t] \in Seq(Events)
         /\ uses[t] \in [Events -> Nat] /\ active[t] \in [Events -> Nat]
         /\ cur_event[t] \in Events \cup {NoEvent}
BY DEF Types, MasterTypes, TurnTypes

\* A set that was started has no idle thread, or runs.
LEMMA IdleNotStarted ==
  ASSUME StartedRuns, NEW t \in Threads, NEW s \in Sets, Owns(t, s), ~runningBit[s]
  PROVE  ~status[s]
BY DEF StartedRuns, Owns

-----------------------------------------------------------------------------
\* Events of a stopped set.

LEMMA InitIInv == Init => IInv
<1> SUFFICES ASSUME Init PROVE IInv
  OBVIOUS
<1>1. Types
  <2>1. <<>> \in Seq(Events) /\ [d \in Events |-> 0] \in [Events -> Nat]
    OBVIOUS
  <2>2. MasterTypes
    BY <2>1 DEF Init, MasterTypes
  <2>3. SetTypes /\ TurnTypes
    BY DEF Init, SetTypes, TurnTypes
  <2>4. SignalTypes /\ ControlTypes
    BY DEF Init, SignalTypes, ControlTypes, Labels
  <2> QED BY <2>2, <2>3, <2>4 DEF Types
<1>2. StartedRuns
  BY DEF Init, StartedRuns
<1>3. ASSUME NEW t \in Threads PROVE Good(t)
  <2>1. \A c \in Events : Users(t, c) = {} /\ Starters(t, c) = {}
    BY DEF Init, Users, Starters
  <2>2. master_events[t] = <<>> /\ DOMAIN <<>> = {}
    BY DEF Init
  <2>3. \A c \in Events : uses[t][c] = 0 /\ active[t][c] = 0
    BY DEF Init
  <2>4. cur_event[t] = NoEvent /\ running_eventset[t] = NoEvent
    BY DEF Init
  <2>5. ListOnce(t) /\ Listed(t)
    <3>1. ToSet(<<>>) = {} /\ IsInjective(<<>>)
      BY <2>2 DEF ToSet, IsInjective
    <3> QED BY <2>1, <2>2, <3>1 DEF ListOnce, Listed
  <2>6. Counted(t) /\ Backed(t) /\ ActiveUsed(t)
    <3>1. \A c \in Events : Cardinality(Users(t, c)) = 0 /\ Cardinality(Starters(t, c)) = 0
      BY <2>1, FS_EmptySet
    <3> QED BY <2>3, <3>1 DEF Counted, Backed, ActiveUsed
  <2>7. Current(t)
    BY <2>3, <2>4 DEF Current, CurrentSome, CurrentActive, OnlyCurrent
  <2>8. Begins(t)
    BY DEF Init, Begins
  <2> QED BY <2>5, <2>6, <2>7, <2>8 DEF Good, Lists, Actives
<1> QED BY <1>1, <1>2, <1>3 DEF IInv, Sound

\* A new master event is at the head of the list, which did not have it.
LEMMA Prepended ==
  ASSUME NEW list \in Seq(Events), NEW c \in Events
  PROVE  /\ <<c>> \o list \in Seq(Events)
         /\ ToSet(<<c>> \o list) = ToSet(list) \cup {c}
         /\ IsInjective(list) /\ c \notin ToSet(list) => IsInjective(<<c>> \o list)
<1> DEFINE new == <<c>> \o list
<1>1. new \in Seq(Events) /\ DOMAIN new = 1..Len(list) + 1 /\ Len(list) \in Nat
  OBVIOUS
<1>2. new[1] = c /\ \A i \in 2..Len(list) + 1 : i - 1 \in DOMAIN list /\ new[i] = list[i - 1]
  OBVIOUS
<1>3. \A i \in DOMAIN list : i + 1 \in 2..Len(list) + 1 /\ new[i + 1] = list[i]
  OBVIOUS
<1> HIDE DEF new
<1>4. ToSet(new) = ToSet(list) \cup {c}
  <2>1. ASSUME NEW x \in ToSet(new) PROVE x \in ToSet(list) \cup {c}
    <3>1. PICK i \in 1..Len(list) + 1 : x = new[i]
      BY <1>1 DEF ToSet
    <3>2. i = 1 \/ i \in 2..Len(list) + 1
      BY <1>1
    <3> QED BY <1>2, <3>1, <3>2 DEF ToSet
  <2>2. \A x \in ToSet(list) : x \in ToSet(new)
    BY <1>1, <1>3 DEF ToSet
  <2>3. c \in ToSet(new)
    BY <1>1, <1>2 DEF ToSet
  <2> QED BY <2>1, <2>2, <2>3
<1>5. ASSUME IsInjective(list), c \notin ToSet(list) PROVE IsInjective(new)
  <2> SUFFICES ASSUME NEW i \in DOMAIN new, NEW j \in DOMAIN new, new[i] = new[j] PROVE i = j
    BY DEF IsInjective
  <2>1. CASE i = 1 \/ j = 1
    BY <1>1, <1>2, <1>5, <2>1 DEF ToSet
  <2>2. CASE i # 1 /\ j # 1
    BY <1>1, <1>2, <1>5, <2>2 DEF IsInjective
  <2> QED BY <2>1, <2>2
<1> QED BY <1>1, <1>4, <1>5 DEF new

LEMMA AddEventSteps ==
  ASSUME IInv, Alive, NEW t \in Threads, NEW s \in Sets, NEW c \in Events, AddEvent(t, s, c)
  PROVE  IInv'
<1>1. Types'
  <2>1. SetTypes' /\ TurnTypes' /\ SignalTypes' /\ ControlTypes'
    BY DEF AddEvent, Release, turnVars, timerVars, pcVars, IInv, Types, SetTypes, TurnTypes,
           SignalTypes, ControlTypes
  <2>2. uses' \in [Threads -> [Events -> Nat]] /\ active' \in [Threads -> [Events -> Nat]]
    <3>1. /\ [uses EXCEPT ![t][c] = @ + 1] \in [Threads -> [Events -> Nat]]
          /\ [active EXCEPT ![t][c] = 0] \in [Threads -> [Events -> Nat]]
      BY DEF IInv, Types, MasterTypes
    <3> QED BY <3>1, Zenon DEF AddEvent, IInv, Types, MasterTypes
  <2>3. <<c>> \o master_events[t] \in Seq(Events)
    BY Prepended, ThreadTypes DEF IInv
  <2>4. master_events' \in [Threads -> Seq(Events)]
    BY <2>3 DEF AddEvent, IInv, Types, MasterTypes
  <2> QED BY <2>1, <2>2, <2>4 DEF Types, MasterTypes
<1>2. StartedRuns'
  BY DEF AddEvent, pcVars, IInv, StartedRuns
<1>3. MasterOf[s] = t /\ ~status[s] /\ s \notin Users(t, c)
  BY IdleNotStarted DEF AddEvent, Owns, IInv, Users
<1>4. /\ Users(t, c)' = Users(t, c) \cup {s}
      /\ \A d \in Events \ {c} : Users(t, d)' = Users(t, d)
      /\ \A d \in Events : Starters(t, d)' = Starters(t, d)
  BY <1>3 DEF AddEvent, IInv, Types, SetTypes, Users, Starters
<1>5. /\ \A d \in Events : uses'[t][d] = IF d = c THEN uses[t][d] + 1 ELSE uses[t][d]
      /\ UNCHANGED <<cur_event, running_eventset, stopFailed, pc, cur>>
  BY DEF AddEvent, turnVars, pcVars, IInv, Types, MasterTypes
<1>6. /\ ListOnce(t) /\ Counted(t) /\ Listed(t)
      /\ Backed(t) /\ ActiveUsed(t) /\ Current(t)
  BY DEF IInv, Sound, Good, Lists, Actives
<1>7. Counted(t)'
  <2> SUFFICES ASSUME NEW d \in Events PROVE uses'[t][d] = Cardinality(Users(t, d)')
    BY DEF Counted
  <2>1. uses[t][d] = Cardinality(Users(t, d))
    BY <1>6 DEF Counted
  <2>2. CASE d # c
    BY <1>4, <1>5, <2>1, <2>2
  <2>3. CASE d = c
    <3>1. Cardinality(Users(t, c) \cup {s}) = Cardinality(Users(t, c)) + 1
      BY <1>3, UsersFinite, FS_AddElement
    <3> QED BY <1>4, <1>5, <2>1, <2>3, <3>1
  <2> QED BY <2>2, <2>3
<1>8. active'[t] = active[t] /\ ListOnce(t)' /\ Listed(t)'
  <2>1. CASE c \in ToSet(master_events[t])
    <3>1. UNCHANGED <<master_events, active>>
      BY <2>1 DEF AddEvent
    <3>2. Listed(t)'
      BY <1>4, <1>6, <2>1, <3>1 DEF Listed
    <3> QED BY <1>6, <3>1, <3>2 DEF ListOnce
  <2>2. CASE c \notin ToSet(master_events[t])
    <3>1. /\ master_events'[t] = <<c>> \o master_events[t]
          /\ active'[t] = [active[t] EXCEPT ![c] = 0]
      BY <2>2 DEF AddEvent, IInv, Types, MasterTypes
    <3>2. Users(t, c) = {}
      BY <1>6, <2>2 DEF Listed
    <3>3. active[t][c] = 0
      BY <1>6, <3>2, ThreadTypes DEF ActiveUsed, IInv
    <3>4. active'[t] = active[t]
      BY <3>1, <3>3, ThreadTypes DEF IInv
    <3>5. ToSet(master_events'[t]) = ToSet(master_events[t]) \cup {c}
      BY <3>1, ThreadTypes, Prepended DEF IInv
    <3>6. IsInjective(master_events'[t])
      BY <1>6, <2>2, <3>1, ThreadTypes, Prepended DEF IInv, ListOnce
    <3>7. Listed(t)'
      BY <1>4, <1>6, <3>5 DEF Listed
    <3> QED BY <3>4, <3>6, <3>7 DEF ListOnce
  <2> QED BY <2>1, <2>2
<1>9. Good(t)'
  <2>1. Backed(t)'
    BY <1>4, <1>6, <1>8 DEF Backed
  <2>2. ActiveUsed(t)'
    BY <1>4, <1>6, <1>8 DEF ActiveUsed
  <2>3. Current(t)'
    BY <1>5, <1>6, <1>8, CurrentKept
  <2>4. Begins(t)'
    BY <1>5 DEF AddEvent, Owns, Begins
  <2> QED BY <1>7, <1>8, <2>1, <2>2, <2>3, <2>4 DEF Good, Lists, Actives
<1>10. ASSUME NEW u \in Threads, u # t PROVE Good(u)'
  <2>1. \A r \in Sets : MasterOf[r] = u => mev'[r] = mev[r] /\ status'[r] = status[r]
    BY <1>3, <1>10 DEF AddEvent, IInv, Types, SetTypes
  <2>2. /\ master_events'[u] = master_events[u] /\ uses'[u] = uses[u]
        /\ active'[u] = active[u]
    BY <1>10 DEF AddEvent, IInv, Types, MasterTypes
  <2> QED BY <1>5, <2>1, <2>2, OtherThread DEF IInv
<1>11. Sound'
  BY <1>9, <1>10 DEF Sound
<1> QED BY <1>1, <1>2, <1>11 DEF IInv

\* Giving up the events S of a set: the assertion in mpx_remove_unused holds, or
\* the program ends.
LEMMA UnuseSteps ==
  ASSUME IInv, Alive, NEW t \in Threads, NEW s \in Sets, NEW S \in SUBSET mev[s],
         Owns(t, s), Unuse(t, S), mev' = [mev EXCEPT ![s] = @ \ S],
         UNCHANGED <<status, stoppedBit, runningBit>>
  PROVE  IInv'
<1> DEFINE left == Shifted(uses[t], S, -1)
           asserted == \A c \in S : left[c] = 0 => active[t][c] = 0
           used == {c \in Events : left[c] # 0}
<1>1. MasterOf[s] = t /\ pc[t] = "idle" /\ S \in SUBSET Events
  BY DEF Owns, IInv, Types, SetTypes
<1>2. /\ ListOnce(t) /\ Counted(t) /\ Listed(t)
      /\ Backed(t) /\ ActiveUsed(t) /\ Current(t)
  BY DEF IInv, Sound, Good, Lists, Actives
<1>3. /\ \A c \in S : s \in Users(t, c) /\ Users(t, c)' = Users(t, c) \ {s}
      /\ \A c \in Events \ S : Users(t, c)' = Users(t, c)
      /\ \A c \in Events : Starters(t, c)' \in SUBSET Starters(t, c)
  BY <1>1 DEF IInv, Types, SetTypes, Users, Starters
<1>4. left \in [Events -> Nat]
  <2>1. ASSUME NEW c \in S PROVE uses[t][c] > 0
    <3>1. Users(t, c) # {}
      BY <1>3
    <3>2. Cardinality(Users(t, c)) # 0
      BY <3>1, UsersFinite, FS_EmptySet
    <3> QED BY <1>1, <1>2, <3>2, ThreadTypes DEF Counted, IInv
  <2> QED BY <1>1, <2>1, ThreadTypes, ShiftedType DEF IInv
<1>5. \A c \in Events : left[c] = IF c \in S THEN uses[t][c] - 1 ELSE uses[t][c]
  BY <1>1, ThreadTypes DEF Shifted, IInv
<1> HIDE DEF left
<1>6. /\ uses' = [uses EXCEPT ![t] = left]
      /\ active' = active /\ UNCHANGED <<cur_event, stopFailed, timerVars, cur>>
      /\ IF asserted
         THEN /\ \E list \in Kept(master_events[t], used) :
                   master_events' = [master_events EXCEPT ![t] = list]
              /\ running_eventset' = [running_eventset EXCEPT
                   ![t] = IF @ \in Events \ used THEN Freed ELSE @]
              /\ Release(t) /\ pc' = pc
         ELSE /\ Goto(t, "aborted") /\ master_events' = master_events /\ held' = held
              /\ running_eventset' = running_eventset
  BY Zenon DEF Unuse, left
<1>7. SetTypes' /\ TurnTypes' /\ SignalTypes' /\ ControlTypes'
  <2>1. SetTypes'
    BY <1>1 DEF IInv, Types, SetTypes
  <2>4. TurnTypes'
    <3>1. \A e \in {running_eventset[t], Freed} :
            [running_eventset EXCEPT ![t] = e] \in [Threads -> Events \cup {NoEvent, Freed}]
      BY DEF IInv, Types, TurnTypes
    <3>2. running_eventset' \in [Threads -> Events \cup {NoEvent, Freed}]
      BY <1>6, <3>1, Zenon DEF IInv, Types, TurnTypes
    <3> QED BY <1>6, <3>2 DEF IInv, Types, TurnTypes
  <2>2. held' \in [Threads -> BOOLEAN] /\ pc' \in [Threads -> Labels]
    <3>1. /\ held \in [Threads -> BOOLEAN] /\ [held EXCEPT ![t] = FALSE] \in [Threads -> BOOLEAN]
          /\ pc \in [Threads -> Labels] /\ [pc EXCEPT ![t] = "aborted"] \in [Threads -> Labels]
      BY DEF IInv, Types, SignalTypes, ControlTypes, Labels
    <3>2. held' \in {held, [held EXCEPT ![t] = FALSE]} /\ pc' \in {pc, [pc EXCEPT ![t] = "aborted"]}
      BY <1>6 DEF Release, Goto
    <3>3. held' \in [Threads -> BOOLEAN]
      BY <3>1, <3>2
    <3>4. pc' \in [Threads -> Labels]
      BY <3>1, <3>2
    <3> QED BY <3>3, <3>4
  <2>3. SignalTypes' /\ ControlTypes'
    BY <1>6, <2>2 DEF timerVars, IInv, Types, SignalTypes, ControlTypes
  <2> QED BY <2>1, <2>3, <2>4
<1>8. uses' \in [Threads -> [Events -> Nat]] /\ active' \in [Threads -> [Events -> Nat]]
  BY <1>4, <1>6 DEF IInv, Types, MasterTypes
<1>9. StartedRuns'
  <2>1. \A r \in Sets : pc[MasterOf[r]] = "startup" => pc'[MasterOf[r]] = "startup"
    BY <1>1, <1>6 DEF Goto, IInv, Types, ControlTypes
  <2> QED BY <1>6, <2>1 DEF IInv, StartedRuns
<1>10. CASE ~asserted
  <2>1. ~Alive'
    BY <1>6, <1>10 DEF Goto, Alive, IInv, Types, ControlTypes
  <2>2. MasterTypes'
    BY <1>6, <1>8, <1>10 DEF IInv, Types, MasterTypes
  <2> QED BY <1>7, <2>1, <2>2 DEF IInv, Types
<1>11. CASE asserted
  <2>1. PICK list \in Kept(master_events[t], used) :
          master_events' = [master_events EXCEPT ![t] = list]
    BY <1>6, <1>11
  <2>2. list \in Seq(Events) /\ ToSet(list) = ToSet(master_events[t]) \cap used /\ IsInjective(list)
    BY <2>1, ThreadTypes, KeptList DEF IInv
  <2>3. MasterTypes'
    BY <1>8, <2>1, <2>2 DEF IInv, Types, MasterTypes
  <2>4. master_events'[t] = list /\ uses'[t] = left
    BY <1>6, <2>1 DEF IInv, Types, MasterTypes
  <2>5. Counted(t)'
    <3> SUFFICES ASSUME NEW c \in Events PROVE left[c] = Cardinality(Users(t, c)')
      BY <2>4 DEF Counted
    <3>1. uses[t][c] = Cardinality(Users(t, c))
      BY <1>2 DEF Counted
    <3>2. CASE c \in S
      <4>1. Cardinality(Users(t, c) \ {s}) = Cardinality(Users(t, c)) - 1
        BY <1>3, <3>2, UsersFinite, FS_RemoveElement
      <4> QED BY <1>3, <1>5, <3>1, <3>2, <4>1
    <3>3. CASE c \notin S
      BY <1>3, <1>5, <3>1, <3>3
    <3> QED BY <3>2, <3>3
  <2>6. ASSUME NEW c \in Events PROVE left[c] # 0 <=> Users(t, c)' # {}
    <3>1. left[c] = Cardinality(Users(t, c)')
      BY <2>4, <2>5 DEF Counted
    <3>2. IsFiniteSet(Users(t, c)')
      <4>1. Users(t, c)' \in SUBSET Users(t, c)
        BY <1>3
      <4> QED BY <4>1, UsersFinite, FS_Subset
    <3> QED BY <3>1, <3>2, FS_EmptySet
  <2>7. ASSUME NEW c \in Events PROVE c \in ToSet(list) <=> Users(t, c)' # {}
    <3>1. Users(t, c)' # {} => Users(t, c) # {}
      BY <1>3
    <3> QED BY <1>2, <2>2, <2>6, <3>1 DEF Listed
  <2>8. ListOnce(t)' /\ Listed(t)'
    BY <2>2, <2>4, <2>7 DEF ListOnce, Listed
  <2>9. Backed(t)'
    <3> SUFFICES ASSUME NEW c \in Events PROVE Cardinality(Starters(t, c)') <= active[t][c]
      BY <1>6 DEF Backed
    <3>1. /\ Cardinality(Starters(t, c)') \in Nat
          /\ Cardinality(Starters(t, c)') <= Cardinality(Starters(t, c))
      BY <1>3, UsersFinite, FS_Subset, FS_CardinalityType
    <3>2. Cardinality(Starters(t, c)) <= active[t][c]
      BY <1>2 DEF Backed
    <3> QED BY <3>1, <3>2, UsersFinite, ThreadTypes DEF IInv
  <2>10. ActiveUsed(t)'
    <3> SUFFICES ASSUME NEW c \in Events, active[t][c] > 0 PROVE Users(t, c)' # {}
      BY <1>6 DEF ActiveUsed
    <3>1. CASE c \in S
      BY <1>11, <2>6, <3>1
    <3>2. CASE c \notin S
      BY <1>2, <1>3, <3>2 DEF ActiveUsed
    <3> QED BY <3>1, <3>2
  <2>11. Current(t)'
    <3>1. cur_event'[t] = cur_event[t] /\ active'[t] = active[t] /\ stopFailed'[t] = stopFailed[t]
      BY <1>6
    <3>2. CurrentSome(t)' /\ CurrentActive(t)'
      BY <1>2, <3>1 DEF Current, CurrentSome, CurrentActive
    <3>3. ASSUME ~stopFailed[t], running_eventset[t] \in Events
          PROVE  running_eventset'[t] = running_eventset[t]
      <4>1. running_eventset[t] = cur_event[t] /\ cur_event[t] # NoEvent
        BY <1>2, <3>3 DEF Current, OnlyCurrent
      <4>2. active[t][cur_event[t]] > 0
        BY <1>2, <4>1 DEF Current, CurrentActive
      <4>3. \A c \in Events : active[t][c] > 0 => Users(t, c)' # {}
        BY <2>10, <3>1 DEF ActiveUsed
      <4>4. running_eventset[t] \in used
        BY <2>6, <3>3, <4>1, <4>2, <4>3
      <4> QED BY <1>6, <1>11, <4>4 DEF IInv, Types, TurnTypes
    <3>4. ASSUME running_eventset[t] \notin Events
          PROVE  running_eventset'[t] = running_eventset[t]
      BY <1>6, <1>11, <3>4 DEF IInv, Types, TurnTypes
    <3>5. OnlyCurrent(t)'
      BY <1>2, <3>1, <3>3, <3>4 DEF Current, OnlyCurrent
    <3> QED BY <3>2, <3>5 DEF Current
  <2>12. ASSUME NEW u \in Threads, u # t PROVE Good(u)'
    <3>1. \A r \in Sets : MasterOf[r] = u => mev'[r] = mev[r] /\ status'[r] = status[r]
      BY <1>1, <2>12 DEF IInv, Types, SetTypes
    <3>2. master_events'[u] = master_events[u] /\ uses'[u] = uses[u]
      BY <1>6, <2>1, <2>12 DEF IInv, Types, MasterTypes
    <3>3. running_eventset'[u] = running_eventset[u]
      BY <1>6, <1>11, <2>12 DEF IInv, Types, TurnTypes
    <3>4. pc'[u] = pc[u]
      BY <1>6, <1>11
    <3> QED BY <1>6, <3>1, <3>2, <3>3, <3>4, OtherThread DEF IInv
  <2>14. Begins(t)'
    BY <1>1, <1>6, <1>11 DEF Begins
  <2>13. Sound'
    BY <2>5, <2>8, <2>9, <2>10, <2>11, <2>12, <2>14 DEF Sound, Good, Lists, Actives
  <2> QED BY <1>7, <1>9, <2>3, <2>13 DEF IInv, Types
<1> QED BY <1>10, <1>11

LEMMA RemoveEventSteps ==
  ASSUME IInv, Alive, NEW t \in Threads, NEW s \in Sets, NEW c \in Events, RemoveEvent(t, s, c)
  PROVE  IInv'
BY UnuseSteps DEF RemoveEvent

LEMMA MPX_cleanupSteps ==
  ASSUME IInv, Alive, NEW t \in Threads, NEW s \in Sets, MPX_cleanup(t, s)
  PROVE  IInv'
<1>1. mev' = [mev EXCEPT ![s] = @ \ mev[s]]
  BY DEF MPX_cleanup
<1> QED BY <1>1, UnuseSteps DEF MPX_cleanup

-----------------------------------------------------------------------------
\* Starting and stopping.

LEMMA PAPI_startSteps ==
  ASSUME IInv, Alive, NEW t \in Threads, NEW s \in Sets, PAPI_start(t, s)
  PROVE  IInv'
<1>1. /\ MasterOf[s] = t /\ pc[t] = "idle" /\ mev[s] # {}
      /\ pc' = [pc EXCEPT ![t] = "starting"] /\ cur' = [cur EXCEPT ![t] = s]
      /\ UNCHANGED <<setVars, masterVars, turnVars, held, timerVars>>
  BY DEF PAPI_start, Owns, Goto
<1>2. Types'
  <2>1. ControlTypes'
    BY <1>1 DEF IInv, Types, ControlTypes, Labels
  <2> QED BY <1>1, <2>1 DEF IInv, Types, SetTypes, MasterTypes, TurnTypes, SignalTypes,
                            setVars, masterVars, turnVars, timerVars
<1>3. UNCHANGED <<mev, status, runningBit, master_events, uses, active, cur_event,
                  running_eventset, stopFailed>>
  BY <1>1 DEF setVars, masterVars, turnVars
<1>4. StartedRuns'
  <2>1. ASSUME NEW r \in Sets, pc[MasterOf[r]] = "startup"
        PROVE  pc'[MasterOf[r]] = "startup" /\ cur'[MasterOf[r]] = cur[MasterOf[r]]
    BY <1>1, <2>1 DEF IInv, Types, ControlTypes
  <2> QED BY <1>3, <2>1 DEF IInv, StartedRuns
<1>5. ASSUME NEW u \in Threads, u # t PROVE Good(u)'
  <2>1. pc'[u] = pc[u] /\ cur'[u] = cur[u]
    BY <1>1, <1>5 DEF IInv, Types, ControlTypes
  <2> QED BY <1>3, <2>1, OtherThread DEF IInv
<1>6. Good(t)'
  <2>1. Begins(t)'
    BY <1>1, <1>3 DEF Begins, IInv, Types, ControlTypes
  <2> QED BY <1>3, <2>1, ListsKept, ActivesKept, CurrentKept DEF IInv, Sound, Good
<1> QED BY <1>2, <1>4, <1>5, <1>6 DEF IInv, Sound

LEMMA MPX_startSteps ==
  ASSUME IInv, Alive, NEW t \in Threads, NEW starts \in BOOLEAN, MPX_start(t, starts)
  PROVE  IInv'
<1> DEFINE s == cur[t]
           act == Shifted(active[t], mev[s], 1)
           first == cur_event[t] = NoEvent
           runs == running_eventset[t] = NoEvent /\ starts
<1>1. /\ s \in Sets /\ MasterOf[s] = t /\ pc[t] = "starting"
      /\ mev[s] \in SUBSET Events /\ mev[s] # {}
  BY DEF MPX_start, IInv, Sound, Good, Begins, Types, SetTypes
<1>2. /\ Lists(t) /\ Backed(t) /\ ActiveUsed(t)
      /\ CurrentSome(t) /\ CurrentActive(t) /\ OnlyCurrent(t) /\ Begins(t)
  BY DEF IInv, Sound, Good, Actives, Current
<1>3. act \in [Events -> Nat]
  BY <1>1, ThreadTypes, ShiftedType DEF IInv
<1>4. \A c \in Events : act[c] = IF c \in mev[s] THEN active[t][c] + 1 ELSE active[t][c]
  BY DEF Shifted
<1> HIDE DEF act
<1>5. /\ active' = [active EXCEPT ![t] = act]
      /\ status' = [status EXCEPT ![s] = TRUE]
      /\ IF first
         THEN \E c \in mev[s] :
                /\ cur_event' = [cur_event EXCEPT ![t] = c]
                /\ running_eventset' = [running_eventset EXCEPT ![t] = IF runs THEN c ELSE @]
         ELSE UNCHANGED <<cur_event, running_eventset>>
      /\ held' = [held EXCEPT ![t] = FALSE]
      /\ pc' = [pc EXCEPT ![t] = IF first => runs THEN "startup" ELSE "aborted"]
      /\ UNCHANGED <<mev, stoppedBit, runningBit, master_events, uses, stopFailed, timerVars, cur>>
  BY Zenon DEF MPX_start, Release, Goto, act, s
<1> HIDE DEF s
<1>6. SetTypes' /\ MasterTypes'
  BY <1>1, <1>3, <1>5 DEF IInv, Types, SetTypes, MasterTypes
<1>7. TurnTypes'
  <2>1. CASE ~first
    BY <1>5, <2>1 DEF IInv, Types, TurnTypes
  <2>2. CASE first
    <3>1. PICK c \in mev[s] :
            /\ cur_event' = [cur_event EXCEPT ![t] = c]
            /\ running_eventset' = [running_eventset EXCEPT ![t] = IF runs THEN c ELSE @]
      BY <1>5, <2>2
    <3> QED BY <1>1, <1>5, <3>1 DEF IInv, Types, TurnTypes
  <2> QED BY <2>1, <2>2
<1> HIDE DEF first, runs
<1>8. SignalTypes' /\ ControlTypes'
  BY <1>5 DEF timerVars, IInv, Types, SignalTypes, ControlTypes, Labels
<1>20. CASE ~(first => runs)
  <2>1. ~Alive'
    BY <1>5, <1>20 DEF Alive, IInv, Types, ControlTypes
  <2> QED BY <1>6, <1>7, <1>8, <2>1 DEF IInv, Types
<1>21. CASE first => runs
  <2>9. StartedRuns'
    <3> SUFFICES ASSUME NEW r \in Sets, status'[r]
                 PROVE  runningBit'[r] \/ (pc'[MasterOf[r]] = "startup" /\ cur'[MasterOf[r]] = r)
      BY DEF StartedRuns
    <3>1. CASE r = s
      BY <1>1, <1>5, <1>21, <3>1 DEF IInv, Types, ControlTypes, s
    <3>2. CASE r # s
      <4>1. runningBit[r] \/ (pc[MasterOf[r]] = "startup" /\ cur[MasterOf[r]] = r)
        BY <1>5, <3>2 DEF IInv, StartedRuns, Types, SetTypes
      <4> QED BY <1>1, <1>5, <4>1 DEF IInv, Types, ControlTypes
    <3> QED BY <3>1, <3>2
  <2>10. active'[t] = act /\ master_events' = master_events
    BY <1>5 DEF IInv, Types, MasterTypes
  <2>11. Lists(t)'
    BY <1>2, <1>5, ListsKept
  <2>12. /\ \A c \in Events : Users(t, c)' = Users(t, c)
         /\ \A c \in Events : Starters(t, c)' \in {Starters(t, c), Starters(t, c) \cup {s}}
         /\ \A c \in Events \ mev[s] : Starters(t, c)' = Starters(t, c)
         /\ \A c \in mev[s] : s \in Users(t, c)
    BY <1>1, <1>5 DEF IInv, Types, SetTypes, Users, Starters
  <2>13. Backed(t)'
    <3> SUFFICES ASSUME NEW c \in Events PROVE Cardinality(Starters(t, c)') <= act[c]
      BY <2>10 DEF Backed
    <3>1. Cardinality(Starters(t, c)) <= active[t][c]
      BY <1>2 DEF Backed
    <3>2. Cardinality(Starters(t, c)) \in Nat /\ active[t][c] \in Nat
      BY UsersFinite, ThreadTypes DEF IInv
    <3>3. Cardinality(Starters(t, c) \cup {s}) =
            IF s \in Starters(t, c) THEN Cardinality(Starters(t, c)) ELSE Cardinality(Starters(t, c)) + 1
      BY UsersFinite, FS_AddElement
    <3>4. Cardinality(Starters(t, c) \cup {s}) <= active[t][c] + 1
      BY <3>1, <3>2, <3>3
    <3>5. CASE c \in mev[s]
      <4>1. act[c] = active[t][c] + 1
        BY <1>4, <3>5
      <4>2. CASE Starters(t, c)' = Starters(t, c)
        BY <3>1, <3>2, <4>1, <4>2
      <4>3. CASE Starters(t, c)' = Starters(t, c) \cup {s}
        BY <3>4, <4>1, <4>3
      <4> QED BY <2>12, <4>2, <4>3
    <3>6. CASE c \notin mev[s]
      BY <1>4, <2>12, <3>1, <3>6
    <3> QED BY <3>5, <3>6
  <2>14. ActiveUsed(t)'
    <3> SUFFICES ASSUME NEW c \in Events, act[c] > 0 PROVE Users(t, c) # {}
      BY <2>10, <2>12 DEF ActiveUsed
    <3>1. CASE c \in mev[s]
      BY <2>12, <3>1
    <3>2. CASE c \notin mev[s]
      BY <1>2, <1>4, <3>2 DEF ActiveUsed
    <3> QED BY <3>1, <3>2
  <2>15. Current(t)'
    <3>1. \A c \in Events : act[c] >= active[t][c] /\ (c \in mev[s] => act[c] > 0)
      BY <1>4, ThreadTypes DEF IInv
    <3>2. CASE cur_event[t] # NoEvent
      <4>1. UNCHANGED <<cur_event, running_eventset, stopFailed>>
        BY <1>5, <3>2 DEF first
      <4>2. cur_event[t] \in Events /\ act[cur_event[t]] > 0
        BY <1>2, <1>3, <3>1, <3>2, ThreadTypes DEF CurrentActive, IInv
      <4> QED BY <1>2, <2>10, <3>2, <4>1, <4>2
              DEF Current, CurrentSome, CurrentActive, OnlyCurrent
    <3>3. CASE cur_event[t] = NoEvent
      <4>1. PICK c \in mev[s] : cur_event'[t] = c /\ running_eventset'[t] = c
        BY <1>5, <1>21, <3>3 DEF first, IInv, Types, TurnTypes
      <4>2. c \in Events /\ act[c] > 0
        BY <1>1, <3>1
      <4>3. c # NoEvent
        BY <4>2
      <4> QED BY <2>10, <4>1, <4>2, <4>3
              DEF Current, CurrentSome, CurrentActive, OnlyCurrent
    <3> QED BY <3>2, <3>3
  <2>16. ASSUME NEW u \in Threads, u # t PROVE Good(u)'
    <3>1. \A r \in Sets : MasterOf[r] = u => mev'[r] = mev[r] /\ status'[r] = status[r]
      BY <1>1, <1>5, <2>16 DEF IInv, Types, SetTypes
    <3>2. active'[u] = active[u]
      BY <1>5, <2>16 DEF IInv, Types, MasterTypes
    <3>3. cur_event'[u] = cur_event[u] /\ running_eventset'[u] = running_eventset[u]
      BY <1>5, <2>16 DEF IInv, Types, TurnTypes
    <3>4. pc'[u] = pc[u]
      BY <1>5, <2>16 DEF IInv, Types, ControlTypes
    <3> QED BY <1>5, <3>1, <3>2, <3>3, <3>4, OtherThread DEF IInv
  <2>18. Begins(t)'
    BY <1>1, <1>5 DEF Begins, s
  <2>17. Sound'
    BY <2>11, <2>13, <2>14, <2>15, <2>16, <2>18 DEF Sound, Good, Actives
  <2> QED BY <1>6, <1>7, <1>8, <2>9, <2>17 DEF IInv, Types
<1> QED BY <1>20, <1>21

LEMMA StartupSteps ==
  ASSUME IInv, Alive, NEW t \in Threads, Startup(t)
  PROVE  IInv'
<1>1. Types'
  <2>1. armed' \in [Timers -> BOOLEAN]
    BY DEF Startup, IInv, Types, SignalTypes
  <2>2. SignalTypes'
    BY <2>1 DEF Startup, IInv, Types, SignalTypes
  <2>3. stoppedBit' \in [Sets -> BOOLEAN]
    BY DEF Startup, IInv, Types, SetTypes
  <2>4. runningBit' \in [Sets -> BOOLEAN]
    BY DEF Startup, IInv, Types, SetTypes
  <2>5. SetTypes' /\ MasterTypes' /\ TurnTypes' /\ ControlTypes'
    BY <2>3, <2>4
       DEF Startup, Goto, masterVars, turnVars, Labels, IInv, Types, SetTypes, MasterTypes,
           TurnTypes, ControlTypes
  <2> QED BY <2>2, <2>5 DEF Types
<1>2. StartedRuns'
  BY DEF Startup, Goto, IInv, StartedRuns, Types, SetTypes, ControlTypes
<1>3. UNCHANGED <<mev, status, master_events, uses, active, cur_event, running_eventset,
                  stopFailed>>
  BY DEF Startup, masterVars, turnVars
<1>4. Sound'
  <2>1. ASSUME NEW u \in Threads, u # t PROVE Good(u)'
    <3>1. pc'[u] = pc[u] /\ cur'[u] = cur[u]
      BY <2>1 DEF Startup, Goto, IInv, Types, ControlTypes
    <3> QED BY <1>3, <3>1, OtherThread DEF IInv
  <2>2. Begins(t)'
    BY DEF Startup, Goto, Begins, IInv, Types, ControlTypes
  <2>3. Good(t)'
    BY <1>3, <2>2, ListsKept, ActivesKept, CurrentKept DEF IInv, Sound, Good
  <2> QED BY <2>1, <2>3 DEF Sound
<1> QED BY <1>1, <1>2, <1>4 DEF IInv

LEMMA MPX_stopSteps ==
  ASSUME IInv, Alive, NEW t \in Threads, NEW s \in Sets,
         NEW stops \in BOOLEAN, NEW starts \in BOOLEAN, MPX_stop(t, s, stops, starts)
  PROVE  IInv'
<1> DEFINE act == Shifted(active[t], mev[s], -1)
           last == NoLongerNeeded(t, s, act)
           next == NextActive(t, act)
           left == Left(t, stops)
           fails == last /\ ~StopsCurrent(t, stops) /\ next = NoEvent
           aborts == last /\ next # NoEvent /\ ~(left = NoEvent /\ starts)
<1>1. MasterOf[s] = t /\ status[s] /\ mev[s] \in SUBSET Events
  BY DEF MPX_stop, Owns, IInv, Types, SetTypes
<1>2. /\ Lists(t) /\ Listed(t) /\ Backed(t) /\ ActiveUsed(t)
      /\ CurrentSome(t) /\ CurrentActive(t) /\ OnlyCurrent(t)
  BY DEF IInv, Sound, Good, Lists, Actives, Current
<1>3. \A c \in mev[s] : s \in Starters(t, c) /\ active[t][c] > 0
  <2> SUFFICES ASSUME NEW c \in mev[s] PROVE s \in Starters(t, c) /\ active[t][c] > 0
    OBVIOUS
  <2>1. s \in Starters(t, c)
    BY <1>1 DEF Users, Starters
  <2>2. Cardinality(Starters(t, c)) # 0 /\ Cardinality(Starters(t, c)) \in Nat
    BY <2>1, UsersFinite, FS_EmptySet
  <2>3. Cardinality(Starters(t, c)) <= active[t][c] /\ active[t][c] \in Nat
    BY <1>1, <1>2, ThreadTypes DEF Backed, IInv
  <2> QED BY <2>1, <2>2, <2>3
<1>4. act \in [Events -> Nat]
  BY <1>1, <1>3, ThreadTypes, ShiftedType DEF IInv
<1>5. \A c \in Events : act[c] = IF c \in mev[s] THEN active[t][c] - 1 ELSE active[t][c]
  BY ThreadTypes DEF Shifted, IInv
<1>6. \A c \in Events : act[c] > 0 => active[t][c] > 0
  <2>1. \A c \in Events : act[c] \in Nat /\ active[t][c] \in Nat
    BY <1>4, ThreadTypes DEF IInv
  <2> HIDE DEF act
  <2> QED BY <1>5, <2>1
<1> HIDE DEF act
<1>7. last <=> cur_event[t] \in mev[s] /\ act[cur_event[t]] = 0
  BY DEF NoLongerNeeded
<1>8. ASSUME last
      PROVE  /\ next \in Events \cup {NoEvent}
             /\ next # NoEvent => act[next] > 0
             /\ next = NoEvent => \A c \in Events : act[c] = 0
  <2>1. cur_event[t] \in Events /\ act[cur_event[t]] = 0
    BY <1>1, <1>7, <1>8
  <2>2. cur_event[t] \in ToSet(master_events[t])
    <3>1. active[t][cur_event[t]] > 0
      BY <1>3, <1>7, <1>8
    <3> QED BY <1>2, <2>1, <3>1 DEF ActiveUsed, Listed
  <2>3. \A c \in Events : act[c] > 0 => c \in ToSet(master_events[t])
    BY <1>2, <1>6 DEF ActiveUsed, Listed
  <2>4. /\ next \in Events \cup {NoEvent}
        /\ next # NoEvent => act[next] > 0
        /\ next = NoEvent => \A c \in Events : act[c] > 0 => c = cur_event[t]
    BY <1>4, <2>2, <2>3, NextActiveFinds DEF IInv
  <2> QED BY <1>4, <2>1, <2>4
<1> HIDE DEF last, next
<1>9. /\ active' = [active EXCEPT ![t] = act]
      /\ IF last
         THEN /\ cur_event' = [cur_event EXCEPT ![t] = next]
              /\ running_eventset' = [running_eventset EXCEPT ![t] = Started(left, next, starts)]
              /\ Blamed(t, stops)
              /\ ShutdownTimer(t, next)
         ELSE UNCHANGED <<turnVars, armed>>
      /\ status' = [status EXCEPT ![s] = FALSE]
      /\ runningBit' = [runningBit EXCEPT ![s] = fails]
      /\ stoppedBit' = [stoppedBit EXCEPT ![s] = @ \/ ~fails]
      /\ held' = [held EXCEPT ![t] = FALSE]
      /\ pc' = IF aborts THEN [pc EXCEPT ![t] = "aborted"] ELSE pc
      /\ UNCHANGED <<mev, master_events, uses, handler, cur>>
  BY Zenon DEF MPX_stop, Release, Goto, act, last, next, left
<1> HIDE DEF aborts
<1>10. SetTypes'
  <2>1. fails \in BOOLEAN /\ \A b \in BOOLEAN : (b \/ ~fails) \in BOOLEAN
    BY <1>7 DEF StopsCurrent
  <2> HIDE DEF fails
  <2>2. /\ mev' \in [Sets -> SUBSET Events] /\ status' \in [Sets -> BOOLEAN]
        /\ runningBit' \in [Sets -> BOOLEAN]
    BY <1>9, <2>1 DEF IInv, Types, SetTypes
  <2>3. stoppedBit' \in [Sets -> BOOLEAN]
    BY <1>9, <2>1, Zenon DEF IInv, Types, SetTypes
  <2> QED BY <2>2, <2>3 DEF SetTypes
<1> HIDE DEF fails
<1>11. MasterTypes'
  BY <1>4, <1>9 DEF IInv, Types, MasterTypes
<1>30. left \in {running_eventset[t], NoEvent} /\ Started(left, next, starts) \in {left, next}
  BY DEF Left, Started
<1>12. TurnTypes'
  <2>1. CASE ~last
    BY <1>9, <2>1 DEF turnVars, IInv, Types, TurnTypes
  <2>2. CASE last
    <3>1. Started(left, next, starts) \in Events \cup {NoEvent, Freed}
      BY <1>8, <1>30, <2>2 DEF IInv, Types, TurnTypes
    <3>2. stopFailed' \in [Threads -> BOOLEAN]
      BY <1>9, <2>2 DEF Blamed, IInv, Types, TurnTypes
    <3>3. next \in Events \cup {NoEvent}
      BY <1>8, <2>2
    <3>4. /\ [cur_event EXCEPT ![t] = next] \in [Threads -> Events \cup {NoEvent}]
          /\ [running_eventset EXCEPT ![t] = Started(left, next, starts)]
               \in [Threads -> Events \cup {NoEvent, Freed}]
      BY <3>1, <3>3 DEF IInv, Types, TurnTypes
    <3> QED BY <1>9, <2>2, <3>2, <3>4, Zenon DEF TurnTypes
  <2> QED BY <2>1, <2>2
<1>13. SignalTypes'
  <2>1. armed' \in [Timers -> BOOLEAN]
    BY <1>9 DEF ShutdownTimer, IInv, Types, SignalTypes
  <2> QED BY <1>9, <2>1 DEF IInv, Types, SignalTypes
<1>14. ControlTypes'
  BY <1>9 DEF IInv, Types, ControlTypes, Labels
<1>31. pc[t] = "idle" /\ \A u \in Threads \ {t} : pc'[u] = pc[u]
  BY <1>9 DEF MPX_stop, Owns, IInv, Types, ControlTypes
<1>15. StartedRuns'
  <2> SUFFICES ASSUME NEW r \in Sets, status'[r]
               PROVE  runningBit'[r] \/ (pc'[MasterOf[r]] = "startup" /\ cur'[MasterOf[r]] = r)
    BY DEF StartedRuns
  <2>1. r # s /\ status[r] /\ runningBit'[r] = runningBit[r] /\ MasterOf[r] \in Threads
    BY <1>9 DEF IInv, Types, SetTypes
  <2> QED BY <1>9, <1>31, <2>1 DEF IInv, StartedRuns
<1>16. active'[t] = act
  BY <1>9 DEF IInv, Types, MasterTypes
<1>17. Lists(t)'
  BY <1>2, <1>9, ListsKept
<1>18. /\ \A c \in Events : Users(t, c)' = Users(t, c)
       /\ \A c \in mev[s] : Starters(t, c)' = Starters(t, c) \ {s}
       /\ \A c \in Events \ mev[s] : Starters(t, c)' = Starters(t, c)
  BY <1>1, <1>9 DEF IInv, Types, SetTypes, Users, Starters
<1>19. Backed(t)'
  <2> SUFFICES ASSUME NEW c \in Events PROVE Cardinality(Starters(t, c)') <= act[c]
    BY <1>16 DEF Backed
  <2>1. /\ Cardinality(Starters(t, c)) <= active[t][c]
        /\ Cardinality(Starters(t, c)) \in Nat /\ active[t][c] \in Nat
    BY <1>2, UsersFinite, ThreadTypes DEF Backed, IInv
  <2>2. CASE c \in mev[s]
    <3>1. Cardinality(Starters(t, c) \ {s}) = Cardinality(Starters(t, c)) - 1
      BY <1>3, <2>2, UsersFinite, FS_RemoveElement
    <3>2. Cardinality(Starters(t, c)') = Cardinality(Starters(t, c)) - 1
      BY <1>18, <2>2, <3>1
    <3>3. act[c] = active[t][c] - 1
      BY <1>5, <2>2
    <3> QED BY <2>1, <3>2, <3>3
  <2>3. CASE c \notin mev[s]
    BY <1>5, <1>18, <2>1, <2>3
  <2> QED BY <2>2, <2>3
<1>20. ActiveUsed(t)'
  BY <1>2, <1>6, <1>16, <1>18 DEF ActiveUsed
<1>21. Current(t)'
  <2>1. CASE last
    <3>1. cur_event'[t] = next /\ running_eventset'[t] = Started(left, next, starts)
      BY <1>9, <2>1 DEF IInv, Types, TurnTypes
    <3>5. OnlyCurrent(t)'
      <4> SUFFICES ASSUME ~stopFailed'[t] PROVE Started(left, next, starts) \in {next, NoEvent}
        BY <3>1 DEF OnlyCurrent
      <4>1. ~stopFailed[t] /\ (running_eventset[t] = cur_event[t] => stops)
        BY <1>9, <2>1 DEF Blamed, IInv, Types, TurnTypes
      <4>2. left = NoEvent
        BY <1>2, <4>1 DEF OnlyCurrent, Left, StopsCurrent
      <4> QED BY <1>30, <4>2
    <3>2. CASE next = NoEvent
      <4>1. \A c \in Events : act[c] = 0
        BY <1>8, <2>1, <3>2
      <4> QED BY <1>16, <3>1, <3>2, <3>5, <4>1 DEF Current, CurrentSome, CurrentActive
    <3>3. CASE next # NoEvent
      <4>1. next \in Events /\ act[next] > 0
        BY <1>8, <2>1, <3>3
      <4> QED BY <1>16, <3>1, <3>3, <3>5, <4>1 DEF Current, CurrentSome, CurrentActive
    <3> QED BY <3>2, <3>3
  <2>2. CASE ~last
    <3>1. UNCHANGED <<cur_event, running_eventset, stopFailed>>
      BY <1>9, <2>2 DEF turnVars
    <3>2. OnlyCurrent(t)'
      BY <1>2, <3>1 DEF OnlyCurrent
    <3>3. CASE cur_event[t] = NoEvent
      <4>1. \A c \in Events : act[c] = 0
        BY <1>2, <1>4, <1>6, <3>3, ThreadTypes DEF CurrentSome, IInv
      <4> QED BY <1>16, <3>1, <3>2, <3>3, <4>1 DEF Current, CurrentSome, CurrentActive
    <3>4. CASE cur_event[t] # NoEvent
      <4>1. cur_event[t] \in Events /\ active[t][cur_event[t]] > 0
        BY <1>2, <3>4, ThreadTypes DEF CurrentActive, IInv
      <4>2. act[cur_event[t]] > 0
        BY <1>4, <1>5, <1>7, <2>2, <4>1
      <4> QED BY <1>16, <3>1, <3>2, <3>4, <4>1, <4>2 DEF Current, CurrentSome, CurrentActive
    <3> QED BY <3>3, <3>4
  <2> QED BY <2>1, <2>2
<1>22. ASSUME NEW u \in Threads, u # t PROVE Good(u)'
  <2>1. \A r \in Sets : MasterOf[r] = u => mev'[r] = mev[r] /\ status'[r] = status[r]
    BY <1>1, <1>9, <1>22 DEF IInv, Types, SetTypes
  <2>2. active'[u] = active[u]
    BY <1>9, <1>22 DEF IInv, Types, MasterTypes
  <2>3. /\ cur_event'[u] = cur_event[u] /\ running_eventset'[u] = running_eventset[u]
        /\ stopFailed'[u] = stopFailed[u]
    BY <1>9, <1>22 DEF Blamed, IInv, Types, TurnTypes, turnVars
  <2> QED BY <1>9, <1>22, <1>31, <2>1, <2>2, <2>3, OtherThread DEF IInv
<1>24. Begins(t)'
  BY <1>9, <1>31 DEF Begins, IInv, Types, ControlTypes
<1>23. Sound'
  BY <1>17, <1>19, <1>20, <1>21, <1>22, <1>24 DEF Sound, Good, Actives
<1> QED BY <1>10, <1>11, <1>12, <1>13, <1>14, <1>15, <1>23 DEF IInv, Types

LEMMA TickSteps ==
  ASSUME IInv, Alive, NEW t \in Threads, NEW long \in BOOLEAN, NEW stops \in BOOLEAN,
         NEW starts \in BOOLEAN, Tick(t, long, stops, starts)
  PROVE  IInv'
<1> DEFINE next == Turn(t, StopsCurrent(t, stops), long)
           now == IF next # NoEvent THEN next ELSE cur_event[t]
           left == Left(t, stops)
           ran == Started(left, now, starts /\ active[t][now] > 0)
<1>1. /\ Listed(t) /\ ActiveUsed(t) /\ OnlyCurrent(t)
      /\ CurrentSome(t) /\ CurrentActive(t) /\ cur_event[t] # NoEvent
  BY DEF Tick, IInv, Sound, Good, Lists, Actives, Current
<1>2. cur_event[t] \in Events /\ active[t][cur_event[t]] > 0
  BY <1>1, ThreadTypes DEF CurrentActive, IInv
<1>3. \A c \in Events : active[t][c] > 0 => c \in ToSet(master_events[t])
  BY <1>1 DEF ActiveUsed, Listed
<1>4. /\ NextActive(t, active[t]) \in Events \cup {NoEvent}
      /\ NextActive(t, active[t]) # NoEvent => active[t][NextActive(t, active[t])] > 0
  BY <1>2, <1>3, ThreadTypes, NextActiveFinds DEF IInv
<1>5. now \in Events /\ active[t][now] > 0
  BY <1>2, <1>4 DEF Turn
<1> HIDE DEF next
<1>6. /\ cur_event' = [cur_event EXCEPT ![t] = now]
      /\ running_eventset' = [running_eventset EXCEPT ![t] = ran]
      /\ Blamed(t, stops)
      /\ UNCHANGED <<setVars, masterVars, held, timerVars, pcVars>>
  <2>1. cur_event' = [cur_event EXCEPT ![t] = now]
    BY DEF Tick, next
  <2>2. cur_event'[t] = now
    BY <2>1 DEF IInv, Types, TurnTypes
  <2> QED BY <2>1, <2>2 DEF Tick
<1> HIDE DEF now
<1>7. left \in {running_eventset[t], NoEvent} /\ ran \in {left, now}
  BY DEF Left, Started
<1> HIDE DEF left, ran
<1>8. Types' /\ StartedRuns'
  <2>1. TurnTypes'
    <3>1. ran \in Events \cup {NoEvent, Freed}
      BY <1>5, <1>7 DEF IInv, Types, TurnTypes
    <3>2. stopFailed' \in [Threads -> BOOLEAN]
      BY <1>6 DEF Blamed, IInv, Types, TurnTypes
    <3> QED BY <1>5, <1>6, <3>1, <3>2 DEF IInv, Types, TurnTypes
  <2>2. SetTypes' /\ MasterTypes' /\ SignalTypes' /\ ControlTypes'
    BY <1>6 DEF setVars, masterVars, timerVars, pcVars, IInv, Types, SetTypes, MasterTypes,
                SignalTypes, ControlTypes
  <2>3. StartedRuns'
    BY <1>6 DEF setVars, pcVars, IInv, StartedRuns
  <2> QED BY <2>1, <2>2, <2>3 DEF Types
<1>9. Current(t)'
  <2>1. cur_event'[t] = now /\ running_eventset'[t] = ran /\ active' = active /\ now # NoEvent
    BY <1>5, <1>6 DEF masterVars, IInv, Types, TurnTypes
  <2>2. OnlyCurrent(t)'
    <3> SUFFICES ASSUME ~stopFailed'[t] PROVE ran \in {now, NoEvent}
      BY <2>1 DEF OnlyCurrent
    <3>1. ~stopFailed[t] /\ (running_eventset[t] = cur_event[t] => stops)
      BY <1>6 DEF Blamed, IInv, Types, TurnTypes
    <3>2. left = NoEvent
      BY <1>1, <3>1 DEF OnlyCurrent, left, Left, StopsCurrent
    <3> QED BY <1>7, <3>2
  <2> QED BY <1>5, <2>1, <2>2 DEF Current, CurrentSome, CurrentActive
<1>10. Lists(t)' /\ Actives(t)' /\ Begins(t)'
  BY <1>6, ListsKept, ActivesKept, BeginsKept DEF IInv, Sound, Good, setVars, masterVars, pcVars
<1>11. ASSUME NEW u \in Threads, u # t PROVE Good(u)'
  <2>1. /\ cur_event'[u] = cur_event[u] /\ running_eventset'[u] = running_eventset[u]
        /\ stopFailed'[u] = stopFailed[u]
    BY <1>6, <1>11 DEF Blamed, IInv, Types, TurnTypes
  <2> QED BY <1>6, <2>1, OtherThread DEF IInv, setVars, masterVars, pcVars
<1> QED BY <1>8, <1>9, <1>10, <1>11 DEF IInv, Sound, Good

-----------------------------------------------------------------------------
LEMMA NextIInv == IInv /\ [Next]_vars => IInv'
<1> SUFFICES ASSUME IInv, [Next]_vars PROVE IInv'
  OBVIOUS
<1>1. CASE Next
  <2>1. Alive
    BY <1>1 DEF Next
  <2>2. PICK t \in Threads :
          \/ \E starts \in BOOLEAN : MPX_start(t, starts)
          \/ Startup(t)
          \/ \E s \in Sets : Call(t, s)
          \/ \E long, stops, starts \in BOOLEAN : Tick(t, long, stops, starts)
    BY <1>1 DEF Next
  <2>3. CASE Startup(t)
    BY <2>1, <2>3, StartupSteps
  <2>4. CASE \E s \in Sets : Call(t, s)
    BY <2>1, <2>4, AddEventSteps, RemoveEventSteps, MPX_cleanupSteps, PAPI_startSteps,
       MPX_stopSteps DEF Call
  <2>5. CASE \E long, stops, starts \in BOOLEAN : Tick(t, long, stops, starts)
    BY <2>1, <2>5, TickSteps
  <2>6. CASE \E starts \in BOOLEAN : MPX_start(t, starts)
    BY <2>1, <2>6, MPX_startSteps
  <2> QED BY <2>2, <2>3, <2>4, <2>5, <2>6
<1>2. CASE UNCHANGED vars
  <2>1. UNCHANGED <<setVars, masterVars, turnVars, held, timerVars, pcVars>>
    BY <1>2 DEF vars
  <2>2. Types' /\ (Alive' <=> Alive) /\ (Alive => StartedRuns')
    BY <2>1 DEF setVars, masterVars, turnVars, timerVars, pcVars, IInv, StartedRuns, Alive,
                Types, SetTypes, MasterTypes, TurnTypes, SignalTypes, ControlTypes
  <2>3. Alive => Sound'
    BY <2>1, OtherThread DEF IInv, Sound, setVars, masterVars, turnVars, pcVars
  <2> QED BY <2>2, <2>3 DEF IInv
<1> QED BY <1>1, <1>2

\* The inductive invariant: the reference counts of a thread's master events
\* against its EventSets, and its current event against the counts.
THEOREM Invariance == Spec => []IInv
BY InitIInv, NextIInv, PTL DEF Spec

\* Every variable keeps its type; no count goes below zero (mpx_delete_one_event,
\* MPX_stop).
THEOREM TypeCorrect == Spec => []TypeOK
<1>1. IInv => TypeOK
  BY DEF IInv, Types, SetTypes, MasterTypes, TurnTypes, SignalTypes, ControlTypes, TypeOK
<1> QED BY <1>1, Invariance, PTL

\* mpx_remove_unused frees a master event when, and only when, the last EventSet
\* that points to it has given it up.
THEOREM Uses == Spec => []UsesMatch
<1>1. IInv => UsesMatch
  BY DEF IInv, Sound, Good, Lists, ListOnce, Counted, Listed, Users, UsesMatch
<1> QED BY <1>1, Invariance, PTL

\* cur_event, which the handler and MPX_start dereference, is an active master
\* event that is still in the list, and NULL only if none is active, whichever
\* starts and stops fail; until a vperfctr_stop fails, nothing else runs.
THEOREM Currents == Spec => []CurrentIsActive
<1>1. IInv => CurrentIsActive
  <2> SUFFICES ASSUME IInv, Alive, NEW t \in Threads
               PROVE  /\ cur_event[t] = NoEvent <=> \A c \in Events : active[t][c] = 0
                      /\ cur_event[t] # NoEvent =>
                           /\ active[t][cur_event[t]] > 0
                           /\ cur_event[t] \in ToSet(master_events[t])
                      /\ ~stopFailed[t] => running_eventset[t] \in {cur_event[t], NoEvent}
    BY DEF CurrentIsActive
  <2>1. /\ Listed(t) /\ ActiveUsed(t)
        /\ CurrentSome(t) /\ CurrentActive(t) /\ OnlyCurrent(t)
    BY DEF IInv, Sound, Good, Lists, Actives, Current
  <2>2. ASSUME cur_event[t] # NoEvent PROVE cur_event[t] \in ToSet(master_events[t])
    <3>1. cur_event[t] \in Events /\ active[t][cur_event[t]] > 0
      BY <2>1, <2>2, ThreadTypes DEF CurrentActive, IInv
    <3> QED BY <2>1, <3>1 DEF ActiveUsed, Listed
  <2> QED BY <2>1, <2>2 DEF CurrentSome, CurrentActive, OnlyCurrent
<1> QED BY <1>1, Invariance, PTL

-----------------------------------------------------------------------------
\* Threads with a timer each, as a kernel with timers per thread has them; a
\* process with one ITIMER_PROF has them if one thread multiplexes.
OwnTimers == \A t, u \in Threads : TimerOf[t] = TimerOf[u] => t = u

\* A thread with a current event takes signals, and its timer runs or is about
\* to be started.
Arriving(t) ==
  cur_event[t] # NoEvent =>
    ~held[t] /\ (pc[t] \in {"startup", "aborted"} \/ (armed[TimerOf[t]] /\ handler))
TInv == IInv /\ \A t \in Threads : Arriving(t)

\* A call of another thread leaves the thread's timer alone.
LEMMA ArrivingKept ==
  ASSUME NEW t \in Threads, Arriving(t),
         cur_event'[t] = cur_event[t], held'[t] \in {held[t], FALSE}, pc'[t] = pc[t],
         armed[TimerOf[t]] => armed'[TimerOf[t]], handler => handler'
  PROVE  Arriving(t)'
BY DEF Arriving

LEMMA UnuseArriving ==
  ASSUME TInv, NEW t \in Threads, NEW S, pc[t] = "idle", Unuse(t, S)
  PROVE  \A u \in Threads : Arriving(u)'
<1>1. /\ cur_event' = cur_event /\ armed' = armed /\ handler' = handler
      /\ pc' = pc \/ pc' = [pc EXCEPT ![t] = "aborted"]
      /\ held' = held \/ held' = [held EXCEPT ![t] = FALSE]
  BY DEF Unuse, Release, Goto, timerVars
<1>2. \A u \in Threads : held'[u] \in {held[u], FALSE} /\ (pc[u] \in {"startup", "aborted"} => pc'[u] = pc[u])
  BY <1>1 DEF TInv, IInv, Types, SignalTypes, ControlTypes
<1> QED BY <1>1, <1>2 DEF TInv, Arriving

LEMMA MPX_stopArriving ==
  ASSUME OwnTimers, TInv, NEW t \in Threads, NEW s \in Sets,
         NEW stops \in BOOLEAN, NEW starts \in BOOLEAN, MPX_stop(t, s, stops, starts),
         NEW u \in Threads
  PROVE  Arriving(u)'
<1> DEFINE act == Shifted(active[t], mev[s], -1)
           last == NoLongerNeeded(t, s, act)
           next == NextActive(t, act)
<1>1. /\ IF last
         THEN /\ cur_event' = [cur_event EXCEPT ![t] = next]
              /\ armed' = [armed EXCEPT ![TimerOf[t]] = @ /\ next # NoEvent]
         ELSE cur_event' = cur_event /\ armed' = armed
      /\ held' = [held EXCEPT ![t] = FALSE] /\ handler' = handler
      /\ pc' = pc \/ (last /\ pc' = [pc EXCEPT ![t] = "aborted"])
  BY Zenon DEF MPX_stop, Release, Goto, ShutdownTimer, turnVars
<1>7. pc'[u] \in {pc[u], "aborted"} /\ (u # t \/ ~last => pc'[u] = pc[u])
  BY <1>1 DEF TInv, IInv, Types, ControlTypes
<1>2. last => cur_event[t] \in Events
  BY DEF NoLongerNeeded, TInv, IInv, Types, SetTypes
<1>3. held'[u] \in {held[u], FALSE} /\ held'[t] = FALSE
  BY <1>1 DEF TInv, IInv, Types, SignalTypes
<1> HIDE DEF last, next
<1>4. CASE ~last
  BY <1>1, <1>3, <1>4, <1>7, ArrivingKept DEF TInv
<1>5. CASE last /\ u # t
  <2>1. cur_event'[u] = cur_event[u]
    BY <1>1, <1>5 DEF TInv, IInv, Types, TurnTypes
  <2>2. armed'[TimerOf[u]] = armed[TimerOf[u]]
    BY <1>1, <1>5 DEF OwnTimers, TInv, IInv, Types, SignalTypes
  <2> QED BY <1>1, <1>3, <1>5, <1>7, <2>1, <2>2, ArrivingKept DEF TInv
<1>6. CASE last /\ u = t
  <2>1. cur_event'[t] = next /\ armed'[TimerOf[t]] = (armed[TimerOf[t]] /\ next # NoEvent)
    BY <1>1, <1>6 DEF TInv, IInv, Types, TurnTypes, SignalTypes
  <2>2. pc[t] = "idle" /\ cur_event[t] # NoEvent
    BY <1>2, <1>6 DEF MPX_stop, Owns
  <2>3. armed[TimerOf[t]] /\ handler
    BY <2>2 DEF TInv, Arriving
  <2> QED BY <1>1, <1>3, <1>6, <1>7, <2>1, <2>3 DEF Arriving
<1> QED BY <1>4, <1>5, <1>6

LEMMA CallArriving ==
  ASSUME OwnTimers, TInv, NEW t \in Threads, NEW s \in Sets, Call(t, s)
  PROVE  \A u \in Threads : Arriving(u)'
<1>1. CASE \E c \in Events : AddEvent(t, s, c)
  <2>1. /\ held' = [held EXCEPT ![t] = FALSE]
        /\ UNCHANGED <<cur_event, armed, handler, pc>>
    BY <1>1 DEF AddEvent, Release, turnVars, timerVars, pcVars
  <2>2. \A u \in Threads : held'[u] \in {held[u], FALSE}
    BY <2>1 DEF TInv, IInv, Types, SignalTypes
  <2> QED BY <2>1, <2>2, ArrivingKept DEF TInv
<1>2. CASE \E c \in Events : RemoveEvent(t, s, c)
  BY <1>2, UnuseArriving DEF RemoveEvent, Owns
<1>3. CASE MPX_cleanup(t, s)
  BY <1>3, UnuseArriving DEF MPX_cleanup, Owns
<1>4. CASE PAPI_start(t, s)
  <2>1. /\ pc[t] = "idle" /\ pc' = [pc EXCEPT ![t] = "starting"]
        /\ UNCHANGED <<cur_event, held, armed, handler>>
    BY <1>4 DEF PAPI_start, Owns, Goto, turnVars, timerVars
  <2>2. \A u \in Threads : pc[u] \in {"startup", "aborted"} => pc'[u] = pc[u]
    BY <2>1 DEF TInv, IInv, Types, ControlTypes
  <2> QED BY <2>1, <2>2 DEF TInv, Arriving
<1>5. CASE \E stops, starts \in BOOLEAN : MPX_stop(t, s, stops, starts)
  BY <1>5, MPX_stopArriving
<1> QED BY <1>1, <1>2, <1>3, <1>4, <1>5 DEF Call

LEMMA StepArriving == OwnTimers /\ TInv /\ [Next]_vars => TInv'
<1> SUFFICES ASSUME OwnTimers, TInv, [Next]_vars PROVE \A u \in Threads : Arriving(u)'
  BY NextIInv DEF TInv
<1>1. ASSUME NEW t \in Threads, Startup(t), NEW u \in Threads PROVE Arriving(u)'
  <2>1. /\ UNCHANGED <<cur_event, held>> /\ handler' = TRUE
        /\ armed' = [armed EXCEPT ![TimerOf[t]] = TRUE] /\ pc' = [pc EXCEPT ![t] = "idle"]
    BY <1>1 DEF Startup, Goto, turnVars
  <2>2. CASE u = t
    BY <2>1, <2>2 DEF Arriving, TInv, IInv, Types, SignalTypes
  <2>3. CASE u # t
    <3>1. pc'[u] = pc[u] /\ (armed[TimerOf[u]] => armed'[TimerOf[u]])
      BY <2>1, <2>3 DEF TInv, IInv, Types, SignalTypes, ControlTypes
    <3> QED BY <2>1, <3>1, ArrivingKept DEF TInv
  <2> QED BY <2>2, <2>3
<1>4. ASSUME NEW t \in Threads, NEW starts \in BOOLEAN, MPX_start(t, starts),
             NEW u \in Threads
      PROVE  Arriving(u)'
  <2>1. /\ cur_event' = cur_event \/ \E c : cur_event' = [cur_event EXCEPT ![t] = c]
        /\ held' = [held EXCEPT ![t] = FALSE]
        /\ \E to \in {"startup", "aborted"} : pc' = [pc EXCEPT ![t] = to]
        /\ UNCHANGED <<armed, handler>>
    <3>1. /\ cur_event' = cur_event \/ \E c : cur_event' = [cur_event EXCEPT ![t] = c]
          /\ held' = [held EXCEPT ![t] = FALSE]
          /\ UNCHANGED <<armed, handler>>
      BY <1>4, Zenon DEF MPX_start, Release, timerVars
    <3>2. \E to \in {"startup", "aborted"} : pc' = [pc EXCEPT ![t] = to]
      BY <1>4 DEF MPX_start, Goto
    <3> QED BY <3>1, <3>2
  <2>2. CASE u = t
    BY <2>1, <2>2 DEF Arriving, TInv, IInv, Types, SignalTypes, ControlTypes
  <2>3. CASE u # t
    <3>1. cur_event'[u] = cur_event[u] /\ held'[u] = held[u] /\ pc'[u] = pc[u]
      BY <2>1, <2>3 DEF TInv, IInv, Types, TurnTypes, SignalTypes, ControlTypes
    <3> QED BY <2>1, <3>1, ArrivingKept DEF TInv
  <2> QED BY <2>2, <2>3
<1>2. ASSUME NEW t \in Threads, NEW long \in BOOLEAN, NEW stops \in BOOLEAN,
             NEW starts \in BOOLEAN, Tick(t, long, stops, starts), NEW u \in Threads
      PROVE  Arriving(u)'
  <2>1. /\ cur_event[t] # NoEvent /\ UNCHANGED <<held, armed, handler, pc>>
        /\ \E c : cur_event' = [cur_event EXCEPT ![t] = c]
    BY <1>2, Zenon DEF Tick, timerVars, pcVars
  <2>2. CASE u = t
    BY <2>1, <2>2 DEF TInv, Arriving
  <2>3. CASE u # t
    <3>1. cur_event'[u] = cur_event[u]
      BY <2>1, <2>3 DEF TInv, IInv, Types, TurnTypes
    <3> QED BY <2>1, <3>1, ArrivingKept DEF TInv
  <2> QED BY <2>2, <2>3
<1>3. CASE UNCHANGED vars
  BY <1>3, ArrivingKept DEF TInv, vars, turnVars, timerVars, pcVars
<1> QED BY <1>1, <1>2, <1>3, <1>4, CallArriving DEF Next

\* Ticks reach the handler while an event is current, if no other thread can shut
\* the timer down: MPX_stop stops it only when no master event of the calling
\* thread is left active.
THEOREM Ticks == ASSUME OwnTimers PROVE Spec => []TicksArrive
<1>1. Init => TInv
  BY InitIInv DEF Init, TInv, Arriving
<1>2. TInv /\ [Next]_vars => TInv'
  BY StepArriving
<1>3. TInv => TicksArrive
  BY DEF TInv, Arriving, TicksArrive
<1> QED BY <1>1, <1>2, <1>3, PTL DEF Spec
=============================================================================
