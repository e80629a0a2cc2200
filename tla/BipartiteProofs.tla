--------------------------- MODULE BipartiteProofs ---------------------------
(***************************************************************************)
(* The allocator is exact for any number of counters and lists of any      *)
(* length: it succeeds if and only if each event can have a counter of its *)
(* own, and then gives it one.                                             *)
(***************************************************************************)
EXTENDS Bipartite, FiniteSetTheorems, WellFoundedInduction, TLAPS

USE BipartiteAssumption

-----------------------------------------------------------------------------
(* Numbers and finite sets of them.                                        *)

\* Induction along an interval.
LEMMA Along ==
  ASSUME NEW n \in Nat, NEW Good, 0 \in Good,
         \A j \in 1..n : j - 1 \in Good => j \in Good
  PROVE  \A j \in 0..n : j \in Good
<1> DEFINE Bad == {j \in 0..n : j \notin Good}
           Less == {ss \in Nat \X Nat : ss[1] < ss[2]}
<1> SUFFICES ASSUME Bad # {} PROVE FALSE
  OBVIOUS
<1>1. IsWellFoundedOn(Less, Nat)
  BY NatLessThanWellFounded DEF OpToRel
<1>2. Bad \in SUBSET Nat
  OBVIOUS
<1>3. PICK x \in Bad : \A y \in Bad : ~ (<<y, x>> \in Less)
  BY <1>1, <1>2, WFMin
<1>4. x \in 1..n /\ x - 1 \in 0..n
  BY <1>3
<1>5. x - 1 \in Bad
  BY <1>3, <1>4
<1>6. <<x - 1, x>> \in Nat \X Nat /\ <<x - 1, x>>[1] = x - 1 /\ <<x - 1, x>>[2] = x
  BY <1>4
<1> HIDE DEF Bad
<1>7. <<x - 1, x>> \in Less
  BY <1>4, <1>6
<1> QED BY <1>3, <1>5, <1>7

LEMMA MinIn ==
  ASSUME NEW S \in SUBSET Nat, S # {}
  PROVE  Min(S) \in S
<1> DEFINE Less == {ss \in Nat \X Nat : ss[1] < ss[2]}
<1>1. IsWellFoundedOn(Less, Nat)
  BY NatLessThanWellFounded DEF OpToRel
<1>2. PICK x \in S : \A y \in S : ~ (<<y, x>> \in Less)
  BY <1>1, WFMin
<1>3. ASSUME NEW y \in S PROVE x <= y
  <2> SUFFICES ASSUME y < x PROVE <<y, x>> \in Less
    BY <1>2
  <2> QED OBVIOUS
<1> QED BY <1>2, <1>3 DEF Min

LEMMA MaxIn ==
  ASSUME NEW S \in SUBSET Int, NEW m \in S, \A x \in S : x <= m
  PROVE  Max(S) = m
<1>1. m \in S /\ \A y \in S : m >= y
  OBVIOUS
<1>2. \A z \in S : (\A y \in S : z >= y) => z = m
  OBVIOUS
<1> QED BY <1>1, <1>2 DEF Max

\* The places of a list, and the counters.
LEMMA Below ==
  ASSUME NEW n \in Nat
  PROVE  /\ IsFiniteSet(1..n) /\ Cardinality(1..n) = n
         /\ IsFiniteSet(0..n - 1)
<1>1. 0 \in Int /\ 1 \in Int /\ n \in Int /\ n - 1 \in Int
  OBVIOUS
<1>2. IsFiniteSet(1..n)
      /\ Cardinality(1..n) = IF 1 > n THEN 0 ELSE n - 1 + 1
  BY <1>1, FS_Interval
<1>3. (IF 1 > n THEN 0 ELSE n - 1 + 1) = n
  OBVIOUS
<1>4. IsFiniteSet(0..n - 1)
  BY <1>1, FS_Interval
<1> QED BY <1>2, <1>3, <1>4

\* The counters that an event may use.
LEMMA Selector ==
  ASSUME NEW sel \in SUBSET Counters
  PROVE  IsFiniteSet(sel) /\ (exclusive(sel) <=> \E ctr \in Counters : sel = {ctr})
<1>1. IsFiniteSet(Counters)
  BY Below DEF Counters
<1>2. IsFiniteSet(sel)
  BY <1>1, FS_Subset
<1>3. exclusive(sel) <=> \E ctr : sel = {ctr}
  BY <1>2, FS_Singleton DEF exclusive
<1>4. ASSUME NEW ctr, sel = {ctr} PROVE ctr \in Counters
  BY <1>4
<1> QED BY <1>2, <1>3, <1>4

\* Which indices InOrder lists, each of them once.
LEMMA Ordered ==
  ASSUME NEW n \in Nat, NEW S \in SUBSET (1..n)
  PROVE  /\ Cardinality(S) \in Nat /\ Cardinality(S) <= n
         /\ InOrder(S) \in [1..Cardinality(S) -> S]
         /\ IsInjective(InOrder(S))
         /\ ToSet(InOrder(S)) = S
<1> DEFINE c == Cardinality(S)
           upTo(i) == {j \in S : j <= i}
           rank == [i \in S |-> Cardinality(upTo(i))]
<1>1. IsFiniteSet(S) /\ c \in Nat /\ c <= n
  <2>1. IsFiniteSet(1..n) /\ Cardinality(1..n) = n
    BY Below
  <2>2. IsFiniteSet(S) /\ c <= n
    BY <2>1, FS_Subset
  <2> QED BY <2>2, FS_CardinalityType
<1>2. ASSUME NEW i \in S PROVE IsFiniteSet(upTo(i)) /\ rank[i] \in 1..c
  <2>1. upTo(i) \in SUBSET S /\ i \in upTo(i)
    OBVIOUS
  <2>2. IsFiniteSet(upTo(i)) /\ Cardinality(upTo(i)) <= c
    BY <1>1, <2>1, FS_Subset
  <2>3. Cardinality(upTo(i)) \in Nat /\ Cardinality(upTo(i)) # 0
    BY <2>1, <2>2, FS_CardinalityType, FS_EmptySet
  <2>4. rank[i] = Cardinality(upTo(i))
    OBVIOUS
  <2> HIDE DEF c, upTo, rank
  <2> QED BY <1>1, <2>2, <2>3, <2>4
<1>3. ASSUME NEW i \in S, NEW j \in S, i < j PROVE rank[i] # rank[j]
  <2>1. S \subseteq Int
    OBVIOUS
  <2>2. \A x \in S : x <= i => x <= j
    BY <1>3, <2>1
  <2>3. j <= j /\ ~ (j <= i)
    BY <1>3, <2>1
  <2>4. upTo(i) \in SUBSET upTo(j) /\ upTo(i) # upTo(j)
    BY Zenon, <2>2, <2>3
  <2>5. IsFiniteSet(upTo(j))
    BY <1>2
  <2> HIDE DEF upTo
  <2>6. Cardinality(upTo(i)) # Cardinality(upTo(j))
    BY <2>4, <2>5, FS_Subset
  <2> QED BY <2>6
<1>4. rank \in [S -> 1..c]
  BY <1>2
<1>5. ASSUME NEW i \in S, NEW j \in S, rank[i] = rank[j] PROVE i = j
  BY <1>3, <1>5
<1>6. rank \in Injection(S, 1..c)
  <2>1. \A i, j \in S : rank[i] = rank[j] => i = j
    BY <1>5
  <2>2. DOMAIN rank = S
    OBVIOUS
  <2> HIDE DEF rank, c
  <2> QED BY <1>4, <2>1, <2>2 DEF Injection, IsInjective
<1>7. rank \in Surjection(S, 1..c)
  <2>1. IsFiniteSet(1..c) /\ Cardinality(1..c) = c
    BY <1>1, Below
  <2>2. Cardinality(S) = Cardinality(1..c)
    BY <2>1
  <2> HIDE DEF rank, c
  <2> QED BY <1>6, <2>1, <2>2, FS_Injection
<1>8. ASSUME NEW k \in 1..c PROVE InOrder(S)[k] \in S /\ rank[InOrder(S)[k]] = k
  <2>1. PICK i \in S : rank[i] = k
    <3> HIDE DEF rank, c
    <3> QED BY <1>7 DEF Surjection
  <2>2. InOrder(S)[k] = CHOOSE j \in S : Cardinality(upTo(j)) = k
    BY DEF InOrder
  <2>3. Cardinality(upTo(i)) = k
    BY <2>1
  <2> HIDE DEF upTo
  <2>4. InOrder(S)[k] \in S /\ Cardinality(upTo(InOrder(S)[k])) = k
    BY <2>2, <2>3
  <2>5. rank[InOrder(S)[k]] = Cardinality(upTo(InOrder(S)[k]))
    BY <2>4
  <2> QED BY <2>4, <2>5
<1>9. DOMAIN InOrder(S) = 1..c
  BY DEF InOrder
<1>10. InOrder(S) \in [1..c -> S]
  <2>1. InOrder(S) = [k \in 1..c |-> InOrder(S)[k]]
    BY DEF InOrder
  <2> HIDE DEF c, rank
  <2> QED BY <1>8, <2>1
<1>11. IsInjective(InOrder(S))
  <2> HIDE DEF c, rank
  <2> QED BY <1>8, <1>9 DEF IsInjective
<1>12. ASSUME NEW i \in S PROVE i \in ToSet(InOrder(S))
  <2>1. rank[i] \in 1..c /\ InOrder(S)[rank[i]] \in S
        /\ rank[InOrder(S)[rank[i]]] = rank[i]
    <3>1. rank[i] \in 1..c
      BY <1>2
    <3> HIDE DEF c, rank
    <3> QED BY <1>8, <3>1
  <2> HIDE DEF c, rank
  <2>2. InOrder(S)[rank[i]] = i
    BY <1>5, <2>1
  <2> QED BY <1>9, <2>1, <2>2 DEF ToSet
<1>13. ToSet(InOrder(S)) = S
  <2> HIDE DEF c, rank
  <2> QED BY <1>9, <1>10, <1>12 DEF ToSet
<1> QED BY <1>1, <1>10, <1>11, <1>13

-----------------------------------------------------------------------------
(* The scan.  Its fold is the last of a chain of states, one for each turn *)
(* of the while loop.                                                      *)

Start(list) ==
  [sel |-> list, conflict |-> FALSE,
   idx_q |-> InOrder({i \in DOMAIN list : exclusive(list[i])})]

\* What MapThenFoldSet defines for one set of heads, and the function that it is
\* the value of.
Part(b, seq, it, s) == IF s = {} THEN b ELSE Meet(it[s \ {Max(s)}], seq[Max(s)])
Solves(b, seq, it, m) == it = [s \in SUBSET (1..m) |-> Part(b, seq, it, s)]

LEMMA FoldExists ==
  ASSUME NEW b, NEW n \in Nat, NEW seq
  PROVE  \E it : Solves(b, seq, it, n)
<1> USE DEF Solves, Part
<1> DEFINE Good == {m \in 0..n : \E it : Solves(b, seq, it, m)}
<1>1. 0 \in Good
  <2> DEFINE it == [s \in SUBSET (1..0) |-> b]
  <2>1. Solves(b, seq, it, 0)
    OBVIOUS
  <2> QED BY <2>1
<1>2. ASSUME NEW m \in 1..n, m - 1 \in Good PROVE m \in Good
  <2>1. PICK it : Solves(b, seq, it, m - 1)
    BY <1>2
  <2> DEFINE more == [s \in SUBSET (1..m) |->
                        IF m \in s THEN Meet(it[s \ {m}], seq[m]) ELSE it[s]]
  <2>2. ASSUME NEW s \in SUBSET (1..m)
        PROVE  more[s] = IF m \in s THEN Meet(it[s \ {m}], seq[m]) ELSE it[s]
    OBVIOUS
  <2> HIDE DEF more
  <2>3. ASSUME NEW s \in SUBSET (1..m) PROVE more[s] = Part(b, seq, more, s)
    <3>1. CASE m \in s
      <4>1. Max(s) = m /\ s # {}
        BY <3>1, MaxIn
      <4>2. s \ {m} \in SUBSET (1..m) /\ m \notin s \ {m}
        OBVIOUS
      <4>3. more[s \ {m}] = it[s \ {m}]
        BY <2>2, <4>2
      <4> QED BY <2>2, <3>1, <4>1, <4>3
    <3>2. CASE m \notin s
      <4>1. s \in SUBSET (1..m - 1)
        BY <3>2
      <4>2. it[s] = Part(b, seq, it, s)
        BY <2>1, <4>1
      <4>3. CASE s = {}
        BY <2>2, <4>2, <4>3
      <4>4. CASE s # {}
        <5>1. s \ {Max(s)} \in SUBSET (1..m) /\ m \notin s \ {Max(s)}
          BY <3>2
        <5>2. more[s \ {Max(s)}] = it[s \ {Max(s)}] /\ more[s] = it[s]
          BY <2>2, <3>2, <5>1
        <5> QED BY <4>2, <4>4, <5>2
      <4> QED BY <4>3, <4>4
    <3> QED BY <3>1, <3>2
  <2>4. more = [s \in SUBSET (1..m) |-> more[s]]
    BY DEF more
  <2>5. Solves(b, seq, more, m)
    BY <2>3, <2>4
  <2>6. m \in 0..n
    OBVIOUS
  <2> HIDE DEF Solves
  <2> QED BY Zenon, <2>5, <2>6
<1>3. \A m \in 1..n : m - 1 \in Good => m \in Good
  BY Zenon, <1>2
<1> HIDE DEF Good
<1>4. \A m \in 0..n : m \in Good
  BY Zenon, <1>1, <1>3, Along
<1>5. n \in Good
  BY <1>4
<1> QED BY <1>5 DEF Good

LEMMA ScanChain ==
  ASSUME NEW n \in Nat, NEW list, DOMAIN list = 1..n
  PROVE  \E g : /\ g[0] = Start(list)
                /\ \A j \in 1..n : g[j] = Meet(g[j - 1], j)
                /\ ScanQueue(list) = g[n]
<1> DEFINE b == Start(list)
           seq == [i \in 1..n |-> i]
           it == CHOOSE it : it = [s \in SUBSET (1..n) |->
                   IF s = {} THEN b ELSE Meet(it[s \ {Max(s)}], seq[Max(s)])]
           g == [j \in 0..n |-> it[1..j]]
<1>1. ASSUME NEW f PROVE
        Solves(b, seq, f, n) <=>
          f = [s \in SUBSET (1..n) |->
                 IF s = {} THEN b ELSE Meet(f[s \ {Max(s)}], seq[Max(s)])]
  BY DEF Solves, Part
<1>2. Solves(b, seq, it, n)
  <2> HIDE DEF b, seq
  <2> QED BY <1>1, FoldExists
<1>3. ScanQueue(list) = it[1..n]
  <2>1. DOMAIN seq = 1..n
    OBVIOUS
  <2> QED BY Zenon, <2>1 DEF ScanQueue, Start, FoldLeftDomain, FoldLeft, MapThenFoldSet
<1>4. seq = [i \in 1..n |-> i]
  OBVIOUS
<1> HIDE DEF it, b, seq
<1>5. ASSUME NEW s \in SUBSET (1..n)
      PROVE  it[s] = IF s = {} THEN b ELSE Meet(it[s \ {Max(s)}], seq[Max(s)])
  BY <1>2 DEF Solves, Part
<1>6. g[n] = it[1..n] /\ g[0] = b
  <2>1. 1..0 = {} /\ {} \in SUBSET (1..n)
    OBVIOUS
  <2>2. it[{}] = b
    BY <1>5, <2>1
  <2>3. 0 \in 0..n /\ n \in 0..n
    OBVIOUS
  <2>4. g[n] = it[1..n] /\ g[0] = it[1..0]
    BY Zenon, <2>3
  <2> QED BY <2>1, <2>2, <2>4
<1>7. ASSUME NEW j \in 1..n PROVE g[j] = Meet(g[j - 1], j)
  <2>1. (1..j) \ {j} = 1..j - 1 /\ 1..j # {} /\ Max(1..j) = j
    <3>1. 1..j \in SUBSET Int /\ j \in 1..j /\ \A x \in 1..j : x <= j
      OBVIOUS
    <3>2. Max(1..j) = j
      BY <3>1, MaxIn
    <3>3. j \in 1..j /\ \A x : x \in (1..j) \ {j} <=> x \in 1..j - 1
      OBVIOUS
    <3> QED BY <3>2, <3>3
  <2>2. 1..j \in SUBSET (1..n) /\ seq[j] = j
    BY <1>4
  <2>3. it[1..j] = Meet(it[1..j - 1], j)
    BY <1>5, <2>1, <2>2
  <2>4. g[j] = it[1..j] /\ g[j - 1] = it[1..j - 1]
    OBVIOUS
  <2> QED BY <2>3, <2>4
<1>8. \A j \in 1..n : g[j] = Meet(g[j - 1], j)
  BY Zenon, <1>7
<1> HIDE DEF g
<1> QED BY Zenon, <1>3, <1>6, <1>8 DEF b

-----------------------------------------------------------------------------
(* What the scan keeps true.                                               *)

Selectors(n) == [1..n -> SUBSET Counters]
Places(n) == [1..n -> Counters]
States(n) == [sel : Selectors(n), conflict : BOOLEAN, idx_q : Seq(1..n)]

\* The queue holds the exclusive events, those of the list among them, each once.
QueueIsExclusive(n, list, s) ==
  /\ IsInjective(s.idx_q)
  /\ \A i \in 1..n : exclusive(s.sel[i]) <=> i \in ToSet(s.idx_q)
  /\ \A i \in 1..n : exclusive(list[i]) => exclusive(s.sel[i])

\* The first k heads have their counters to themselves.
HeadsAlone(n, s, k) ==
  \A j \in 1..k : j <= Len(s.idx_q) =>
    \A i \in 1..n : i # s.idx_q[j] => ~shared(s.sel[i], s.sel[s.idx_q[j]])

\* After k turns: no assignment is lost, and a conflict means that there is none.
Scanned(n, list, s, k) ==
  /\ s \in States(n)
  /\ s.conflict => \A c \in Places(n) : ~IsAssignment(c, list)
  /\ ~s.conflict =>
       /\ QueueIsExclusive(n, list, s)
       /\ HeadsAlone(n, s, k)
       /\ \A c \in Places(n) : IsAssignment(c, list) <=> IsAssignment(c, s.sel)

LEMMA Listing ==
  ASSUME NEW A, NEW m \in Nat, NEW f \in [1..m -> A]
  PROVE  f \in Seq(A) /\ Len(f) = m /\ DOMAIN f = 1..m
OBVIOUS

LEMMA Appended ==
  ASSUME NEW A, NEW q \in Seq(A), NEW p \in Seq(A), IsInjective(q), IsInjective(p),
         ToSet(q) \cap ToSet(p) = {}
  PROVE  /\ q \o p \in Seq(A) /\ IsInjective(q \o p)
         /\ ToSet(q \o p) = ToSet(q) \cup ToSet(p)
         /\ Len(q) <= Len(q \o p)
         /\ \A j \in 1..Len(q) : (q \o p)[j] = q[j]
<1> DEFINE r == q \o p
           m == Len(q)
           l == Len(p)
<1>1. /\ r \in Seq(A) /\ DOMAIN r = 1..m + l /\ m \in Nat /\ l \in Nat
      /\ DOMAIN q = 1..m /\ DOMAIN p = 1..l /\ Len(r) = m + l
  OBVIOUS
<1>2. \A j \in 1..m : r[j] = q[j]
  OBVIOUS
<1>3. \A j \in 1..l : r[m + j] = p[j]
  OBVIOUS
<1>4. \A j \in m + 1..m + l : j - m \in 1..l /\ r[j] = p[j - m]
  OBVIOUS
<1> HIDE DEF r, m, l
<1>5. \A j \in 1..m + l : j \in 1..m \/ j \in m + 1..m + l
  BY <1>1
<1>6. \A j \in 1..m : j \in 1..m + l
  BY <1>1
<1>7. \A j \in 1..l : m + j \in 1..m + l
  BY <1>1
<1>8. ToSet(r) = ToSet(q) \cup ToSet(p)
  <2>1. ASSUME NEW x, x \in ToSet(r) PROVE x \in ToSet(q) \cup ToSet(p)
    <3>1. PICK j \in 1..m + l : x = r[j]
      BY <1>1, <2>1 DEF ToSet
    <3> QED BY <1>1, <1>2, <1>4, <1>5, <3>1 DEF ToSet
  <2>2. ASSUME NEW x, x \in ToSet(q) PROVE x \in ToSet(r)
    BY <1>1, <1>2, <1>6, <2>2 DEF ToSet
  <2>3. ASSUME NEW x, x \in ToSet(p) PROVE x \in ToSet(r)
    BY <1>1, <1>3, <1>7, <2>3 DEF ToSet
  <2> QED BY <2>1, <2>2, <2>3
<1>9. IsInjective(r)
  <2> SUFFICES ASSUME NEW i \in 1..m + l, NEW j \in 1..m + l, r[i] = r[j]
               PROVE  i = j
    BY <1>1 DEF IsInjective
  <2>1. CASE i \in 1..m /\ j \in 1..m
    BY <1>1, <1>2, <2>1 DEF IsInjective
  <2>2. CASE i \in m + 1..m + l /\ j \in m + 1..m + l
    <3>1. i - m = j - m
      BY <1>1, <1>4, <2>2 DEF IsInjective
    <3> QED BY <1>1, <3>1
  <2>3. ASSUME NEW x \in 1..m, NEW y \in m + 1..m + l, r[x] = r[y] PROVE FALSE
    <3>1. r[x] \in ToSet(q) /\ r[y] \in ToSet(p)
      BY <1>1, <1>2, <1>4 DEF ToSet
    <3> QED BY <2>3, <3>1
  <2> QED BY <1>5, <2>1, <2>2, <2>3
<1> QED BY <1>1, <1>2, <1>8, <1>9 DEF r, m

\* One turn of the while loop.
LEMMA MeetTurn ==
  ASSUME NEW n \in Nat, NEW list \in Selectors(n), NEW k \in 1..n, NEW s,
         Scanned(n, list, s, k - 1)
  PROVE  Scanned(n, list, Meet(s, k), k)
<1> DEFINE h == s.idx_q[k]
           sharers == {i \in DOMAIN s.sel \ {h} : shared(s.sel[i], s.sel[h])}
           left == [i \in DOMAIN s.sel |->
                      IF i \in sharers THEN preempt(s.sel[i], s.sel[h]) ELSE s.sel[i]]
           lone == {i \in sharers : exclusive(left[i])}
<1>1. s \in States(n) /\ s.sel \in Selectors(n) /\ s.idx_q \in Seq(1..n)
      /\ s.conflict \in BOOLEAN /\ DOMAIN s.sel = 1..n
  BY DEF Scanned, States, Selectors
<1>2. CASE s.conflict
  <2>1. Meet(s, k) = s
    BY <1>2 DEF Meet
  <2> QED BY <1>2, <2>1 DEF Scanned
<1>3. CASE ~s.conflict /\ k > Len(s.idx_q)
  <2>1. Meet(s, k) = s
    BY <1>3 DEF Meet
  <2>2. HeadsAlone(n, s, k)
    <3>1. HeadsAlone(n, s, k - 1) /\ Len(s.idx_q) \in Nat
      BY <1>1, <1>3 DEF Scanned
    <3>2. \A j \in 1..k : j <= Len(s.idx_q) => j \in 1..k - 1
      BY <1>3, <3>1
    <3> QED BY <3>1, <3>2 DEF HeadsAlone
  <2> QED BY <1>3, <2>1, <2>2 DEF Scanned
<1>4. CASE ~s.conflict /\ k <= Len(s.idx_q)
  <2>1. /\ QueueIsExclusive(n, list, s) /\ HeadsAlone(n, s, k - 1)
        /\ \A c \in Places(n) : IsAssignment(c, list) <=> IsAssignment(c, s.sel)
    BY <1>4 DEF Scanned
  <2>2. h \in 1..n /\ h \in ToSet(s.idx_q) /\ k \in DOMAIN s.idx_q
    BY <1>1, <1>4 DEF ToSet
  <2>3. PICK ctr \in Counters : s.sel[h] = {ctr}
    <3>1. exclusive(s.sel[h]) /\ s.sel[h] \in SUBSET Counters
      BY <1>1, <2>1, <2>2 DEF QueueIsExclusive, Selectors
    <3> QED BY <3>1, Selector
  <2>4. ~(s.conflict \/ k > Len(s.idx_q))
    BY <1>1, <1>4
  <2> HIDE DEF h
  <2>5. sharers = {i \in 1..n : i # h /\ ctr \in s.sel[i]}
    BY <1>1, <2>3 DEF shared
  <2>6. CASE \E i \in sharers : exclusive(s.sel[i])
    <3>1. Meet(s, k) = [s EXCEPT !.conflict = TRUE]
      BY <2>4, <2>6 DEF Meet, h
    <3>2. PICK i \in 1..n : i # h /\ ctr \in s.sel[i] /\ exclusive(s.sel[i])
      BY <2>5, <2>6
    <3>3. s.sel[i] = {ctr}
      <4>1. s.sel[i] \in SUBSET Counters
        BY <1>1 DEF Selectors
      <4> QED BY <3>2, <4>1, Selector
    <3>4. ASSUME NEW c \in Places(n), IsAssignment(c, list) PROVE FALSE
      <4>1. IsInjective(c) /\ c[i] \in s.sel[i] /\ c[h] \in s.sel[h]
        BY <1>1, <2>1, <2>2, <3>4 DEF IsAssignment
      <4>2. c[i] = c[h] /\ DOMAIN c = 1..n
        BY <2>3, <3>3, <4>1 DEF Places
      <4> QED BY <2>2, <3>2, <4>1, <4>2 DEF IsInjective
    <3>5. Meet(s, k) \in States(n) /\ Meet(s, k).conflict
      BY <1>1, <3>1 DEF States
    <3> QED BY <3>4, <3>5 DEF Scanned
  <2>7. CASE ~ \E i \in sharers : exclusive(s.sel[i])
    <3> DEFINE q == s.idx_q \o InOrder(lone)
               r == Meet(s, k)
    <3>1. r = [s EXCEPT !.sel = left, !.idx_q = q]
      BY <2>4, <2>7 DEF Meet, h
    <3>2. ASSUME NEW i \in 1..n
          PROVE  left[i] = IF i # h THEN s.sel[i] \ {ctr} ELSE s.sel[i]
      BY <1>1, <2>3, <2>5 DEF preempt
    <3>3. left \in Selectors(n)
      <4>1. left = [i \in 1..n |-> left[i]]
        BY <1>1
      <4>2. \A i \in 1..n : s.sel[i] \in SUBSET Counters
        BY <1>1 DEF Selectors
      <4> HIDE DEF left
      <4> QED BY <3>2, <4>1, <4>2 DEF Selectors
    <3>4. ASSUME NEW i \in 1..n, i \in ToSet(s.idx_q)
          PROVE  left[i] = s.sel[i] /\ i \notin lone
      <4>1. exclusive(s.sel[i])
        BY <2>1, <3>4 DEF QueueIsExclusive
      <4>2. i \notin sharers
        BY <2>7, <4>1
      <4> QED BY <1>1, <4>2
    <3>5. lone \in SUBSET (1..n)
      BY <2>5
    <3>6. /\ q \in Seq(1..n) /\ IsInjective(q)
          /\ ToSet(q) = ToSet(s.idx_q) \cup lone
          /\ Len(s.idx_q) <= Len(q)
          /\ \A j \in 1..Len(s.idx_q) : q[j] = s.idx_q[j]
      <4>1. /\ Cardinality(lone) \in Nat /\ IsInjective(InOrder(lone))
            /\ InOrder(lone) \in [1..Cardinality(lone) -> lone]
            /\ ToSet(InOrder(lone)) = lone
        <5> HIDE DEF lone
        <5> QED BY <3>5, Ordered
      <4>2. ToSet(s.idx_q) \in SUBSET (1..n)
        BY <1>1 DEF ToSet
      <4>3. ToSet(s.idx_q) \cap lone = {}
        <5> HIDE DEF lone
        <5> QED BY <3>4, <4>2
      <4> HIDE DEF lone
      <4>4. InOrder(lone) \in Seq(1..n)
        <5>1. InOrder(lone) \in [1..Cardinality(lone) -> 1..n]
          BY <3>5, <4>1
        <5> QED BY <4>1, <5>1, Listing
      <4>5. IsInjective(s.idx_q)
        BY <2>1 DEF QueueIsExclusive
      <4> QED BY <1>1, <4>1, <4>3, <4>4, <4>5, Appended
    <3>7. /\ r \in States(n) /\ r.sel = left /\ r.idx_q = q /\ ~r.conflict
      <4> HIDE DEF left, q, r
      <4> QED BY <1>1, <1>4, <3>1, <3>3, <3>6 DEF States
    <3>8. QueueIsExclusive(n, list, r)
      <4>1. ASSUME NEW i \in 1..n PROVE exclusive(left[i]) <=> i \in ToSet(q)
        <5>1. CASE i \in ToSet(s.idx_q)
          <6>1. exclusive(s.sel[i])
            BY <2>1, <5>1 DEF QueueIsExclusive
          <6> HIDE DEF left, lone, q
          <6> QED BY <3>4, <3>6, <5>1, <6>1
        <5>2. CASE i \notin ToSet(s.idx_q)
          <6>1. ~exclusive(s.sel[i])
            BY <2>1, <5>2 DEF QueueIsExclusive
          <6>2. i \in lone <=> i \in sharers /\ exclusive(left[i])
            OBVIOUS
          <6>3. i \notin sharers => left[i] = s.sel[i]
            BY <1>1
          <6> HIDE DEF left, lone, q, sharers
          <6> QED BY <3>6, <5>2, <6>1, <6>2, <6>3
        <5> QED BY <5>1, <5>2
      <4>2. ASSUME NEW i \in 1..n, exclusive(list[i]) PROVE exclusive(left[i])
        <5>1. i \in ToSet(s.idx_q)
          BY <2>1, <4>2 DEF QueueIsExclusive
        <5> HIDE DEF left, lone, q
        <5> QED BY <3>6, <4>1, <5>1
      <4> HIDE DEF left, lone, q, r
      <4> QED BY <3>6, <3>7, <4>1, <4>2 DEF QueueIsExclusive
    <3>9. HeadsAlone(n, r, k)
      <4> SUFFICES ASSUME NEW j \in 1..k, NEW i \in 1..n, i # q[j]
                   PROVE  ~shared(left[i], left[q[j]])
        <5> HIDE DEF left, lone, q, r
        <5> QED BY <3>7 DEF HeadsAlone
      <4>1. j <= Len(s.idx_q) /\ j \in 1..Len(s.idx_q) /\ q[j] = s.idx_q[j]
        <5>1. Len(s.idx_q) \in Nat
          BY <1>1
        <5>2. j <= Len(s.idx_q) /\ j \in 1..Len(s.idx_q)
          BY <1>4, <5>1
        <5> HIDE DEF q
        <5> QED BY <3>6, <5>2
      <4>2. q[j] \in 1..n /\ q[j] \in ToSet(s.idx_q)
        <5> HIDE DEF q
        <5> QED BY <1>1, <4>1 DEF ToSet
      <4>3. left[q[j]] = s.sel[q[j]]
        <5> HIDE DEF q, left, lone
        <5> QED BY <3>4, <4>2
      <4>4. CASE j = k
        <5> HIDE DEF q, left
        <5> QED BY <2>3, <3>2, <4>1, <4>3, <4>4 DEF shared, h
      <4>5. CASE j # k
        <5>1. ~shared(s.sel[i], s.sel[q[j]])
          <6> HIDE DEF q
          <6> QED BY <2>1, <4>1, <4>5 DEF HeadsAlone
        <5> HIDE DEF q, left
        <5> QED BY <3>2, <4>3, <5>1 DEF shared
      <4> QED BY <4>4, <4>5
    <3>10. ASSUME NEW c \in Places(n)
           PROVE  IsAssignment(c, s.sel) <=> IsAssignment(c, left)
      <4>1. ASSUME NEW i \in 1..n PROVE c[i] \in left[i] => c[i] \in s.sel[i]
        <5> HIDE DEF left
        <5> QED BY <3>2
      <4>2. ASSUME IsAssignment(c, s.sel), NEW i \in 1..n PROVE c[i] \in left[i]
        <5>1. IsInjective(c) /\ c[i] \in s.sel[i] /\ c[h] \in s.sel[h]
          BY <1>1, <2>2, <4>2 DEF IsAssignment
        <5>2. c[h] = ctr /\ DOMAIN c = 1..n
          BY <2>3, <5>1 DEF Places
        <5>3. i # h => c[i] # ctr
          BY <2>2, <5>1, <5>2 DEF IsInjective
        <5> HIDE DEF left
        <5> QED BY <3>2, <5>1, <5>3
      <4>3. DOMAIN left = 1..n
        BY <1>1
      <4> HIDE DEF left
      <4> QED BY <1>1, <4>1, <4>2, <4>3 DEF IsAssignment
    <3> HIDE DEF left, lone, q, r
    <3>11. Scanned(n, list, r, k)
      BY <2>1, <3>7, <3>8, <3>9, <3>10 DEF Scanned
    <3> QED BY <3>11 DEF r
  <2> QED BY <2>6, <2>7
<1>5. Len(s.idx_q) \in Nat
  BY <1>1
<1> QED BY <1>2, <1>3, <1>4, <1>5

LEMMA Scan ==
  ASSUME NEW n \in Nat, NEW list \in Selectors(n)
  PROVE  Scanned(n, list, ScanQueue(list), n)
<1>1. DOMAIN list = 1..n
  BY DEF Selectors
<1>2. PICK g : /\ g[0] = Start(list)
               /\ \A j \in 1..n : g[j] = Meet(g[j - 1], j)
               /\ ScanQueue(list) = g[n]
  BY Zenon, <1>1, ScanChain
<1> DEFINE lone == {i \in 1..n : exclusive(list[i])}
           Good == {j \in 0..n : Scanned(n, list, g[j], j)}
<1>3. Scanned(n, list, Start(list), 0)
  <2>1. Start(list) = [sel |-> list, conflict |-> FALSE, idx_q |-> InOrder(lone)]
    BY <1>1 DEF Start
  <2>2. /\ Cardinality(lone) \in Nat /\ IsInjective(InOrder(lone))
        /\ InOrder(lone) \in [1..Cardinality(lone) -> lone]
        /\ ToSet(InOrder(lone)) = lone
    <3>1. lone \in SUBSET (1..n)
      OBVIOUS
    <3> HIDE DEF lone
    <3> QED BY <3>1, Ordered
  <2>3. InOrder(lone) \in Seq(1..n)
    <3>1. lone \in SUBSET (1..n)
      OBVIOUS
    <3> HIDE DEF lone
    <3>2. InOrder(lone) \in [1..Cardinality(lone) -> 1..n]
      BY <2>2, <3>1
    <3> QED BY <2>2, <3>2, Listing
  <2>4. \A i \in 1..n : exclusive(list[i]) <=> i \in lone
    OBVIOUS
  <2> HIDE DEF lone
  <2>5. Start(list) \in States(n)
    BY <2>1, <2>3 DEF States
  <2>6. QueueIsExclusive(n, list, Start(list))
    BY <2>1, <2>2, <2>4 DEF QueueIsExclusive
  <2>7. HeadsAlone(n, Start(list), 0)
    BY DEF HeadsAlone
  <2>8. Start(list).sel = list /\ Start(list).conflict = FALSE
    BY <2>1
  <2> QED BY <2>5, <2>6, <2>7, <2>8 DEF Scanned
<1>4. 0 \in Good
  BY <1>2, <1>3
<1>5. ASSUME NEW j \in 1..n, j - 1 \in Good PROVE j \in Good
  <2>1. Scanned(n, list, g[j - 1], j - 1)
    BY <1>5
  <2>2. Scanned(n, list, Meet(g[j - 1], j), j)
    BY <2>1, MeetTurn
  <2>3. g[j] = Meet(g[j - 1], j)
    BY <1>2
  <2> QED BY <2>2, <2>3
<1>6. \A j \in 1..n : j - 1 \in Good => j \in Good
  BY Zenon, <1>5
<1> HIDE DEF Good
<1>7. \A j \in 0..n : j \in Good
  BY Zenon, <1>4, <1>6, Along
<1>8. n \in Good
  BY <1>7
<1> QED BY <1>2, <1>8 DEF Good

\* What the scan leaves: the events in the queue have a counter each, that no
\* other event can use, and the others have a choice, or nothing.
Settled(n, list, s, Q) ==
  /\ s.sel \in Selectors(n)
  /\ Q \in SUBSET (1..n)
  /\ Len(s.idx_q) = n <=> Q = 1..n
  /\ \A i \in 1..n : exclusive(s.sel[i]) <=> i \in Q
  /\ \A i \in 1..n : exclusive(list[i]) => i \in Q
  /\ \A h \in Q, i \in 1..n : i # h => ~shared(s.sel[i], s.sel[h])
  /\ \A c \in Places(n) : IsAssignment(c, list) <=> IsAssignment(c, s.sel)

LEMMA AfterScan ==
  ASSUME NEW n \in Nat, NEW list \in Selectors(n), NEW s, s = ScanQueue(list)
  PROVE  /\ s.conflict => \A c \in Places(n) : ~IsAssignment(c, list)
         /\ ~s.conflict => Settled(n, list, s, ToSet(s.idx_q))
<1>1. Scanned(n, list, s, n)
  BY Scan
<1>2. s.conflict => \A c \in Places(n) : ~IsAssignment(c, list)
  BY <1>1 DEF Scanned
<1>3. ASSUME ~s.conflict PROVE Settled(n, list, s, ToSet(s.idx_q))
  <2> DEFINE q == s.idx_q
             m == Len(q)
             Q == ToSet(q)
  <2>1. /\ QueueIsExclusive(n, list, s) /\ HeadsAlone(n, s, n)
        /\ \A c \in Places(n) : IsAssignment(c, list) <=> IsAssignment(c, s.sel)
    BY <1>1, <1>3 DEF Scanned
  <2>2. s.sel \in Selectors(n) /\ q \in Seq(1..n)
    BY <1>1 DEF Scanned, States
  <2>3. m \in Nat /\ DOMAIN q = 1..m /\ q \in [1..m -> 1..n]
    BY <2>2
  <2>4. IsInjective(q)
    BY <2>1 DEF QueueIsExclusive
  <2> HIDE DEF q, m
  <2>5. m <= n /\ (m = n <=> q \in Surjection(1..m, 1..n))
    <3>1. q \in Injection(1..m, 1..n)
      BY <2>3, <2>4 DEF Injection
    <3>2. /\ IsFiniteSet(1..n) /\ Cardinality(1..n) = n
          /\ IsFiniteSet(1..m) /\ Cardinality(1..m) = m
      BY <2>3, Below
    <3> QED BY <3>1, <3>2, FS_Injection
  <2>6. Q \in SUBSET (1..n)
    BY <2>3 DEF ToSet
  <2>7. m = n <=> Q = 1..n
    <3>1. q \in Surjection(1..m, 1..n) <=> \A i \in 1..n : i \in Q
      BY <2>3 DEF Surjection, ToSet
    <3> HIDE DEF Q
    <3> QED BY <2>5, <2>6, <3>1
  <2>8. \A i \in 1..n : exclusive(s.sel[i]) <=> i \in Q
    BY <2>1 DEF QueueIsExclusive, q
  <2>9. \A i \in 1..n : exclusive(list[i]) => i \in Q
    BY <2>1, <2>8 DEF QueueIsExclusive
  <2>10. ASSUME NEW h \in Q, NEW i \in 1..n, i # h PROVE ~shared(s.sel[i], s.sel[h])
    <3>1. PICK j \in 1..m : h = q[j]
      BY <2>3 DEF ToSet
    <3>2. j \in 1..n /\ j <= m
      BY <2>3, <2>5
    <3> QED BY <2>1, <2>10, <3>1, <3>2 DEF HeadsAlone, q, m
  <2> HIDE DEF Q
  <2>11. Settled(n, list, s, Q)
    BY <2>1, <2>2, <2>6, <2>7, <2>8, <2>9, <2>10 DEF Settled, m, q
  <2> QED BY <2>11 DEF Q, q
<1> QED BY <1>2, <1>3

-----------------------------------------------------------------------------
(* The list of the unmapped events.                                        *)

\* u lists the m events that are not in Q, and rest their selectors.
Remains(n, sel, Q, m, u, rest) ==
  /\ m \in 1..n /\ u \in [1..m -> 1..n] /\ IsInjective(u)
  /\ ToSet(u) = (1..n) \ Q
  /\ rest \in Selectors(m)
  /\ \A j \in 1..m : rest[j] = sel[u[j]]

LEMMA RestIs ==
  ASSUME NEW n \in Nat, NEW list, NEW s, Settled(n, list, s, ToSet(s.idx_q)),
         Len(s.idx_q) # n
  PROVE  \E m \in 1..n : /\ m = Cardinality((1..n) \ ToSet(s.idx_q))
                         /\ Remains(n, s.sel, ToSet(s.idx_q), m, Unmapped(s), Rest(s))
<1> DEFINE Q == ToSet(s.idx_q)
           U == (1..n) \ Q
           m == Cardinality(U)
           u == Unmapped(s)
<1>1. s.sel \in Selectors(n) /\ DOMAIN s.sel = 1..n /\ U # {}
  BY DEF Settled, Selectors
<1>2. U \in SUBSET (1..n) /\ u = InOrder(U)
  BY <1>1 DEF Unmapped
<1> HIDE DEF U, u
<1>3. m \in Nat /\ m <= n /\ u \in [1..m -> U] /\ IsInjective(u) /\ ToSet(u) = U
  BY <1>2, Ordered
<1>4. m # 0
  <2>1. IsFiniteSet(U)
    BY <1>2, Below, FS_Subset
  <2> QED BY <1>1, <2>1, FS_EmptySet
<1> HIDE DEF m
<1>5. m \in 1..n /\ u \in [1..m -> 1..n] /\ DOMAIN u = 1..m
  <2>1. m \in 1..n
    BY <1>3, <1>4
  <2>2. u \in [1..m -> 1..n] /\ DOMAIN u = 1..m
    BY <1>2, <1>3
  <2> QED BY <2>1, <2>2
<1>6. Rest(s) = [j \in 1..m |-> s.sel[u[j]]]
  BY <1>5 DEF Rest, u
<1>7. Rest(s) \in Selectors(m)
  BY <1>1, <1>5, <1>6 DEF Selectors
<1>8. Remains(n, s.sel, Q, m, u, Rest(s))
  BY <1>3, <1>5, <1>6, <1>7 DEF Remains, U
<1> QED BY <1>5, <1>8 DEF m, u, U

\* An assignment of all events is one of the unmapped events.
LEMMA Down ==
  ASSUME NEW n \in Nat, NEW Q, NEW m, NEW u, NEW rest, NEW sel \in Selectors(n),
         Remains(n, sel, Q, m, u, rest),
         NEW c \in Places(n), IsAssignment(c, sel)
  PROVE  \E d \in Places(m) : IsAssignment(d, rest)
<1> DEFINE d == [j \in 1..m |-> c[u[j]]]
<1>1. /\ \A j \in 1..m : u[j] \in 1..n /\ rest[j] = sel[u[j]]
      /\ \A j, k \in 1..m : u[j] = u[k] => j = k
      /\ DOMAIN rest = 1..m
  BY DEF Remains, IsInjective, Selectors
<1>2. /\ \A i \in 1..n : c[i] \in Counters /\ c[i] \in sel[i]
      /\ \A i, k \in 1..n : c[i] = c[k] => i = k
  BY DEF IsAssignment, IsInjective, Places, Selectors
<1>3. d \in Places(m) /\ DOMAIN d = 1..m
  BY <1>1, <1>2 DEF Places
<1>4. \A j \in 1..m : d[j] = c[u[j]]
  OBVIOUS
<1> HIDE DEF d
<1>5. IsInjective(d)
  BY <1>1, <1>2, <1>3, <1>4 DEF IsInjective
<1>6. IsAssignment(d, rest)
  BY <1>1, <1>2, <1>4, <1>5 DEF IsAssignment
<1> QED BY <1>3, <1>6

\* An assignment of the unmapped events extends to all.
Extends(n, sel, Q, m, u, d) ==
  \E c \in Places(n) : /\ IsAssignment(c, sel)
                       /\ \A i \in Q : sel[i] = {c[i]}
                       /\ \A j \in 1..m : c[u[j]] = d[j]

LEMMA Up ==
  ASSUME NEW n \in Nat, NEW list, NEW s, NEW Q, Settled(n, list, s, Q),
         NEW m, NEW u, NEW rest, Remains(n, s.sel, Q, m, u, rest),
         NEW d \in Places(m), IsAssignment(d, rest)
  PROVE  Extends(n, s.sel, Q, m, u, d)
<1> DEFINE c == [i \in 1..n |-> IF i \in Q THEN CHOOSE x \in Counters : s.sel[i] = {x}
                                ELSE d[CHOOSE j \in 1..m : u[j] = i]]
<1>1. /\ s.sel \in Selectors(n) /\ DOMAIN s.sel = 1..n
      /\ \A i \in Q : i \in 1..n /\ exclusive(s.sel[i])
      /\ \A i \in 1..n : s.sel[i] \in SUBSET Counters
      /\ \A h \in Q, i \in 1..n : i # h => ~shared(s.sel[i], s.sel[h])
  BY DEF Settled, Selectors
<1>2. /\ \A j \in 1..m : u[j] \in 1..n /\ u[j] \notin Q /\ rest[j] = s.sel[u[j]]
      /\ \A i \in 1..n : i \notin Q => \E j \in 1..m : u[j] = i
      /\ \A j, k \in 1..m : u[j] = u[k] => j = k
  BY DEF Remains, IsInjective, ToSet
<1>3. /\ \A j \in 1..m : d[j] \in Counters /\ d[j] \in rest[j]
      /\ \A j, k \in 1..m : d[j] = d[k] => j = k
  BY DEF IsAssignment, IsInjective, Places, Remains, Selectors
<1>4. ASSUME NEW i \in Q PROVE c[i] \in Counters /\ s.sel[i] = {c[i]}
  <2>1. \E x \in Counters : s.sel[i] = {x}
    BY <1>1, Selector
  <2> QED BY <1>1, <2>1
<1>5. ASSUME NEW j \in 1..m PROVE c[u[j]] = d[j]
  <2>1. c[u[j]] = d[CHOOSE k \in 1..m : u[k] = u[j]]
    BY <1>2
  <2>2. (CHOOSE k \in 1..m : u[k] = u[j]) = j
    BY <1>2
  <2> QED BY <2>1, <2>2
<1>6. DOMAIN c = 1..n /\ c = [i \in 1..n |-> c[i]]
  OBVIOUS
<1> HIDE DEF c
<1>7. ASSUME NEW i \in 1..n PROVE c[i] \in Counters /\ c[i] \in s.sel[i]
  <2>1. CASE i \in Q
    BY <1>4, <2>1
  <2>2. CASE i \notin Q
    <3>1. PICK j \in 1..m : u[j] = i
      BY <1>2, <2>2
    <3> QED BY <1>2, <1>3, <1>5, <3>1
  <2> QED BY <2>1, <2>2
<1>8. c \in Places(n)
  BY <1>6, <1>7 DEF Places
<1>9. ASSUME NEW i \in 1..n, NEW k \in 1..n, c[i] = c[k] PROVE i = k
  <2>1. ASSUME NEW x \in Q, NEW y \in 1..n, c[x] = c[y] PROVE x = y
    <3>1. c[x] \in s.sel[x] /\ c[x] \in s.sel[y]
      BY <1>1, <1>7, <2>1
    <3> QED BY <1>1, <3>1 DEF shared
  <2>2. CASE i \notin Q /\ k \notin Q
    <3>1. PICK x \in 1..m : u[x] = i
      BY <1>2, <2>2
    <3>2. PICK y \in 1..m : u[y] = k
      BY <1>2, <2>2
    <3> QED BY <1>3, <1>5, <1>9, <3>1, <3>2
  <2> QED BY <1>9, <2>1, <2>2
<1>10. IsAssignment(c, s.sel)
  BY <1>1, <1>6, <1>7, <1>9 DEF IsAssignment, IsInjective
<1> QED BY <1>4, <1>5, <1>8, <1>10 DEF Extends

\* The first event is placed on ctr and the others keep clear of it.
LEMMA Placed ==
  ASSUME NEW m \in Nat, m # 0, NEW rest \in Selectors(m), NEW ctr \in rest[1]
  PROVE  /\ ctr \in Counters
         /\ Place(rest, ctr) \in Selectors(m)
         /\ exclusive(Place(rest, ctr)[1])
         /\ \A d \in Places(m) :
              IsAssignment(d, Place(rest, ctr)) <=> IsAssignment(d, rest) /\ d[1] = ctr
<1> DEFINE p == Place(rest, ctr)
<1>1. DOMAIN rest = 1..m /\ 1 \in 1..m /\ \A j \in 1..m : rest[j] \in SUBSET Counters
  BY DEF Selectors
<1>2. ctr \in Counters
  BY <1>1
<1>3. \A j \in 1..m : p[j] = IF j = 1 THEN {ctr} ELSE rest[j] \ {ctr}
  BY <1>1 DEF Place, shared, preempt
<1>4. p = [j \in 1..m |-> p[j]] /\ DOMAIN p = 1..m
  BY <1>1 DEF Place
<1> HIDE DEF p
<1>5. p \in Selectors(m)
  <2>1. \A j \in 1..m : p[j] \in SUBSET Counters
    BY <1>1, <1>2, <1>3
  <2> QED BY <1>4, <2>1 DEF Selectors
<1>6. exclusive(p[1])
  BY <1>1, <1>3, FS_Singleton DEF exclusive
<1>7. ASSUME NEW d \in Places(m)
      PROVE  IsAssignment(d, p) <=> IsAssignment(d, rest) /\ d[1] = ctr
  <2>1. DOMAIN d = 1..m
    BY DEF Places
  <2>2. ASSUME IsAssignment(d, p) PROVE IsAssignment(d, rest) /\ d[1] = ctr
    <3>1. IsInjective(d) /\ \A j \in 1..m : d[j] \in p[j]
      BY <1>4, <2>2 DEF IsAssignment
    <3>2. d[1] = ctr
      BY <1>1, <1>3, <3>1
    <3>3. \A j \in 1..m : d[j] \in rest[j]
      BY <1>3, <3>1, <3>2
    <3> QED BY <1>1, <3>1, <3>2, <3>3 DEF IsAssignment
  <2>3. ASSUME IsAssignment(d, rest), d[1] = ctr PROVE IsAssignment(d, p)
    <3>1. IsInjective(d) /\ \A j \in 1..m : d[j] \in rest[j]
      BY <1>1, <2>3 DEF IsAssignment
    <3>2. \A j \in 1..m : j # 1 => d[j] # ctr
      BY <1>1, <2>1, <2>3, <3>1 DEF IsInjective
    <3>3. \A j \in 1..m : d[j] \in p[j]
      BY <1>3, <2>3, <3>1, <3>2
    <3> QED BY <1>4, <3>1, <3>3 DEF IsAssignment
  <2> QED BY <2>2, <2>3
<1> QED BY <1>2, <1>5, <1>6, <1>7 DEF p

-----------------------------------------------------------------------------
(* The recursion.  A call has fewer events with a choice than its caller.  *)

Undecided(list) == {i \in DOMAIN list : ~exclusive(list[i])}
Level(k) == {list \in Lists : Cardinality(Undecided(list)) <= k}
Lesser(list) == {l \in Lists : Cardinality(Undecided(l)) < Cardinality(Undecided(list))}

LEMMA ListsAre ==
  ASSUME NEW list
  PROVE  list \in Lists <=> \E n \in 0..MaxEvents : list \in Selectors(n)
BY DEF Lists, Selectors

LEMMA UndecidedOf ==
  ASSUME NEW n \in 0..MaxEvents, NEW list \in Selectors(n)
  PROVE  /\ IsFiniteSet(Undecided(list)) /\ Cardinality(Undecided(list)) \in 0..MaxEvents
         /\ Undecided(list) = {i \in 1..n : ~exclusive(list[i])}
<1>1. n \in Nat /\ n <= MaxEvents /\ MaxEvents \in Nat
  OBVIOUS
<1>2. Undecided(list) = {i \in 1..n : ~exclusive(list[i])}
  BY DEF Undecided, Selectors
<1>3. Undecided(list) \in SUBSET (1..n)
  BY <1>2
<1>4. IsFiniteSet(1..n) /\ Cardinality(1..n) = n
  BY <1>1, Below
<1>5. IsFiniteSet(Undecided(list)) /\ Cardinality(Undecided(list)) <= n
  BY <1>3, <1>4, FS_Subset
<1>6. Cardinality(Undecided(list)) \in Nat
  BY <1>5, FS_CardinalityType
<1>7. Cardinality(Undecided(list)) \in 0..MaxEvents
  BY <1>1, <1>5, <1>6
<1> QED BY <1>2, <1>5, <1>7

\* What a call leaves to the calls it makes.
Remainder(n, list, s, m) ==
  /\ m \in 1..n /\ m \in 0..MaxEvents
  /\ Remains(n, s.sel, ToSet(s.idx_q), m, Unmapped(s), Rest(s))
  /\ \A ctr \in Rest(s)[1] : Place(Rest(s), ctr) \in Lesser(list)

LEMMA Descends ==
  ASSUME NEW n \in 0..MaxEvents, NEW list \in Selectors(n),
         NEW s, s = ScanQueue(list), ~s.conflict, Len(s.idx_q) # n
  PROVE  \E m : Remainder(n, list, s, m)
<1> DEFINE Q == ToSet(s.idx_q)
           U == (1..n) \ Q
           rest == Rest(s)
<1>1. n \in Nat /\ n <= MaxEvents /\ MaxEvents \in Nat
  OBVIOUS
<1>2. Settled(n, list, s, Q)
  BY <1>1, AfterScan
<1>3. PICK m \in 1..n : m = Cardinality(U) /\ Remains(n, s.sel, Q, m, Unmapped(s), rest)
  BY <1>1, <1>2, RestIs
<1>4. m \in Nat /\ m # 0 /\ m \in 0..MaxEvents /\ rest \in Selectors(m)
  <2>1. m \in Nat /\ m # 0 /\ m \in 0..MaxEvents
    BY <1>1
  <2> QED BY <1>3, <2>1 DEF Remains
<1>5. m <= Cardinality(Undecided(list)) /\ Cardinality(Undecided(list)) \in Nat
  <2>1. /\ IsFiniteSet(Undecided(list)) /\ Cardinality(Undecided(list)) \in 0..MaxEvents
        /\ Undecided(list) = {i \in 1..n : ~exclusive(list[i])}
    BY UndecidedOf
  <2>2. U \in SUBSET Undecided(list)
    BY <1>2, <2>1 DEF Settled
  <2>3. Cardinality(U) <= Cardinality(Undecided(list))
    BY <2>1, <2>2, FS_Subset
  <2> QED BY <1>1, <1>3, <2>1, <2>3
<1> HIDE DEF rest, Q, U
<1>6. ASSUME NEW ctr \in rest[1] PROVE Place(rest, ctr) \in Lesser(list)
  <2> DEFINE p == Place(rest, ctr)
  <2>1. p \in Selectors(m) /\ exclusive(p[1])
    BY <1>4, Placed
  <2> HIDE DEF p
  <2>2. /\ Undecided(p) = {i \in 1..m : ~exclusive(p[i])}
        /\ Cardinality(Undecided(p)) \in Nat
    BY <1>1, <1>4, <2>1, UndecidedOf
  <2>3. Undecided(p) \in SUBSET ((1..m) \ {1})
    BY <2>1, <2>2
  <2>4. IsFiniteSet((1..m) \ {1}) /\ Cardinality((1..m) \ {1}) = m - 1
    <3>1. IsFiniteSet(1..m) /\ Cardinality(1..m) = m /\ 1 \in 1..m
      BY <1>4, Below
    <3> QED BY <3>1, FS_RemoveElement
  <2>5. Cardinality(Undecided(p)) <= m - 1
    BY <2>3, <2>4, FS_Subset
  <2>6. Cardinality(Undecided(p)) < Cardinality(Undecided(list))
    BY <1>4, <1>5, <2>2, <2>5
  <2>7. p \in Lists
    BY <1>4, <2>1, ListsAre
  <2>8. p \in Lesser(list)
    BY <2>6, <2>7 DEF Lesser
  <2> QED BY <2>8 DEF p
<1>7. Remainder(n, list, s, m)
  BY <1>3, <1>4, <1>6 DEF Remainder, rest, Q
<1> QED BY <1>7

\* The body of bipartite_alloc, for any function f in the place of the recursion.
Tries(f, s) == [ctr \in Rest(s)[1] |-> f[Place(Rest(s), ctr)]]
Answer(f, list) ==
  LET s == ScanQueue(list)
      fit == FirstFit(Tries(f, s))
  IN IF s.conflict THEN NoMapping
     ELSE IF Len(s.idx_q) = Len(list) THEN [ok |-> TRUE, sel |-> s.sel]
     ELSE IF ~fit.ok THEN NoMapping
     ELSE [ok |-> TRUE, sel |-> Update(s, fit.sel)]

LEMMA Agree ==
  ASSUME NEW list \in Lists, NEW f, NEW g, \A l \in Lesser(list) : f[l] = g[l]
  PROVE  Answer(f, list) = Answer(g, list)
<1> DEFINE s == ScanQueue(list)
<1>1. PICK n \in 0..MaxEvents : list \in Selectors(n)
  BY ListsAre
<1>2. Len(list) = n
  BY <1>1 DEF Selectors
<1>3. CASE s.conflict \/ Len(s.idx_q) = n
  BY <1>2, <1>3 DEF Answer
<1>4. CASE ~s.conflict /\ Len(s.idx_q) # n
  <2>1. PICK m : Remainder(n, list, s, m)
    BY <1>1, <1>4, Descends
  <2> HIDE DEF s
  <2>2. \A ctr \in Rest(s)[1] : f[Place(Rest(s), ctr)] = g[Place(Rest(s), ctr)]
    BY <2>1 DEF Remainder
  <2>3. Tries(f, s) = Tries(g, s)
    BY <2>2 DEF Tries
  <2> QED BY <2>3 DEF Answer, s
<1> QED BY <1>3, <1>4

Solution(k, f) == f = [list \in Level(k) |-> Answer(f, list)]

LEMMA Measure ==
  ASSUME NEW list \in Lists
  PROVE  Cardinality(Undecided(list)) \in 0..MaxEvents
<1>1. PICK n \in 0..MaxEvents : list \in Selectors(n)
  BY ListsAre
<1> QED BY <1>1, UndecidedOf

LEMMA LevelBelow ==
  ASSUME NEW k \in 1..MaxEvents, NEW list \in Level(k)
  PROVE  list \in Lists /\ Lesser(list) \subseteq Level(k - 1)
<1>1. list \in Lists /\ Cardinality(Undecided(list)) <= k
  BY DEF Level
<1>2. Cardinality(Undecided(list)) \in Int
  BY <1>1, Measure
<1>3. ASSUME NEW l \in Lesser(list) PROVE l \in Level(k - 1)
  <2>1. l \in Lists /\ Cardinality(Undecided(l)) < Cardinality(Undecided(list))
    BY DEF Lesser
  <2>2. Cardinality(Undecided(l)) \in Int
    BY <2>1, Measure
  <2>3. Cardinality(Undecided(l)) <= k - 1
    BY <1>1, <1>2, <2>1, <2>2
  <2> QED BY <2>1, <2>3 DEF Level
<1> QED BY <1>1, <1>3

LEMMA LevelZero ==
  ASSUME NEW list \in Level(0)
  PROVE  list \in Lists /\ Lesser(list) = {}
<1>1. list \in Lists /\ Cardinality(Undecided(list)) <= 0
  BY DEF Level
<1>2. ASSUME NEW l \in Lesser(list) PROVE FALSE
  <2>1. l \in Lists /\ Cardinality(Undecided(l)) < Cardinality(Undecided(list))
    BY DEF Lesser
  <2>2. Cardinality(Undecided(l)) \in 0..MaxEvents
        /\ Cardinality(Undecided(list)) \in 0..MaxEvents
    BY <1>1, <2>1, Measure
  <2> QED BY <1>1, <2>1, <2>2
<1> QED BY <1>1, <1>2

LEMMA LevelTop == Level(MaxEvents) = Lists
<1>1. ASSUME NEW list \in Lists PROVE list \in Level(MaxEvents)
  <2>1. Cardinality(Undecided(list)) <= MaxEvents
    BY Measure
  <2> QED BY <2>1 DEF Level
<1> QED BY <1>1 DEF Level

\* The recursive function exists, level by level.
LEMMA SolutionExists == \E f : Solution(MaxEvents, f)
<1> DEFINE Good == {k \in 0..MaxEvents : \E f : Solution(k, f)}
<1>1. 0 \in Good
  <2> DEFINE none == [list \in {} |-> NoMapping]
             f == [list \in Level(0) |-> Answer(none, list)]
  <2>1. ASSUME NEW list \in Level(0) PROVE Answer(none, list) = Answer(f, list)
    <3> HIDE DEF none, f
    <3>1. list \in Lists /\ \A l \in Lesser(list) : none[l] = f[l]
      BY LevelZero
    <3> QED BY <3>1, Agree
  <2>2. Solution(0, f)
    <3>1. f = [list \in Level(0) |-> Answer(none, list)]
      OBVIOUS
    <3> HIDE DEF none, f
    <3> QED BY <2>1, <3>1 DEF Solution
  <2> HIDE DEF f
  <2> QED BY <2>2
<1>2. ASSUME NEW k \in 1..MaxEvents, k - 1 \in Good PROVE k \in Good
  <2>1. PICK less : Solution(k - 1, less)
    BY <1>2
  <2> DEFINE f == [list \in Level(k) |-> Answer(less, list)]
  <2>2. ASSUME NEW list \in Level(k - 1)
        PROVE  list \in Level(k) /\ f[list] = less[list]
    <3>1. list \in Lists /\ Cardinality(Undecided(list)) <= k - 1
      BY DEF Level
    <3>2. Cardinality(Undecided(list)) \in Int
      BY <3>1, Measure
    <3>3. Cardinality(Undecided(list)) <= k
      BY <3>1, <3>2
    <3>4. list \in Level(k)
      BY <3>1, <3>3 DEF Level
    <3>5. less[list] = Answer(less, list)
      BY <2>1 DEF Solution
    <3> QED BY <3>4, <3>5
  <2>3. f = [list \in Level(k) |-> Answer(less, list)]
    OBVIOUS
  <2> HIDE DEF f
  <2>4. ASSUME NEW list \in Level(k) PROVE Answer(less, list) = Answer(f, list)
    <3>1. list \in Lists /\ \A l \in Lesser(list) : less[l] = f[l]
      BY <2>2, LevelBelow
    <3> QED BY <3>1, Agree
  <2>5. Solution(k, f)
    BY <2>3, <2>4 DEF Solution
  <2> QED BY <2>5
<1>3. \A k \in 1..MaxEvents : k - 1 \in Good => k \in Good
  BY Zenon, <1>2
<1> HIDE DEF Good
<1>4. \A k \in 0..MaxEvents : k \in Good
  <2>1. MaxEvents \in Nat
    OBVIOUS
  <2> QED BY Zenon, <1>1, <1>3, <2>1, Along
<1>5. MaxEvents \in Good
  BY <1>4
<1> QED BY <1>5 DEF Good

\* So the allocator is what its definition says.
LEMMA Allocates ==
  ASSUME NEW list \in Lists
  PROVE  bipartite_alloc[list] = Answer(bipartite_alloc, list)
<1>1. ASSUME NEW f
      PROVE  Solution(MaxEvents, f) <=> f = [l \in Lists |-> Answer(f, l)]
  BY LevelTop DEF Solution
<1>2. \E f : f = [l \in Lists |-> Answer(f, l)]
  BY <1>1, SolutionExists
<1>3. bipartite_alloc = CHOOSE f : f = [l \in Lists |-> Answer(f, l)]
  BY DEF bipartite_alloc, Answer, Tries
<1>4. bipartite_alloc = [l \in Lists |-> Answer(bipartite_alloc, l)]
  BY <1>2, <1>3
<1> QED BY <1>4

\* Whatever holds of a list when it holds of those with fewer undecided events
\* holds of all.
LEMMA ByUndecided ==
  ASSUME NEW Good, \A list \in Lists : Lesser(list) \subseteq Good => list \in Good
  PROVE  Lists \subseteq Good
<1> DEFINE Upto == {k \in 0..MaxEvents : Level(k) \subseteq Good}
<1>1. 0 \in Upto
  <2>1. ASSUME NEW list \in Level(0) PROVE list \in Good
    BY LevelZero
  <2> QED BY <2>1
<1>2. ASSUME NEW k \in 1..MaxEvents, k - 1 \in Upto PROVE k \in Upto
  <2>1. ASSUME NEW list \in Level(k) PROVE list \in Good
    BY <1>2, LevelBelow
  <2> QED BY <2>1
<1>3. \A k \in 1..MaxEvents : k - 1 \in Upto => k \in Upto
  BY Zenon, <1>2
<1> HIDE DEF Upto
<1>4. \A k \in 0..MaxEvents : k \in Upto
  <2>1. MaxEvents \in Nat
    OBVIOUS
  <2> QED BY Zenon, <1>1, <1>3, <2>1, Along
<1>5. MaxEvents \in Upto
  BY <1>4
<1> QED BY <1>5, LevelTop DEF Upto

-----------------------------------------------------------------------------
(* What a call answers.                                                    *)

Right(list, a) ==
  LET places == [DOMAIN list -> Counters]
  IN /\ a.ok <=> \E c \in places : IsAssignment(c, list)
     /\ a.ok => \E c \in places :
          /\ IsAssignment(c, list)
          /\ a.sel = [i \in DOMAIN list |-> {c[i]}]

LEMMA NoAssignment ==
  ASSUME NEW n \in Nat, NEW list \in Selectors(n),
         \A c \in Places(n) : ~IsAssignment(c, list)
  PROVE  Right(list, NoMapping)
<1>1. DOMAIN list = 1..n
  BY DEF Selectors
<1> QED BY <1>1 DEF Right, NoMapping, Places

LEMMA OneAssignment ==
  ASSUME NEW n \in Nat, NEW list \in Selectors(n), NEW c \in Places(n),
         IsAssignment(c, list), NEW sel, sel = [i \in 1..n |-> {c[i]}]
  PROVE  Right(list, [ok |-> TRUE, sel |-> sel])
<1>1. DOMAIN list = 1..n
  BY DEF Selectors
<1> QED BY <1>1 DEF Right, Places

\* All events are mapped by the scan.
LEMMA AllMapped ==
  ASSUME NEW n \in Nat, NEW list \in Selectors(n), NEW s,
         Settled(n, list, s, 1..n)
  PROVE  Right(list, [ok |-> TRUE, sel |-> s.sel])
<1> DEFINE c == [i \in 1..n |-> CHOOSE x \in Counters : s.sel[i] = {x}]
<1>1. /\ s.sel \in Selectors(n) /\ DOMAIN s.sel = 1..n
      /\ \A i \in 1..n : exclusive(s.sel[i]) /\ s.sel[i] \in SUBSET Counters
      /\ \A i, k \in 1..n : i # k => ~shared(s.sel[i], s.sel[k])
      /\ \A d \in Places(n) : IsAssignment(d, list) <=> IsAssignment(d, s.sel)
  BY DEF Settled, Selectors
<1>2. ASSUME NEW i \in 1..n PROVE c[i] \in Counters /\ s.sel[i] = {c[i]}
  <2>1. \E x \in Counters : s.sel[i] = {x}
    BY <1>1, Selector
  <2> QED BY <2>1
<1>3. DOMAIN c = 1..n /\ c = [i \in 1..n |-> c[i]]
  OBVIOUS
<1> HIDE DEF c
<1>4. c \in Places(n)
  BY <1>2, <1>3 DEF Places
<1>5. \A i, k \in 1..n : c[i] = c[k] => i = k
  BY <1>1, <1>2 DEF shared
<1>6. IsAssignment(c, s.sel)
  BY <1>1, <1>2, <1>3, <1>5 DEF IsAssignment, IsInjective
<1>7. s.sel = [i \in 1..n |-> {c[i]}]
  <2>1. s.sel = [i \in 1..n |-> s.sel[i]]
    BY <1>1 DEF Selectors
  <2> QED BY <1>2, <2>1
<1> QED BY <1>1, <1>4, <1>6, <1>7, OneAssignment

\* The rest is left to the calls for each counter of its first event.
LEMMA SomeLeft ==
  ASSUME NEW n \in 0..MaxEvents, NEW list \in Selectors(n), NEW s,
         s = ScanQueue(list), ~s.conflict, Len(s.idx_q) # n,
         \A l \in Lesser(list) : Right(l, bipartite_alloc[l])
  PROVE  Right(list, bipartite_alloc[list])
<1> DEFINE Q == ToSet(s.idx_q)
           u == Unmapped(s)
           rest == Rest(s)
           tries == Tries(bipartite_alloc, s)
           fits == {ctr \in DOMAIN tries : tries[ctr].ok}
           fit == FirstFit(tries)
<1>1. n \in Nat
  OBVIOUS
<1>2. Settled(n, list, s, Q)
  BY <1>1, AfterScan
<1>3. PICK m : Remainder(n, list, s, m)
  BY Descends
<1>4. /\ m \in 1..n /\ m \in Nat /\ m # 0 /\ Remains(n, s.sel, Q, m, u, rest)
      /\ \A ctr \in rest[1] : Place(rest, ctr) \in Lesser(list)
  BY <1>3 DEF Remainder
<1>5. rest \in Selectors(m) /\ rest[1] \in SUBSET Counters /\ s.sel \in Selectors(n)
  BY <1>2, <1>4 DEF Remains, Selectors, Settled
<1>6. DOMAIN tries = rest[1]
      /\ \A ctr \in rest[1] : tries[ctr] = bipartite_alloc[Place(rest, ctr)]
  BY DEF Tries
<1>7. bipartite_alloc[list] =
        IF ~fit.ok THEN NoMapping ELSE [ok |-> TRUE, sel |-> Update(s, fit.sel)]
  <2>1. list \in Lists /\ Len(list) = n
    BY ListsAre DEF Selectors
  <2>2. bipartite_alloc[list] = Answer(bipartite_alloc, list)
    BY <2>1, Allocates
  <2> QED BY <2>1, <2>2 DEF Answer
<1>8. fit = IF fits = {} THEN NoMapping ELSE tries[Min(fits)]
  BY DEF FirstFit
<1>9. fits = {ctr \in rest[1] : tries[ctr].ok}
  BY <1>6
<1> HIDE DEF Q, u, rest, tries, fits, fit
<1>10. ASSUME NEW ctr \in rest[1]
       PROVE  /\ tries[ctr].ok <=> \E d \in Places(m) : IsAssignment(d, Place(rest, ctr))
              /\ tries[ctr].ok => \E d \in Places(m) :
                   /\ IsAssignment(d, Place(rest, ctr))
                   /\ tries[ctr].sel = [j \in 1..m |-> {d[j]}]
  <2>1. DOMAIN Place(rest, ctr) = 1..m
    BY <1>4, <1>5, Placed DEF Selectors
  <2>2. Right(Place(rest, ctr), tries[ctr])
    BY <1>4, <1>6
  <2> QED BY <2>1, <2>2 DEF Right, Places
<1>11. CASE fits = {}
  <2>1. ASSUME NEW c \in Places(n), IsAssignment(c, list) PROVE FALSE
    <3>1. IsAssignment(c, s.sel)
      BY <1>2, <2>1 DEF Settled
    <3>2. PICK d \in Places(m) : IsAssignment(d, rest)
      BY <1>1, <1>4, <1>5, <3>1, Down
    <3>3. d[1] \in rest[1]
      BY <1>4, <1>5, <3>2 DEF IsAssignment, Selectors
    <3>4. IsAssignment(d, Place(rest, d[1]))
      BY <1>4, <1>5, <3>2, <3>3, Placed
    <3>5. d[1] \in fits
      BY <1>9, <1>10, <3>3, <3>4
    <3> QED BY <1>11, <3>5
  <2>2. bipartite_alloc[list] = NoMapping
    BY <1>7, <1>8, <1>11 DEF NoMapping
  <2>3. Right(list, NoMapping)
    BY <1>1, <2>1, NoAssignment
  <2> QED BY <2>2, <2>3
<1>12. CASE fits # {}
  <2> DEFINE ctr == Min(fits)
  <2>1. ctr \in rest[1] /\ tries[ctr].ok
    <3>1. fits \in SUBSET Nat
      BY <1>5, <1>9 DEF Counters
    <3>2. ctr \in fits
      BY <1>12, <3>1, MinIn
    <3> HIDE DEF ctr
    <3> QED BY <1>9, <3>2
  <2>2. fit = tries[ctr]
    BY <1>8, <1>12
  <2> HIDE DEF ctr
  <2>3. PICK d \in Places(m) : /\ IsAssignment(d, Place(rest, ctr))
                               /\ fit.sel = [j \in 1..m |-> {d[j]}]
    BY <1>10, <2>1, <2>2
  <2>4. IsAssignment(d, rest)
    BY <1>4, <1>5, <2>1, <2>3, Placed
  <2>5. Extends(n, s.sel, Q, m, u, d)
    BY <1>1, <1>2, <1>4, <2>4, Up
  <2>6. PICK c \in Places(n) : /\ IsAssignment(c, s.sel)
                               /\ \A i \in Q : s.sel[i] = {c[i]}
                               /\ \A j \in 1..m : c[u[j]] = d[j]
    BY <2>5 DEF Extends
  <2>7. IsAssignment(c, list)
    BY <1>2, <2>6 DEF Settled
  <2>8. Update(s, fit.sel) = [i \in 1..n |-> {c[i]}]
    <3>1. DOMAIN s.sel = 1..n /\ DOMAIN fit.sel = 1..m
      BY <1>5, <2>3 DEF Selectors
    <3>2. ASSUME NEW i \in 1..n, i \notin Q
          PROVE  fit.sel[CHOOSE j \in 1..m : u[j] = i] = {c[i]}
      <4>1. \E j \in 1..m : u[j] = i
        BY <1>4, <3>2 DEF Remains, ToSet
      <4> DEFINE j == CHOOSE j \in 1..m : u[j] = i
      <4>2. j \in 1..m /\ u[j] = i
        BY <4>1
      <4> HIDE DEF j
      <4>3. fit.sel[j] = {c[i]}
        BY <2>3, <2>6, <4>2
      <4> QED BY <4>3 DEF j
    <3>3. Update(s, fit.sel) =
            [i \in 1..n |-> IF i \in Q THEN s.sel[i]
                            ELSE fit.sel[CHOOSE j \in 1..m : u[j] = i]]
      BY <3>1 DEF Update, Q, u
    <3>4. \A i \in 1..n :
            (IF i \in Q THEN s.sel[i] ELSE fit.sel[CHOOSE j \in 1..m : u[j] = i]) = {c[i]}
      BY <2>6, <3>2
    <3> QED BY <3>3, <3>4
  <2>9. bipartite_alloc[list] = [ok |-> TRUE, sel |-> Update(s, fit.sel)]
    BY <1>7, <2>1, <2>2
  <2>10. Right(list, [ok |-> TRUE, sel |-> Update(s, fit.sel)])
    BY <1>1, <2>7, <2>8, OneAssignment
  <2> QED BY <2>9, <2>10
<1> QED BY <1>11, <1>12

LEMMA AnswersRight ==
  ASSUME NEW list \in Lists
  PROVE  Right(list, bipartite_alloc[list])
<1> DEFINE Good == {l \in Lists : Right(l, bipartite_alloc[l])}
<1>1. ASSUME NEW l \in Lists, Lesser(l) \subseteq Good PROVE l \in Good
  <2>1. PICK n \in 0..MaxEvents : l \in Selectors(n)
    BY ListsAre
  <2>2. n \in Nat /\ Len(l) = n
    BY <2>1 DEF Selectors
  <2> DEFINE s == ScanQueue(l)
  <2>3. bipartite_alloc[l] = Answer(bipartite_alloc, l)
    BY Allocates
  <2>4. CASE s.conflict
    <3>1. Right(l, NoMapping)
      BY <2>1, <2>2, <2>4, AfterScan, NoAssignment
    <3> QED BY <2>3, <2>4, <3>1 DEF Answer
  <2>5. CASE ~s.conflict /\ Len(s.idx_q) = n
    <3> HIDE DEF s
    <3>1. Settled(n, l, s, ToSet(s.idx_q))
      BY <2>1, <2>2, <2>5, AfterScan DEF s
    <3>2. ToSet(s.idx_q) = 1..n
      BY <2>5, <3>1 DEF Settled
    <3>3. Right(l, [ok |-> TRUE, sel |-> s.sel])
      BY <2>1, <2>2, <3>1, <3>2, AllMapped
    <3>4. bipartite_alloc[l] = [ok |-> TRUE, sel |-> s.sel]
      BY <2>2, <2>3, <2>5 DEF Answer, s
    <3> QED BY <3>3, <3>4
  <2>6. CASE ~s.conflict /\ Len(s.idx_q) # n
    <3> HIDE DEF s
    <3>1. \A x \in Lesser(l) : Right(x, bipartite_alloc[x])
      BY <1>1
    <3>2. s = ScanQueue(l)
      BY DEF s
    <3>3. Right(l, bipartite_alloc[l])
      BY <2>1, <2>6, <3>1, <3>2, SomeLeft
    <3> QED BY <3>3
  <2> QED BY <2>4, <2>5, <2>6
<1>2. \A l \in Lists : Lesser(l) \subseteq Good => l \in Good
  BY Zenon, <1>1
<1> HIDE DEF Good
<1>3. list \in Good
  BY <1>2, ByUndecided
<1> QED BY <1>3 DEF Good

-----------------------------------------------------------------------------
(* The theorem.                                                            *)

IInv == event_list \in Lists /\ answer = bipartite_alloc[event_list]

LEMMA Always == Spec => []IInv
<1>1. Init => IInv
  <2>1. <<>> \in Selectors(0) /\ 0 \in 0..MaxEvents
    BY DEF Selectors
  <2>2. <<>> \in Lists
    BY <2>1, ListsAre
  <2> QED BY <2>2 DEF Init, IInv
<1>2. IInv /\ [Next]_vars => IInv'
  BY DEF IInv, Next, Call, vars
<1> QED BY <1>1, <1>2, PTL DEF Spec

\* _papi_hwi_bipartite_alloc finds counters for the events whenever each can have
\* one of its own, however often it has to take a choice back; it refuses only
\* lists that cannot be counted at once; and what it leaves in the list is such an
\* assignment.
THEOREM Exact == Spec => []AllocatorIsExact
<1>1. IInv => AllocatorIsExact
  <2> SUFFICES ASSUME IInv PROVE AllocatorIsExact
    OBVIOUS
  <2>1. Right(event_list, answer)
    BY AnswersRight DEF IInv
  <2> QED BY <2>1 DEF Right, AllocatorIsExact
<1> QED BY <1>1, Always, PTL

\* A caller that lists natives without repetition is told whether all of them can
\* be counted at once: what EventSetNatives takes for the allocator, Allocatable.
THEOREM ServesAnySet ==
  ASSUME NEW natives, NEW selector, NEW list \in Lists, NEW order,
         order \in [DOMAIN list -> natives], IsInjective(order),
         \A x \in natives : \E i \in DOMAIN list : order[i] = x,
         \A i \in DOMAIN list : list[i] = selector[order[i]]
  PROVE  bipartite_alloc[list].ok <=>
           \E counter \in [natives -> Counters] :
             IsInjective(counter) /\ \A x \in natives : counter[x] \in selector[x]
<1>1. bipartite_alloc[list].ok <=>
        \E c \in [DOMAIN list -> Counters] : IsAssignment(c, list)
  BY AnswersRight DEF Right
<1>2. ASSUME NEW c \in [DOMAIN list -> Counters], IsAssignment(c, list)
      PROVE  \E counter \in [natives -> Counters] :
               IsInjective(counter) /\ \A x \in natives : counter[x] \in selector[x]
  <2> DEFINE place == [x \in natives |-> CHOOSE i \in DOMAIN list : order[i] = x]
             counter == [x \in natives |-> c[place[x]]]
  <2>1. ASSUME NEW x \in natives
        PROVE  place[x] \in DOMAIN list /\ order[place[x]] = x
    OBVIOUS
  <2>2. \A x \in natives : counter[x] = c[place[x]]
    OBVIOUS
  <2>3. counter \in [natives -> Counters]
    BY <2>1
  <2> HIDE DEF place, counter
  <2>4. ASSUME NEW x \in natives, NEW y \in natives, counter[x] = counter[y]
        PROVE  x = y
    <3>1. place[x] = place[y]
      BY <1>2, <2>1, <2>2, <2>4 DEF IsAssignment, IsInjective
    <3> QED BY <2>1, <3>1
  <2>5. \A x \in natives : counter[x] \in selector[x]
    BY <1>2, <2>1, <2>2 DEF IsAssignment
  <2>6. IsInjective(counter)
    BY <2>3, <2>4 DEF IsInjective
  <2> QED BY <2>3, <2>5, <2>6
<1>3. ASSUME NEW counter \in [natives -> Counters], IsInjective(counter),
             \A x \in natives : counter[x] \in selector[x]
      PROVE  \E c \in [DOMAIN list -> Counters] : IsAssignment(c, list)
  <2> DEFINE c == [i \in DOMAIN list |-> counter[order[i]]]
  <2>1. c \in [DOMAIN list -> Counters] /\ DOMAIN c = DOMAIN list
        /\ \A i \in DOMAIN list : order[i] \in natives /\ c[i] = counter[order[i]]
    OBVIOUS
  <2> HIDE DEF c
  <2>2. \A i, j \in DOMAIN list : c[i] = c[j] => i = j
    BY <1>3, <2>1 DEF IsInjective
  <2>3. IsAssignment(c, list)
    BY <1>3, <2>1, <2>2 DEF IsAssignment, IsInjective
  <2> QED BY <2>1, <2>3
<1> QED BY <1>1, <1>2, <1>3
=============================================================================
