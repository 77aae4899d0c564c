--------------------------- MODULE ServicesProofs ---------------------------
(***************************************************************************)
(* Proofs about Leaderboard, Releases and Tls, for all agents, scores,     *)
(* installers, clients and keys: what two writes without a transaction     *)
(* leave behind when the process may die between them.                     *)
(***************************************************************************)
EXTENDS Leaderboard, Releases, Tls, SequenceTheorems, FiniteSetTheorems,
        TLAPS
-----------------------------------------------------------------------------
(* The leaderboard *)

\* The inductive invariant of the leaderboard: rows and log entries are looked
\* up by agent.
LeaderboardInv ==
    /\ row \in [Agent -> EntryChoice \cup {NoEntry}]
    /\ logged \in [Agent -> EntryChoice \cup {NoEntry}]
    /\ LogTellsRow

\* A report of one agent moves its own row and log entry together, or leaves it
\* among the torn.
LEMMA LeaderboardStepKeeps ==
  ASSUME LeaderboardInv, [LeaderboardNext]_leaderboardVars
  PROVE  LeaderboardInv'
<1>1. CASE UNCHANGED leaderboardVars
  BY <1>1 DEF leaderboardVars, LeaderboardInv, LogTellsRow
<1>2. ASSUME NEW a \in Agent, NEW e \in EntryChoice, ReportScore(a, e)
      PROVE  LeaderboardInv'
  BY <1>2 DEF ReportScore, Upsert, Changes, LeaderboardInv, LogTellsRow
<1>3. ASSUME NEW a \in Agent, NEW e \in EntryChoice, ReportScoreDies(a, e)
      PROVE  LeaderboardInv'
  BY <1>3 DEF ReportScoreDies, Upsert, LeaderboardInv, LogTellsRow
<1> QED
  BY <1>1, <1>2, <1>3 DEF LeaderboardNext

\* The newest log entry of an agent is its row, but for a crash between the two
\* statements.
THEOREM LogCorrect == LeaderboardSpec => []LogTellsRow
<1>1. LeaderboardInit => LeaderboardInv
  BY DEF LeaderboardInit, LeaderboardInv, LogTellsRow
<1>2. LeaderboardInv => LogTellsRow
  BY DEF LeaderboardInv
<1> QED
  BY <1>1, <1>2, LeaderboardStepKeeps, PTL DEF LeaderboardSpec
-----------------------------------------------------------------------------
(* The order of the rows, and the pages *)

\* The inductive invariant of the order: the listed agents are finitely many,
\* and their rows are typed.
OrderInv ==
    /\ row \in [Agent -> EntryChoice \cup {NoEntry}]
    /\ reportedAt \in [Agent -> Nat]
    /\ IsFiniteSet(Listed)

\* A report lists one more agent at most.
LEMMA UpsertKeepsOrder ==
  ASSUME OrderInv, NEW a \in Agent, NEW e \in EntryChoice, Upsert(a, e)
  PROVE  OrderInv'
<1>1. row' \in [Agent -> EntryChoice \cup {NoEntry}] /\ row' = [row EXCEPT ![a] = e]
  BY DEF OrderInv, Upsert
<1>2. reportedAt' \in [Agent -> Nat]
  BY LeaderboardAssumption DEF OrderInv, Upsert
<1>3. Listed' = Listed \cup {a}
  BY <1>1, LeaderboardAssumption DEF OrderInv, Listed
<1>4. IsFiniteSet(Listed')
  BY <1>3, FS_AddElement DEF OrderInv
<1> QED
  BY <1>1, <1>2, <1>4 DEF OrderInv

\* What rows are sorted by are two numbers.
LEMMA KeysTyped ==
  ASSUME OrderInv, NEW a \in Listed, NEW sortBy \in SortKey
  PROVE  \E i, j \in Nat : Keys(a, sortBy) = <<i, j>>
<1>1. row[a] \in EntryChoice
  BY DEF OrderInv, Listed
<1>2. row[a].points \in Nat /\ row[a].unlocked \in Nat /\ row[a].score \in Nat
  BY <1>1, LeaderboardAssumption
<1> QED
  BY <1>2 DEF Keys

\* No row precedes itself, and of two rows that are not tied one precedes the
\* other.
LEMMA UntiedOrdered ==
  ASSUME OrderInv, NEW sortBy \in SortKey, NEW a \in Listed, NEW b \in Listed
  PROVE  /\ ~Precedes(a, a, sortBy)
         /\ ~Tied(a, b, sortBy) => Precedes(a, b, sortBy) \/ Precedes(b, a, sortBy)
<1>1. PICK i1, j1 \in Nat : Keys(a, sortBy) = <<i1, j1>>
  BY KeysTyped
<1>2. PICK i2, j2 \in Nat : Keys(b, sortBy) = <<i2, j2>>
  BY KeysTyped
<1>3. reportedAt[a] \in Nat /\ reportedAt[b] \in Nat
  BY DEF OrderInv, Listed
<1>4. ~Precedes(a, a, sortBy)
  BY <1>1, <1>3 DEF Precedes
<1>5. ~Tied(a, b, sortBy) => Precedes(a, b, sortBy) \/ Precedes(b, a, sortBy)
  BY <1>1, <1>2, <1>3 DEF Precedes, Tied
<1> QED
  BY <1>4, <1>5

\* A list that ORDER BY allows gives every matching agent one place.
LEMMA OrderTyped ==
  ASSUME OrderInv, NEW sortBy, NEW filter, NEW order \in Orders(sortBy, filter)
  PROVE  LET M == Matching(filter)
             N == Cardinality(M)
         IN  /\ M \subseteq Listed /\ N \in Nat
             /\ DOMAIN order = 1..N
             /\ order \in [1..N -> M]
             /\ \A i, j \in 1..N : order[i] = order[j] => i = j
             /\ \A a \in M : \E i \in 1..N : order[i] = a
             /\ \A i, j \in 1..N : i < j => ~Precedes(order[j], order[i], sortBy)
<1> DEFINE M == Matching(filter)
           N == Cardinality(M)
<1>1. M \subseteq Listed
  BY DEF Matching
<1>2. N \in Nat
  BY <1>1, FS_Subset, FS_CardinalityType DEF OrderInv
<1>3. /\ order \in Bijection(1..N, M)
      /\ \A i, j \in DOMAIN order : i < j => ~Precedes(order[j], order[i], sortBy)
  BY DEF Orders
<1> HIDE DEF M, N
<1>4. /\ order \in [1..N -> M]
      /\ \A i, j \in 1..N : order[i] = order[j] => i = j
      /\ \A a \in M : \E i \in 1..N : order[i] = a
  BY <1>3 DEF Bijection, Injection, IsInjective, Surjection
<1>5. DOMAIN order = 1..N
  BY <1>4
<1> QED
  BY <1>1, <1>2, <1>3, <1>4, <1>5 DEF M, N

\* The place of an agent that is tied with nobody is the number of those that
\* precede it, and one.
LEMMA PlaceCounts ==
  ASSUME OrderInv, NEW sortBy \in SortKey, NEW filter \in Filter,
         NEW order \in Orders(sortBy, filter), NEW k \in DOMAIN order,
         \A b \in Matching(filter) \ {order[k]} : ~Tied(order[k], b, sortBy)
  PROVE  /\ k \in Nat
         /\ order[k] \in Matching(filter)
         /\ Cardinality({b \in Matching(filter) : Precedes(b, order[k], sortBy)}) = k - 1
<1> DEFINE M == Matching(filter)
           N == Cardinality(M)
           Before == {b \in M : Precedes(b, order[k], sortBy)}
           f == [i \in 1..k - 1 |-> order[i]]
<1>1. /\ M \subseteq Listed /\ N \in Nat
      /\ DOMAIN order = 1..N
      /\ order \in [1..N -> M]
      /\ \A i, j \in 1..N : order[i] = order[j] => i = j
      /\ \A a \in M : \E i \in 1..N : order[i] = a
      /\ \A i, j \in 1..N : i < j => ~Precedes(order[j], order[i], sortBy)
  BY OrderTyped
<1> HIDE DEF M, N
<1>2. k \in 1..N /\ k \in Nat /\ order[k] \in M
  BY <1>1
<1>3. ASSUME NEW i \in 1..N, i < k PROVE Precedes(order[i], order[k], sortBy)
  <2>1. order[i] \in M \ {order[k]}
    BY <1>1, <1>2, <1>3
  <2>2. ~Tied(order[k], order[i], sortBy)
    BY <2>1 DEF M
  <2>3. ~Precedes(order[k], order[i], sortBy)
    BY <1>1, <1>2, <1>3
  <2> QED
    BY <1>1, <1>2, <2>1, <2>2, <2>3, UntiedOrdered
<1>4. ASSUME NEW i \in 1..N, Precedes(order[i], order[k], sortBy) PROVE i < k
  <2>1. i # k
    BY <1>1, <1>2, <1>4, UntiedOrdered
  <2>2. ~(k < i)
    BY <1>1, <1>2, <1>4
  <2> QED
    BY <1>1, <1>2, <2>1, <2>2
<1>5. \A i \in 1..k - 1 : i \in 1..N /\ i < k
  BY <1>1, <1>2
<1>6. f \in [1..k - 1 -> Before]
  BY <1>1, <1>3, <1>5
<1>7. \A i, j \in 1..k - 1 : f[i] = f[j] => i = j
  BY <1>1, <1>5
<1>8. ASSUME NEW b \in Before PROVE \E i \in 1..k - 1 : f[i] = b
  <2>1. PICK i \in 1..N : order[i] = b
    BY <1>1, <1>8
  <2>2. i < k
    BY <1>4, <1>8, <2>1
  <2>3. i \in 1..k - 1
    BY <1>1, <1>2, <2>2
  <2> QED
    BY <2>1, <2>3
<1> HIDE DEF f, Before
<1>9. f \in Injection(1..k - 1, Before) /\ f \in Surjection(1..k - 1, Before)
  BY <1>6, <1>7, <1>8 DEF Injection, IsInjective, Surjection
<1>10. IsFiniteSet(1..k - 1) /\ Cardinality(1..k - 1) = k - 1
  <2>1. 1 \in Int /\ k - 1 \in Int
    BY <1>2
  <2>2. IsFiniteSet(1..k - 1) /\ Cardinality(1..k - 1) = IF 1 > k - 1 THEN 0 ELSE (k - 1) - 1 + 1
    BY <2>1, FS_Interval
  <2> QED
    BY <1>1, <1>2, <2>2
<1>11. Cardinality(Before) = Cardinality(1..k - 1)
  BY <1>9, <1>10, FS_Surjection
<1> QED
  BY <1>2, <1>10, <1>11 DEF Before, M

\* Every place lies on one page.
LEMMA OnePage ==
  ASSUME NEW P \in Nat \ {0}, NEW N \in Nat, NEW k \in 1..N
  PROVE  /\ (N + P - 1) \div P \in Nat
         /\ \E n \in 1..(N + P - 1) \div P :
                \A m \in 1..(N + P - 1) \div P :
                    k \in (m - 1) * P + 1 .. m * P <=> m = n
<1> DEFINE q == (k - 1) \div P
           c == (N + P - 1) \div P
<1>1. ASSUME NEW x \in Nat
      PROVE  x \div P \in Nat /\ P * (x \div P) <= x /\ x < P * (x \div P) + P
  <2>1. x \div P \in Nat /\ x % P \in 0..P - 1 /\ x = P * (x \div P) + (x % P)
    OBVIOUS
  <2> DEFINE y == x \div P
  <2>2. P * y \in Nat
    BY <2>1
  <2> HIDE DEF y
  <2> QED
    BY <2>1, <2>2 DEF y
<1>2. /\ q \in Nat /\ P * q <= k - 1 /\ k - 1 < P * q + P
      /\ c \in Nat /\ P * c <= N + P - 1 /\ N + P - 1 < P * c + P
  <2>1. k - 1 \in Nat /\ N + P - 1 \in Nat
    OBVIOUS
  <2> QED
    BY <1>1, <2>1
<1> HIDE DEF q, c
<1>3. q + 1 <= c
  <2> SUFFICES ASSUME c <= q PROVE FALSE
    BY <1>2
  <2>1. P * c <= P * q
    BY <1>2
  <2> QED
    BY <1>2, <2>1
<1>4. ASSUME NEW m \in 1..c
      PROVE  k \in (m - 1) * P + 1 .. m * P <=> m = q + 1
  <2>1. (m - 1) * P = P * m - P /\ m * P = P * m /\ P * m \in Int
    OBVIOUS
  <2>2. CASE m = q + 1
    <3>1. P * m = P * q + P
      BY <1>2, <2>2
    <3> QED
      BY <1>2, <2>1, <2>2, <3>1
  <2>3. CASE m <= q
    <3>1. P * m <= P * q
      BY <1>2, <2>3
    <3> QED
      BY <1>2, <2>1, <2>3, <3>1
  <2>4. CASE m >= q + 2
    <3>1. P * m >= P * q + P + P
      BY <1>2, <2>4
    <3> QED
      BY <1>2, <2>1, <2>4, <3>1
  <2> QED
    BY <1>2, <2>2, <2>3, <2>4
<1>5. q + 1 \in 1..c
  BY <1>2, <1>3
<1> QED
  BY <1>2, <1>4, <1>5 DEF c

\* All pages but the last lie within the list.
LEMMA PagesWithin ==
  ASSUME NEW P \in Nat \ {0}, NEW N \in Nat, NEW n \in Nat \ {0}, n < (N + P - 1) \div P
  PROVE  /\ (n - 1) * P \in Nat /\ n * P \in Nat
         /\ (n - 1) * P + P = n * P
         /\ n * P <= N
<1> DEFINE c == (N + P - 1) \div P
<1>1. N + P - 1 \in Nat
  OBVIOUS
<1>2. c \in Nat /\ (N + P - 1) % P \in 0..P - 1 /\ N + P - 1 = P * c + ((N + P - 1) % P)
  BY <1>1
<1>3. n + 1 <= c
  BY <1>2
<1> HIDE DEF c
<1>4. (n - 1) * P \in Nat /\ n * P \in Nat /\ (n - 1) * P + P = n * P
  OBVIOUS
<1>5. P * c \in Nat /\ P * c <= N + P - 1
  BY <1>1, <1>2
<1>6. n * P + P <= P * c
  <2>1. (n + 1) * P <= c * P
    BY <1>2, <1>3
  <2>2. (n + 1) * P = n * P + P /\ c * P = P * c
    BY <1>2
  <2> QED
    BY <2>1, <2>2
<1> QED
  BY <1>4, <1>5, <1>6

\* An agent is on the page of its place.
LEMMA PageOfPlace ==
  ASSUME OrderInv, NEW sortBy, NEW filter, NEW order \in Orders(sortBy, filter),
         NEW k \in DOMAIN order, NEW n
  PROVE  order[k] \in Page(n, order) <=> k \in (n - 1) * PageSize + 1 .. n * PageSize
<1>1. \A i, j \in DOMAIN order : order[i] = order[j] => i = j
  BY OrderTyped
<1> QED
  BY <1>1 DEF Page

\* As many agents as a page has places are on it, if it lies within the list.
LEMMA PageFills ==
  ASSUME OrderInv, NEW sortBy, NEW filter, NEW order \in Orders(sortBy, filter),
         NEW n \in Nat \ {0}, n < PageCount(filter)
  PROVE  Cardinality(Page(n, order)) = PageSize
<1> DEFINE N == Cardinality(Matching(filter))
           m == (n - 1) * PageSize
           S == m + 1 .. m + PageSize
           f == [i \in S |-> order[i]]
<1>1. /\ N \in Nat /\ DOMAIN order = 1..N
      /\ \A i, j \in 1..N : order[i] = order[j] => i = j
  BY OrderTyped
<1>2. PageSize \in Nat \ {0} /\ n < (N + PageSize - 1) \div PageSize
  BY LeaderboardAssumption DEF PageCount
<1> HIDE DEF N
<1>3. m \in Nat /\ m + PageSize = n * PageSize /\ n * PageSize <= N
  BY <1>1, <1>2, PagesWithin
<1>4. Page(n, order) = {order[i] : i \in S \cap 1..N}
  BY <1>1, <1>3 DEF Page
<1> HIDE DEF m
<1>5. S \cap 1..N = S
  BY <1>1, <1>2, <1>3
<1>6. f \in Surjection(S, Page(n, order)) /\ f \in Injection(S, Page(n, order))
  <2>1. S \subseteq 1..N
    BY <1>5
  <2>2. Page(n, order) = {order[i] : i \in S}
    BY <1>4, <1>5
  <2> HIDE DEF S
  <2>3. f \in [S -> Page(n, order)]
    BY <2>2
  <2>4. \A i, j \in S : f[i] = f[j] => i = j
    BY <1>1, <2>1
  <2>5. \A a \in Page(n, order) : \E i \in S : f[i] = a
    BY <2>2
  <2> HIDE DEF f
  <2> QED
    BY <2>3, <2>4, <2>5 DEF Injection, IsInjective, Surjection
<1>7. IsFiniteSet(S) /\ Cardinality(S) = PageSize
  <2>1. m + 1 \in Int /\ m + PageSize \in Int
    BY <1>2, <1>3
  <2>2. /\ IsFiniteSet(S)
        /\ Cardinality(S) = IF m + 1 > m + PageSize THEN 0 ELSE (m + PageSize) - (m + 1) + 1
    BY <2>1, FS_Interval
  <2> QED
    BY <1>2, <1>3, <2>2
<1> HIDE DEF f, S
<1> QED
  BY <1>6, <1>7, FS_Surjection

\* The pages show every matching agent once, those before the last are full,
\* and who is tied with nobody has one place.
LEMMA PagesFromOrder == OrderInv => PagesPartition
<1> SUFFICES ASSUME OrderInv, NEW sortBy \in SortKey, NEW filter \in Filter,
                    NEW order \in Orders(sortBy, filter)
             PROVE  /\ \A n \in 1..PageCount(filter) :
                           n < PageCount(filter) => Cardinality(Page(n, order)) = PageSize
                    /\ \A a \in Matching(filter) :
                           Cardinality({n \in 1..PageCount(filter) : a \in Page(n, order)}) = 1
                    /\ \A other \in Orders(sortBy, filter), rank \in DOMAIN order :
                           (\A b \in Matching(filter) \ {order[rank]} :
                                ~Tied(order[rank], b, sortBy))
                               => other[rank] = order[rank]
  BY DEF PagesPartition
<1> DEFINE M == Matching(filter)
           N == Cardinality(M)
<1>1. /\ N \in Nat /\ DOMAIN order = 1..N
      /\ \A a \in M : \E i \in 1..N : order[i] = a
  BY OrderTyped
<1>2. PageSize \in Nat \ {0} /\ PageCount(filter) = (N + PageSize - 1) \div PageSize
  BY LeaderboardAssumption DEF PageCount
<1>3. ASSUME NEW n \in 1..PageCount(filter), n < PageCount(filter)
      PROVE  Cardinality(Page(n, order)) = PageSize
  BY <1>3, PageFills
<1>4. ASSUME NEW a \in M
      PROVE  Cardinality({n \in 1..PageCount(filter) : a \in Page(n, order)}) = 1
  <2> DEFINE S == {n \in 1..PageCount(filter) : a \in Page(n, order)}
  <2>1. PICK k \in 1..N : order[k] = a
    BY <1>1
  <2> HIDE DEF M, N
  <2>2. \A n \in 1..PageCount(filter) :
            a \in Page(n, order) <=> k \in (n - 1) * PageSize + 1 .. n * PageSize
    BY <1>1, <2>1, PageOfPlace
  <2>3. PICK n \in 1..PageCount(filter) :
            \A m \in 1..PageCount(filter) :
                k \in (m - 1) * PageSize + 1 .. m * PageSize <=> m = n
    <3>1. \E n \in 1..(N + PageSize - 1) \div PageSize :
             \A m \in 1..(N + PageSize - 1) \div PageSize :
                 k \in (m - 1) * PageSize + 1 .. m * PageSize <=> m = n
      BY <1>1, <1>2, <2>1, OnePage, Zenon
    <3> QED
      BY <1>2, <3>1
  <2>4. S = {n}
    BY <2>2, <2>3
  <2> QED
    BY <2>4, FS_Singleton
<1>5. ASSUME NEW other \in Orders(sortBy, filter), NEW rank \in DOMAIN order,
             \A b \in M \ {order[rank]} : ~Tied(order[rank], b, sortBy)
      PROVE  other[rank] = order[rank]
  <2> DEFINE a == order[rank]
             Before == {b \in M : Precedes(b, a, sortBy)}
  <2>1. rank \in Nat /\ a \in M /\ Cardinality(Before) = rank - 1
    BY <1>5, PlaceCounts
  <2>2. PICK k \in DOMAIN other : other[k] = a
    BY <2>1, OrderTyped
  <2>3. k \in Nat /\ Cardinality(Before) = k - 1
    <3>1. \A b \in M \ {other[k]} : ~Tied(other[k], b, sortBy)
      BY <1>5, <2>2
    <3>2. /\ k \in Nat
          /\ Cardinality({b \in M : Precedes(b, other[k], sortBy)}) = k - 1
      BY <3>1, PlaceCounts
    <3> QED
      BY <2>2, <3>2
  <2>4. k = rank
    BY <2>1, <2>3
  <2> QED
    BY <2>2, <2>4
<1> QED
  BY <1>3, <1>4, <1>5

\* The pages of the leaderboard partition the matching agents in whatever order
\* a query takes, and an agent has one rank in all of them unless it is tied with
\* another in the numbers and in the time of its report.
THEOREM PagesCorrect == LeaderboardSpec => []PagesPartition
<1>1. LeaderboardInit => OrderInv
  <2> SUFFICES ASSUME LeaderboardInit PROVE OrderInv
    OBVIOUS
  <2>1. Listed = {}
    BY DEF LeaderboardInit, Listed
  <2> QED
    BY <2>1, FS_EmptySet DEF LeaderboardInit, OrderInv
<1>2. OrderInv /\ [LeaderboardNext]_leaderboardVars => OrderInv'
  <2> SUFFICES ASSUME OrderInv, [LeaderboardNext]_leaderboardVars PROVE OrderInv'
    OBVIOUS
  <2>1. CASE LeaderboardNext
    BY <2>1, UpsertKeepsOrder DEF LeaderboardNext, ReportScore, ReportScoreDies
  <2>2. CASE UNCHANGED leaderboardVars
    BY <2>2 DEF leaderboardVars, OrderInv, Listed
  <2> QED
    BY <2>1, <2>2
<1> QED
  BY <1>1, <1>2, PagesFromOrder, PTL DEF LeaderboardSpec
-----------------------------------------------------------------------------
(* The writes of a request *)

\* Whatever is on the disk lies at one of the paths.
OnDisk == disk = [p \in Path |-> disk[p]]

Put(p, contents) == [disk EXCEPT ![p] = contents]

PutBoth(p, x, q, y) == [Put(p, x) EXCEPT ![q] = y]

\* Nothing is written yet.
LEMMA AfterNone ==
  ASSUME OnDisk, NEW writes
  PROVE  After(writes, 0) = disk
  BY DEF After, OnDisk

\* The first write.
LEMMA AfterFirst ==
  ASSUME OnDisk, NEW writes, writes[1].path \in Path
  PROVE  After(writes, 1) = Put(writes[1].path, writes[1].contents)
<1> DEFINE q == writes[1].path
<1>1. 1..1 = {1}
  OBVIOUS
<1>2. ASSUME NEW p \in Path
      PROVE  After(writes, 1)[p] = IF p = q THEN writes[1].contents ELSE disk[p]
  BY <1>1, <1>2 DEF After
<1> HIDE DEF q
<1>3. After(writes, 1) = [p \in Path |-> IF p = q THEN writes[1].contents ELSE disk[p]]
  BY <1>2 DEF After
<1> QED
  BY <1>3 DEF q, Put, OnDisk

\* Two writes to different files.
LEMMA AfterSecond ==
  ASSUME OnDisk, NEW writes,
         writes[1].path \in Path, writes[2].path \in Path,
         writes[1].path # writes[2].path
  PROVE  After(writes, 2) =
             PutBoth(writes[1].path, writes[1].contents,
                     writes[2].path, writes[2].contents)
<1> DEFINE q == writes[1].path
           r == writes[2].path
<1>1. 1..2 = {1, 2}
  OBVIOUS
<1>2. ASSUME NEW p \in Path
      PROVE  After(writes, 2)[p] = IF p = r THEN writes[2].contents
                                   ELSE IF p = q THEN writes[1].contents ELSE disk[p]
  <2>1. CASE p = q
    <3>1. (CHOOSE i \in 1..2 : writes[i].path = p) = 1
      BY <1>1, <2>1
    <3> QED
      BY <1>1, <2>1, <3>1 DEF After
  <2>2. CASE p = r
    <3>1. (CHOOSE i \in 1..2 : writes[i].path = p) = 2
      BY <1>1, <2>2
    <3> QED
      BY <1>1, <2>2, <3>1 DEF After
  <2>3. CASE p # q /\ p # r
    BY <1>1, <2>3 DEF After
  <2> QED
    BY <2>1, <2>2, <2>3
<1> HIDE DEF q, r
<1>3. After(writes, 2) =
          [p \in Path |-> IF p = r THEN writes[2].contents
                          ELSE IF p = q THEN writes[1].contents ELSE disk[p]]
  BY <1>2 DEF After
<1>4. q \in Path /\ r \in Path
  BY DEF q, r
<1>5. PutBoth(q, writes[1].contents, r, writes[2].contents) =
          [p \in Path |-> IF p = r THEN writes[2].contents
                          ELSE IF p = q THEN writes[1].contents ELSE disk[p]]
  BY <1>4 DEF Put, PutBoth, OnDisk
<1> QED
  BY <1>3, <1>5 DEF q, r

\* A request with one write leaves the new file or a damaged one.
LEMMA OneWrite ==
  ASSUME OnDisk, NEW p \in Path, NEW x,
         NEW writes, writes = <<[path |-> p, contents |-> x]>>
  PROVE  /\ WriteAll(writes) => disk' = Put(p, x)
         /\ WriteSome(writes) => disk' = Put(p, Damaged)
<1>1. Len(writes) = 1 /\ writes[1].path = p /\ writes[1].contents = x
  OBVIOUS
<1>2. After(writes, 0) = disk /\ After(writes, 1) = Put(p, x)
  BY <1>1, AfterNone, AfterFirst
<1>3. WriteAll(writes) => disk' = Put(p, x)
  BY <1>1, <1>2 DEF WriteAll
<1>4. ASSUME WriteSome(writes) PROVE disk' = Put(p, Damaged)
  <2>1. PICK n \in 0..Len(writes) - 1 :
            disk' \in {After(writes, n),
                       [After(writes, n) EXCEPT ![writes[n + 1].path] = Damaged]}
    BY <1>4 DEF WriteSome
  <2>2. n = 0
    BY <1>1, <2>1
  <2> QED
    BY <1>1, <1>2, <1>4, <2>1, <2>2 DEF WriteSome, Put
<1> QED
  BY <1>3, <1>4

\* A request with two writes leaves both new files, the first of them, or one
\* of them damaged.
LEMMA TwoWrites ==
  ASSUME OnDisk, NEW p \in Path, NEW q \in Path, p # q,
         NEW x, NEW y, NEW writes,
         writes = <<[path |-> p, contents |-> x], [path |-> q, contents |-> y]>>
  PROVE  /\ WriteAll(writes) => disk' = PutBoth(p, x, q, y)
         /\ WriteSome(writes) =>
                disk' \in {Put(p, Damaged), Put(p, x), PutBoth(p, x, q, Damaged)}
<1>1. /\ Len(writes) = 2
      /\ writes[1].path = p /\ writes[1].contents = x
      /\ writes[2].path = q /\ writes[2].contents = y
  OBVIOUS
<1>2. After(writes, 0) = disk /\ After(writes, 1) = Put(p, x)
  BY <1>1, AfterNone, AfterFirst
<1>3. After(writes, 2) = PutBoth(p, x, q, y)
  BY <1>1, AfterSecond
<1>4. WriteAll(writes) => disk' = PutBoth(p, x, q, y)
  BY <1>1, <1>3 DEF WriteAll
<1>5. ASSUME WriteSome(writes)
      PROVE  disk' \in {Put(p, Damaged), Put(p, x), PutBoth(p, x, q, Damaged)}
  <2>1. PICK n \in 0..Len(writes) - 1 :
            disk' \in {After(writes, n),
                       [After(writes, n) EXCEPT ![writes[n + 1].path] = Damaged]}
    BY <1>5 DEF WriteSome
  <2>2. disk' # disk
    BY <1>5 DEF WriteSome
  <2>3. n = 0 \/ n = 1
    BY <1>1, <2>1
  <2>4. CASE n = 0
    <3>1. n + 1 = 1
      BY <2>4
    <3> QED
      BY <1>1, <1>2, <2>1, <2>2, <2>4, <3>1 DEF Put, PutBoth
  <2>5. CASE n = 1
    <3>1. n + 1 = 2
      BY <2>5
    <3> QED
      BY <1>1, <1>2, <2>1, <2>5, <3>1
  <2> QED
    BY <2>3, <2>4, <2>5
<1> QED
  BY <1>4, <1>5
-----------------------------------------------------------------------------
(* The feeds *)

Description == [name : Name, what : Build \cup Url, by : {"upload", "publish"}]

\* Every file has contents of its kind.
DiskTyped ==
    /\ OnDisk
    /\ \A n \in Name : /\ disk[<<"installer", n>>] \in {NoFile, Damaged} \cup Build
                       /\ disk[<<"redirect", n>>] \in {NoFile, Damaged} \cup Url
    /\ \A f \in Feed : Generated(f) => disk[<<"feed", f>>] \in Description

\* Only an upload writes latest-mac.yml and only into the feed its name belongs
\* to, so each request that rewrites an installer with a version, or a
\* redirection, rewrites every feed that describes it.
FeedsFollow ==
    \A f \in Feed :
        LET yml == disk[<<"feed", f>>]
        IN  Generated(f) =>
                IF yml.by = "upload" THEN yml.name \in Versioned /\ f = FeedOf(yml.name)
                                     ELSE f = "latest.yml"

\* What a feed describes lies where the request put it, unless a later one died
\* while it was overwriting it.
FeedsBacked ==
    \A f \in Feed :
        LET yml == disk[<<"feed", f>>]
        IN  Generated(f) =>
                /\ disk[Source(yml)] # NoFile
                /\ Source(yml) \notin cut =>
                       disk[Source(yml)] = yml.what /\ yml.what # NoFile

\* The inductive invariant of the releases.
ReleasesInv == DiskTyped /\ FeedsFollow /\ FeedsBacked

\* An upload or a publication that is cut short: the files written so far are no
\* longer what they were, and no new description is on the disk.
LEMMA CutKeeps ==
  ASSUME ReleasesInv, NEW dir \in {"installer", "redirect"}, NEW n \in Name,
         NEW x \in {Damaged} \cup (IF dir = "installer" THEN Build ELSE Url),
         NEW f \in Feed, cut' = cut \cup {<<dir, n>>},
         disk' \in {Put(<<dir, n>>, x), PutBoth(<<dir, n>>, x, <<"feed", f>>, Damaged)}
  PROVE  ReleasesInv'
<1>1. <<dir, n>> \in Path /\ <<"feed", f>> \in Path /\ x # NoFile
  BY ReleasesAssumption DEF Path
<1>2. /\ DOMAIN disk' = Path
      /\ OnDisk'
      /\ disk'[<<dir, n>>] = x
      /\ \A d \in {"installer", "redirect"}, m \in Name :
             <<d, m>> \in Path /\ (<<d, m>> # <<dir, n>> => disk'[<<d, m>>] = disk[<<d, m>>])
      /\ \A g \in Feed : disk'[<<"feed", g>>] \in {disk[<<"feed", g>>], Damaged}
  <2>1. DOMAIN disk = Path
    BY DEF ReleasesInv, DiskTyped, OnDisk
  <2>2. OnDisk' /\ DOMAIN disk' = Path
    BY <1>1, <2>1 DEF Put, PutBoth, OnDisk
  <2>3. disk'[<<dir, n>>] = x
    BY <1>1, <2>1 DEF Put, PutBoth
  <2>4. ASSUME NEW d \in {"installer", "redirect"}, NEW m \in Name
        PROVE  <<d, m>> \in Path /\ (<<d, m>> # <<dir, n>> => disk'[<<d, m>>] = disk[<<d, m>>])
    <3>1. <<d, m>> \in Path
      BY DEF Path
    <3> QED
      BY <1>1, <2>1, <3>1 DEF Put, PutBoth
  <2>5. ASSUME NEW g \in Feed
        PROVE  disk'[<<"feed", g>>] \in {disk[<<"feed", g>>], Damaged}
    <3>1. <<"feed", g>> \in Path
      BY DEF Path
    <3> QED
      BY <1>1, <2>1, <3>1 DEF Put, PutBoth
  <2> QED
    BY <2>2, <2>3, <2>4, <2>5
<1>3. ASSUME NEW g \in Feed, Generated(g)'
      PROVE  Generated(g) /\ disk'[<<"feed", g>>] = disk[<<"feed", g>>]
  BY <1>2, <1>3 DEF Generated
<1>4. ASSUME NEW m \in Name
      PROVE  /\ disk'[<<"installer", m>>] \in {NoFile, Damaged} \cup Build
             /\ disk'[<<"redirect", m>>] \in {NoFile, Damaged} \cup Url
  <2>1. /\ disk[<<"installer", m>>] \in {NoFile, Damaged} \cup Build
        /\ disk[<<"redirect", m>>] \in {NoFile, Damaged} \cup Url
    BY DEF ReleasesInv, DiskTyped
  <2>2. CASE <<"installer", m>> = <<dir, n>>
    BY <1>2, <2>1, <2>2
  <2>3. CASE <<"redirect", m>> = <<dir, n>>
    BY <1>2, <2>1, <2>3
  <2>4. CASE <<"installer", m>> # <<dir, n>> /\ <<"redirect", m>> # <<dir, n>>
    BY <1>2, <2>1, <2>4
  <2> QED
    BY <2>2, <2>3, <2>4
<1>5. DiskTyped'
  BY <1>2, <1>3, <1>4 DEF ReleasesInv, DiskTyped
<1>6. FeedsFollow'
  BY <1>3 DEF ReleasesInv, FeedsFollow
<1>7. ASSUME NEW g \in Feed, Generated(g)'
      PROVE  LET yml == disk'[<<"feed", g>>]
             IN  /\ disk'[Source(yml)] # NoFile
                 /\ Source(yml) \notin cut' =>
                        disk'[Source(yml)] = yml.what /\ yml.what # NoFile
  <2> DEFINE yml == disk[<<"feed", g>>]
  <2>1. Generated(g) /\ disk'[<<"feed", g>>] = yml
    BY <1>3, <1>7
  <2>2. /\ yml \in Description
        /\ disk[Source(yml)] # NoFile
        /\ Source(yml) \notin cut => disk[Source(yml)] = yml.what /\ yml.what # NoFile
    BY <2>1 DEF ReleasesInv, DiskTyped, FeedsBacked
  <2>3. PICK d \in {"installer", "redirect"}, m \in Name : Source(yml) = <<d, m>>
    BY <2>2 DEF Source, Description
  <2> HIDE DEF yml
  <2>4. CASE Source(yml) = <<dir, n>>
    BY <1>1, <1>2, <2>1, <2>4
  <2>5. CASE Source(yml) # <<dir, n>>
    BY <1>2, <2>1, <2>2, <2>3, <2>5
  <2> QED
    BY <2>4, <2>5
<1>8. FeedsBacked'
  BY <1>7 DEF FeedsBacked, Generated, Source
<1> QED
  BY <1>5, <1>6, <1>8 DEF ReleasesInv

\* The disk after a request that wrote an installer or a redirection and a feed.
Rewritten(dir, n, x, f, y) ==
    /\ OnDisk'
    /\ disk'[<<dir, n>>] = x
    /\ disk'[<<"feed", f>>] = y
    /\ \A d \in {"installer", "redirect"}, m \in Name :
           <<d, m>> # <<dir, n>> => disk'[<<d, m>>] = disk[<<d, m>>]
    /\ \A g \in Feed : g # f => disk'[<<"feed", g>>] = disk[<<"feed", g>>]

\* Such a request touches no other file.
LEMMA AfterPutBoth ==
  ASSUME OnDisk, NEW dir \in {"installer", "redirect"}, NEW n \in Name, NEW x,
         NEW f \in Feed, NEW y,
         disk' = PutBoth(<<dir, n>>, x, <<"feed", f>>, y)
  PROVE  Rewritten(dir, n, x, f, y)
<1>1. <<dir, n>> \in Path /\ <<"feed", f>> \in Path /\ <<dir, n>> # <<"feed", f>>
  BY DEF Path
<1>2. DOMAIN disk = Path
  BY DEF OnDisk
<1>3. OnDisk' /\ disk'[<<dir, n>>] = x /\ disk'[<<"feed", f>>] = y
  BY <1>1, <1>2 DEF Put, PutBoth, OnDisk
<1>4. ASSUME NEW d \in {"installer", "redirect"}, NEW m \in Name, <<d, m>> # <<dir, n>>
      PROVE  disk'[<<d, m>>] = disk[<<d, m>>]
  <2>1. <<d, m>> \in Path /\ <<d, m>> # <<"feed", f>>
    BY DEF Path
  <2> QED
    BY <1>1, <1>2, <1>4, <2>1 DEF Put, PutBoth
<1>5. ASSUME NEW g \in Feed, g # f
      PROVE  disk'[<<"feed", g>>] = disk[<<"feed", g>>]
  <2>1. <<"feed", g>> \in Path /\ <<"feed", g>> # <<"feed", f>> /\ <<"feed", g>> # <<dir, n>>
    BY <1>5 DEF Path
  <2> QED
    BY <1>1, <1>2, <2>1 DEF Put, PutBoth
<1> QED
  BY <1>3, <1>4, <1>5 DEF Rewritten

\* A request that writes a feed as well and is not cut short: its feed describes
\* the new file, and no other feed describes the old one.
LEMMA WholeKeeps ==
  ASSUME ReleasesInv, NEW n \in Name, NEW f \in Feed, NEW x, NEW by, NEW dir,
         \/ dir = "installer" /\ by = "upload" /\ n \in Versioned /\ f = FeedOf(n) /\ x \in Build
         \/ dir = "redirect" /\ by = "publish" /\ f = "latest.yml" /\ x \in Url,
         disk' = PutBoth(<<dir, n>>, x, <<"feed", f>>, Described(n, x, by)),
         cut' = cut \ {<<dir, n>>}
  PROVE  ReleasesInv'
<1>1. dir \in {"installer", "redirect"} /\ x # NoFile
  BY ReleasesAssumption
<1>2. /\ OnDisk'
      /\ disk'[<<dir, n>>] = x
      /\ disk'[<<"feed", f>>] = Described(n, x, by)
      /\ \A d \in {"installer", "redirect"}, m \in Name :
             <<d, m>> # <<dir, n>> => disk'[<<d, m>>] = disk[<<d, m>>]
      /\ \A g \in Feed : g # f => disk'[<<"feed", g>>] = disk[<<"feed", g>>]
  <2>1. OnDisk
    BY DEF ReleasesInv, DiskTyped
  <2>2. Rewritten(dir, n, x, f, Described(n, x, by))
    BY <1>1, <2>1, AfterPutBoth
  <2> QED
    BY <2>2 DEF Rewritten
<1>3. Described(n, x, by) \in Description
  BY DEF Described, Description
<1>4. ASSUME NEW g \in Feed, g # f, Generated(g)'
      PROVE  Generated(g) /\ disk'[<<"feed", g>>] = disk[<<"feed", g>>]
  BY <1>2, <1>4 DEF Generated
<1>5. DiskTyped'
  <2>1. ASSUME NEW m \in Name
        PROVE  /\ disk'[<<"installer", m>>] \in {NoFile, Damaged} \cup Build
               /\ disk'[<<"redirect", m>>] \in {NoFile, Damaged} \cup Url
    <3>1. /\ disk[<<"installer", m>>] \in {NoFile, Damaged} \cup Build
          /\ disk[<<"redirect", m>>] \in {NoFile, Damaged} \cup Url
      BY DEF ReleasesInv, DiskTyped
    <3>2. CASE <<"installer", m>> = <<dir, n>>
      BY <1>2, <3>1, <3>2
    <3>3. CASE <<"redirect", m>> = <<dir, n>>
      BY <1>2, <3>1, <3>3
    <3>4. CASE <<"installer", m>> # <<dir, n>> /\ <<"redirect", m>> # <<dir, n>>
      BY <1>2, <3>1, <3>4
    <3> QED
      BY <3>2, <3>3, <3>4
  <2>2. ASSUME NEW g \in Feed, Generated(g)'
        PROVE  disk'[<<"feed", g>>] \in Description
    BY <1>2, <1>3, <1>4, <2>2 DEF ReleasesInv, DiskTyped
  <2> QED
    BY <1>2, <2>1, <2>2 DEF DiskTyped
<1>6. FeedsFollow'
  <2>1. ASSUME NEW g \in Feed, Generated(g)'
        PROVE  LET yml == disk'[<<"feed", g>>]
               IN  IF yml.by = "upload" THEN yml.name \in Versioned /\ g = FeedOf(yml.name)
                                        ELSE g = "latest.yml"
    <3>1. CASE g = f
      BY <1>2, <3>1 DEF Described
    <3>2. CASE g # f
      BY <1>4, <2>1, <3>2 DEF ReleasesInv, FeedsFollow
    <3> QED
      BY <3>1, <3>2
  <2> QED
    BY <2>1 DEF FeedsFollow, Generated
<1>7. ASSUME NEW g \in Feed, Generated(g)'
      PROVE  LET yml == disk'[<<"feed", g>>]
             IN  /\ disk'[Source(yml)] # NoFile
                 /\ Source(yml) \notin cut' =>
                        disk'[Source(yml)] = yml.what /\ yml.what # NoFile
  <2>1. CASE g = f
    <3>1. Source(Described(n, x, by)) = <<dir, n>> /\ Described(n, x, by).what = x
      BY DEF Source, Described
    <3> QED
      BY <1>1, <1>2, <2>1, <3>1
  <2>2. CASE g # f
    <3> DEFINE yml == disk[<<"feed", g>>]
    <3>1. Generated(g) /\ disk'[<<"feed", g>>] = yml
      BY <1>4, <1>7, <2>2
    <3>2. /\ yml \in Description
          /\ disk[Source(yml)] # NoFile
          /\ Source(yml) \notin cut => disk[Source(yml)] = yml.what /\ yml.what # NoFile
          /\ IF yml.by = "upload" THEN yml.name \in Versioned /\ g = FeedOf(yml.name)
                                  ELSE g = "latest.yml"
      BY <3>1 DEF ReleasesInv, DiskTyped, FeedsBacked, FeedsFollow
    <3>3. PICK d \in {"installer", "redirect"}, m \in Name : Source(yml) = <<d, m>>
      BY <3>2 DEF Source, Description
    <3>4. Source(yml) # <<dir, n>>
      BY <2>2, <3>2 DEF Source, Description
    <3> HIDE DEF yml
    <3> QED
      BY <1>2, <3>1, <3>2, <3>3, <3>4
  <2> QED
    BY <2>1, <2>2
<1>8. FeedsBacked'
  BY <1>7 DEF FeedsBacked, Generated, Source
<1> QED
  BY <1>5, <1>6, <1>8 DEF ReleasesInv

\* An installer without a version in its name is described by no feed of the hub.
LEMMA UnversionedKeeps ==
  ASSUME ReleasesInv, NEW n \in Name, n \notin Versioned, NEW b \in Build,
         disk' = Put(<<"installer", n>>, b), cut' = cut \ {<<"installer", n>>}
  PROVE  ReleasesInv'
<1>1. <<"installer", n>> \in Path /\ DOMAIN disk = Path /\ b # NoFile
  BY ReleasesAssumption DEF ReleasesInv, DiskTyped, OnDisk, Path
<1>2. OnDisk' /\ disk'[<<"installer", n>>] = b
  BY <1>1 DEF Put, OnDisk
<1>3. ASSUME NEW p \in Path, p # <<"installer", n>> PROVE disk'[p] = disk[p]
  BY <1>1, <1>3 DEF Put
<1>4. ASSUME NEW g \in Feed PROVE disk'[<<"feed", g>>] = disk[<<"feed", g>>]
  BY <1>3, <<"feed", g>> \in Path DEF Path
<1>5. ASSUME NEW m \in Name PROVE disk'[<<"redirect", m>>] = disk[<<"redirect", m>>]
  BY <1>3, <<"redirect", m>> \in Path DEF Path
<1>6. ASSUME NEW m \in Name, m # n
      PROVE  disk'[<<"installer", m>>] = disk[<<"installer", m>>]
  BY <1>3, <1>6, <<"installer", m>> \in Path DEF Path
<1>7. DiskTyped'
  <2>1. ASSUME NEW m \in Name
        PROVE  /\ disk'[<<"installer", m>>] \in {NoFile, Damaged} \cup Build
               /\ disk'[<<"redirect", m>>] \in {NoFile, Damaged} \cup Url
    BY <1>2, <1>5, <1>6 DEF ReleasesInv, DiskTyped
  <2>2. ASSUME NEW g \in Feed, Generated(g)' PROVE disk'[<<"feed", g>>] \in Description
    BY <1>4, <2>2 DEF ReleasesInv, DiskTyped, Generated
  <2> QED
    BY <1>2, <2>1, <2>2 DEF DiskTyped
<1>8. FeedsFollow'
  BY <1>4 DEF ReleasesInv, FeedsFollow, Generated
<1>9. ASSUME NEW g \in Feed, Generated(g)'
      PROVE  LET yml == disk'[<<"feed", g>>]
             IN  /\ disk'[Source(yml)] # NoFile
                 /\ Source(yml) \notin cut' =>
                        disk'[Source(yml)] = yml.what /\ yml.what # NoFile
  <2> DEFINE yml == disk[<<"feed", g>>]
  <2>1. Generated(g) /\ disk'[<<"feed", g>>] = yml
    BY <1>4, <1>9 DEF Generated
  <2>2. /\ yml \in Description
        /\ disk[Source(yml)] # NoFile
        /\ Source(yml) \notin cut => disk[Source(yml)] = yml.what /\ yml.what # NoFile
        /\ yml.by = "upload" => yml.name \in Versioned
    BY <2>1 DEF ReleasesInv, DiskTyped, FeedsBacked, FeedsFollow
  <2>3. Source(yml) \in Path /\ Source(yml) # <<"installer", n>>
    BY <2>2 DEF Source, Description, Path
  <2> HIDE DEF yml
  <2> QED
    BY <1>3, <2>1, <2>2, <2>3
<1>10. FeedsBacked'
  BY <1>9 DEF FeedsBacked, Generated, Source
<1> QED
  BY <1>7, <1>8, <1>10 DEF ReleasesInv

\* A feed of the build tools, or what is left of it, takes the place of one of
\* the hub.
LEMMA HandMadeKeeps ==
  ASSUME ReleasesInv, NEW f \in Feed, NEW x \in {HandMade, Damaged},
         disk' = Put(<<"feed", f>>, x), UNCHANGED cut
  PROVE  ReleasesInv'
<1>1. <<"feed", f>> \in Path /\ DOMAIN disk = Path
  BY DEF ReleasesInv, DiskTyped, OnDisk, Path
<1>2. OnDisk' /\ disk'[<<"feed", f>>] = x
  BY <1>1 DEF Put, OnDisk
<1>3. ASSUME NEW p \in Path, p # <<"feed", f>> PROVE disk'[p] = disk[p]
  BY <1>1, <1>3 DEF Put
<1>4. ASSUME NEW g \in Feed, Generated(g)'
      PROVE  Generated(g) /\ disk'[<<"feed", g>>] = disk[<<"feed", g>>]
  <2>1. g # f
    BY <1>2, <1>4 DEF Generated
  <2>2. <<"feed", g>> \in Path /\ <<"feed", g>> # <<"feed", f>>
    BY <2>1 DEF Path
  <2> QED
    BY <1>3, <1>4, <2>2 DEF Generated
<1>5. ASSUME NEW d \in {"installer", "redirect"}, NEW m \in Name
      PROVE  <<d, m>> \in Path /\ disk'[<<d, m>>] = disk[<<d, m>>]
  <2>1. <<d, m>> \in Path /\ <<d, m>> # <<"feed", f>>
    BY DEF Path
  <2> QED
    BY <1>3, <2>1
<1>6. DiskTyped'
  <2>1. ASSUME NEW m \in Name
        PROVE  /\ disk'[<<"installer", m>>] \in {NoFile, Damaged} \cup Build
               /\ disk'[<<"redirect", m>>] \in {NoFile, Damaged} \cup Url
    BY <1>5 DEF ReleasesInv, DiskTyped
  <2>2. ASSUME NEW g \in Feed, Generated(g)' PROVE disk'[<<"feed", g>>] \in Description
    BY <1>4, <2>2 DEF ReleasesInv, DiskTyped
  <2> QED
    BY <1>2, <2>1, <2>2 DEF DiskTyped
<1>7. FeedsFollow'
  BY <1>4 DEF ReleasesInv, FeedsFollow
<1>8. ASSUME NEW g \in Feed, Generated(g)'
      PROVE  LET yml == disk'[<<"feed", g>>]
             IN  /\ disk'[Source(yml)] # NoFile
                 /\ Source(yml) \notin cut' =>
                        disk'[Source(yml)] = yml.what /\ yml.what # NoFile
  <2> DEFINE yml == disk[<<"feed", g>>]
  <2>1. Generated(g) /\ disk'[<<"feed", g>>] = yml
    BY <1>4, <1>8
  <2>2. /\ yml \in Description
        /\ disk[Source(yml)] # NoFile
        /\ Source(yml) \notin cut => disk[Source(yml)] = yml.what /\ yml.what # NoFile
    BY <2>1 DEF ReleasesInv, DiskTyped, FeedsBacked
  <2>3. PICK d \in {"installer", "redirect"}, m \in Name : Source(yml) = <<d, m>>
    BY <2>2 DEF Source, Description
  <2> HIDE DEF yml
  <2> QED
    BY <1>5, <2>1, <2>2, <2>3
<1>9. FeedsBacked'
  BY <1>8 DEF FeedsBacked, Generated, Source
<1> QED
  BY <1>6, <1>7, <1>9 DEF ReleasesInv

\* An upload, whole or cut short.
LEMMA UploadKeeps ==
  ASSUME ReleasesInv, NEW n \in Name, NEW b \in Build, Upload(n, b)
  PROVE  ReleasesInv'
<1> DEFINE p == <<"installer", n>>
           w == UploadWrites(n, b)
<1>1. OnDisk /\ p \in Path
  BY DEF ReleasesInv, DiskTyped, Path
<1>2. \/ WriteAll(w) /\ cut' = cut \ {p}
      \/ WriteSome(w) /\ cut' = cut \cup {p}
  BY DEF Upload
<1>3. CASE n \in Versioned
  <2> DEFINE f == FeedOf(n)
             y == Described(n, b, "upload")
             q == <<"feed", f>>
  <2>1. f \in Feed /\ q \in Path /\ p # q
    BY DEF Feed, FeedOf, Path
  <2>2. w = <<[path |-> p, contents |-> b], [path |-> q, contents |-> y]>>
    <3>1. w = <<Write("installer", n, b)>> \o <<Write("feed", f, y)>>
      BY <1>3 DEF UploadWrites
    <3>2. ASSUME NEW s, NEW t PROVE <<s>> \o <<t>> = <<s, t>>
      <4> DEFINE A == {s, t}
      <4>1. <<s>> \in Seq(A) /\ <<t>> \in Seq(A) /\ <<s, t>> \in Seq(A)
        OBVIOUS
      <4>2. Len(<<s>> \o <<t>>) = 2
        BY <4>1
      <4>3. (<<s>> \o <<t>>)[1] = s /\ (<<s>> \o <<t>>)[2] = t
        BY <4>1
      <4>4. <<s>> \o <<t>> \in Seq(A)
        BY <4>1
      <4> HIDE DEF A
      <4> QED
        <5>1. \A i \in 1..2 : (<<s>> \o <<t>>)[i] = <<s, t>>[i]
          BY <4>3
        <5> QED
          BY <4>1, <4>2, <4>4, <5>1, SeqEqual
    <3> QED
      BY <3>1, <3>2 DEF Write
  <2> HIDE DEF w, y, p, q
  <2>3. /\ WriteAll(w) => disk' = PutBoth(p, b, q, y)
        /\ WriteSome(w) =>
               disk' \in {Put(p, Damaged), Put(p, b), PutBoth(p, b, q, Damaged)}
    BY <1>1, <2>1, <2>2, TwoWrites
  <2>4. CASE WriteAll(w) /\ cut' = cut \ {p}
    BY <1>3, <2>1, <2>3, <2>4, WholeKeeps DEF p, q, y
  <2>5. CASE WriteSome(w) /\ cut' = cut \cup {p}
    <3>1. CASE disk' = Put(p, Damaged)
      BY <2>1, <2>5, <3>1, CutKeeps DEF p
    <3>2. CASE disk' \in {Put(p, b), PutBoth(p, b, q, Damaged)}
      BY <2>1, <2>5, <3>2, CutKeeps DEF p, q
    <3> QED
      BY <2>3, <2>5, <3>1, <3>2
  <2> QED
    BY <1>2, <2>4, <2>5
<1>4. CASE n \notin Versioned
  <2>1. w = <<[path |-> p, contents |-> b]>>
    BY <1>4 DEF UploadWrites, Write
  <2> HIDE DEF w, p
  <2>2. /\ WriteAll(w) => disk' = Put(p, b)
        /\ WriteSome(w) => disk' = Put(p, Damaged)
    BY <1>1, <2>1, OneWrite
  <2>3. CASE WriteAll(w) /\ cut' = cut \ {p}
    BY <1>4, <2>2, <2>3, UnversionedKeeps DEF p
  <2>4. CASE WriteSome(w) /\ cut' = cut \cup {p}
    BY <2>2, <2>4, CutKeeps, "latest.yml" \in Feed DEF p, Feed
  <2> QED
    BY <1>2, <2>3, <2>4
<1> QED
  BY <1>3, <1>4

\* A publication, whole or cut short.
LEMMA PublishKeeps ==
  ASSUME ReleasesInv, NEW n \in Name, NEW u \in Url, Publish(n, u)
  PROVE  ReleasesInv'
<1> DEFINE p == <<"redirect", n>>
           w == PublishWrites(n, u)
           y == Described(n, u, "publish")
           q == <<"feed", "latest.yml">>
<1>1. OnDisk /\ p \in Path /\ "latest.yml" \in Feed /\ q \in Path /\ p # q
  BY DEF ReleasesInv, DiskTyped, Path, Feed
<1>2. \/ WriteAll(w) /\ cut' = cut \ {p}
      \/ WriteSome(w) /\ cut' = cut \cup {p}
  BY DEF Publish
<1>3. w = <<[path |-> p, contents |-> u], [path |-> q, contents |-> y]>>
  BY DEF PublishWrites, Write
<1> HIDE DEF w, y, p, q
<1>4. /\ WriteAll(w) => disk' = PutBoth(p, u, q, y)
      /\ WriteSome(w) =>
             disk' \in {Put(p, Damaged), Put(p, u), PutBoth(p, u, q, Damaged)}
  BY <1>1, <1>3, TwoWrites
<1>5. CASE WriteAll(w) /\ cut' = cut \ {p}
  BY <1>1, <1>4, <1>5, WholeKeeps DEF p, q, y
<1>6. CASE WriteSome(w) /\ cut' = cut \cup {p}
  <2>1. CASE disk' = Put(p, Damaged)
    BY <1>1, <1>6, <2>1, CutKeeps DEF p
  <2>2. CASE disk' \in {Put(p, u), PutBoth(p, u, q, Damaged)}
    BY <1>1, <1>6, <2>2, CutKeeps DEF p, q
  <2> QED
    BY <1>4, <1>6, <2>1, <2>2
<1> QED
  BY <1>2, <1>5, <1>6

\* The empty disk.
LEMMA ReleasesInvInit == ReleasesInit => ReleasesInv
<1> SUFFICES ASSUME ReleasesInit PROVE ReleasesInv
  OBVIOUS
<1>1. OnDisk /\ \A p \in Path : disk[p] = NoFile
  BY DEF ReleasesInit, OnDisk
<1>2. ASSUME NEW f \in Feed PROVE ~Generated(f)
  BY <1>1, <<"feed", f>> \in Path DEF Generated, Path
<1>3. ASSUME NEW n \in Name
      PROVE  disk[<<"installer", n>>] = NoFile /\ disk[<<"redirect", n>>] = NoFile
  BY <1>1, <<"installer", n>> \in Path, <<"redirect", n>> \in Path DEF Path
<1> QED
  BY <1>1, <1>2, <1>3 DEF ReleasesInv, DiskTyped, FeedsFollow, FeedsBacked

\* Every request keeps the invariant, also when the process dies in it.
LEMMA ReleasesInvNext == ReleasesInv /\ [ReleasesNext]_releasesVars => ReleasesInv'
<1> SUFFICES ASSUME ReleasesInv, [ReleasesNext]_releasesVars PROVE ReleasesInv'
  OBVIOUS
<1>1. CASE \E n \in Name, b \in Build : Upload(n, b)
  BY <1>1, UploadKeeps
<1>2. CASE \E n \in Name, u \in Url : Publish(n, u)
  BY <1>2, PublishKeeps
<1>3. ASSUME NEW f \in Feed, UploadFeed(f) PROVE ReleasesInv'
  <2> DEFINE w == FeedWrites(f)
             p == <<"feed", f>>
  <2>1. (WriteAll(w) \/ WriteSome(w)) /\ UNCHANGED cut
    BY <1>3 DEF UploadFeed
  <2>2. w = <<[path |-> p, contents |-> HandMade]>> /\ p \in Path /\ OnDisk
    BY DEF FeedWrites, Write, Path, ReleasesInv, DiskTyped
  <2> HIDE DEF w, p
  <2>3. disk' \in {Put(p, HandMade), Put(p, Damaged)}
    BY <2>1, <2>2, OneWrite
  <2> QED
    BY <2>1, <2>3, HandMadeKeeps DEF p
<1>4. CASE UNCHANGED releasesVars
  BY <1>4 DEF releasesVars, ReleasesInv, DiskTyped, OnDisk, FeedsFollow, FeedsBacked,
              Generated, Source
<1> QED
  BY <1>1, <1>2, <1>3, <1>4 DEF ReleasesNext

\* A name that a feed of the hub gives leads to a file.
LEMMA FeedsLead == ReleasesInv => FeedLeadsSomewhere
<1> SUFFICES ASSUME ReleasesInv, NEW f \in Feed, Generated(f)
             PROVE  Download(disk[<<"feed", f>>].name) # NoFile
  BY DEF FeedLeadsSomewhere
<1>1. disk[<<"feed", f>>] \in Description /\ disk[Source(disk[<<"feed", f>>])] # NoFile
  BY DEF ReleasesInv, DiskTyped, FeedsBacked
<1> QED
  BY <1>1 DEF Source, Description, Download

\* The file a client gets is the one the feed describes: a redirection that was
\* not published with the feed, or a file being overwritten, aside.
LEMMA FeedsDescribe == ReleasesInv => FeedDescribesDownload
<1> SUFFICES ASSUME ReleasesInv, NEW f \in Feed, NEW yml, yml = disk[<<"feed", f>>],
                    Generated(f), Source(yml) \notin cut, ~Redirected(yml)
             PROVE  Download(yml.name) = yml.what
  BY DEF FeedDescribesDownload
<1>1. yml \in Description /\ disk[Source(yml)] = yml.what /\ yml.what # NoFile
  BY DEF ReleasesInv, DiskTyped, FeedsBacked
<1> QED
  BY <1>1 DEF Source, Description, Redirected, Download

\* A client that follows a feed the hub has written never asks in vain.
THEOREM FeedLeadsCorrect == ReleasesSpec => []FeedLeadsSomewhere
BY ReleasesInvInit, ReleasesInvNext, FeedsLead, PTL DEF ReleasesSpec

\* What a client gets is what the feed describes.
THEOREM FeedDescribesCorrect == ReleasesSpec => []FeedDescribesDownload
BY ReleasesInvInit, ReleasesInvNext, FeedsDescribe, PTL DEF ReleasesSpec
-----------------------------------------------------------------------------
(* Keys and certificates *)

\* The CA's files: the key comes first, and a readable certificate is for it.
CAFiles ==
    /\ caKey = Missing => caCert = Missing
    /\ caCert \notin {Missing, Unreadable} => caKey = caCert
    /\ phase # "down" => HasCA

\* A server certificate is there only with a key and a CA that issued it, and
\* is never reused with another key.
ServerFiles ==
    /\ serverKey = Missing => serverCert = Missing
    /\ serverCert \notin {Missing, Unreadable} =>
           caCert \in Key /\ serverCert.issuer = caCert
    /\ Reusable => serverCert.key = serverKey

\* What a serving process loaded is a pair of this CA with enough days left.
Loaded ==
    phase = "serving" =>
        /\ serving \in [key : Key, cert : Cert, since : 0..MaxDay]
        /\ caCert \in Key
        /\ serving.cert.key = serving.key
        /\ serving.cert.issuer = caCert
        /\ serving.cert.until - serving.since > RenewBefore

\* What clients hold is recorded and of this CA.
Holders ==
    \A d \in Device : held[d] # Missing =>
        caCert \in Key /\ held[d] \in recorded /\ held[d].issuer = caCert

\* The inductive invariant.
TlsInv == TlsTypeOK /\ CAFiles /\ ServerFiles /\ Loaded /\ Holders

-----------------------------------------------------------------------------
\* The invariant holds of an empty data directory.
LEMMA TlsInvInit == TlsInit => TlsInv
  BY TlsAssumption DEF TlsInit, TlsInv, TlsTypeOK, CAFiles, ServerFiles, Loaded, Holders,
     Reusable, HasCA, Key

\* A readable CA certificate is for the key in ca-key.pem, and is a key.
LEMMA ReadableCA ==
  ASSUME TlsInv, HasCA, Unreadable \notin {caKey, caCert}
  PROVE  caKey = caCert /\ caKey \in Key
  BY DEF TlsInv, TlsTypeOK, CAFiles, HasCA

\* A new certificate is well formed.
LEMMA IssuedIsCert ==
  ASSUME TlsInv, keys < MaxKeys, caKey \in Key
  PROVE  /\ keys \in Key
         /\ Issued(keys) \in Cert
         /\ Issued(keys).key = keys
         /\ Issued(keys).issuer = caKey
         /\ Issued(keys).until = today + Validity
  BY TlsAssumption DEF TlsInv, TlsTypeOK, Issued, Cert, Key

\* No step of the program breaks the invariant.
LEMMA TlsInvNext == TlsInv /\ [TlsNext]_tlsVars => TlsInv'
<1> SUFFICES ASSUME TlsInv, [TlsNext]_tlsVars PROVE TlsInv'
  OBVIOUS
<1> USE TlsAssumption, TlsNoCert
<1>0. /\ today \in Nat /\ keys \in Nat
      /\ \A k \in Key : k \notin {Missing, Unreadable}
      /\ \A c \in Cert : c \notin {Missing, Unreadable}
  BY DEF TlsInv, TlsTypeOK, Key
<1>1. CASE LoadCA
  BY <1>1 DEF LoadCA, TlsInv, TlsTypeOK, CAFiles, ServerFiles, Loaded, Holders, Reusable,
     HasCA, files, clients
<1>2. CASE GenerateCA
  <2>1. keys \in Key /\ keys' \in 0..MaxKeys
    BY <1>2 DEF GenerateCA, NewKey, TlsInv, TlsTypeOK, Key
  <2>2. caCert = Missing
    BY <1>2 DEF GenerateCA, HasCA, TlsInv, CAFiles
  <2> QED
    BY <1>0, <1>2, <2>1, <2>2 DEF GenerateCA, TlsInv, TlsTypeOK, CAFiles, ServerFiles, Loaded,
       Holders, Reusable, HasCA, clients
<1>3. CASE GenerateCADies
  <2>1. keys \in Key /\ keys' \in 0..MaxKeys
    BY <1>3 DEF GenerateCADies, NewKey, TlsInv, TlsTypeOK, Key
  <2>2. caCert = Missing
    BY <1>3 DEF GenerateCADies, HasCA, TlsInv, CAFiles
  <2> QED
    BY <1>0, <1>3, <2>1, <2>2 DEF GenerateCADies, TlsInv, TlsTypeOK, CAFiles, ServerFiles,
       Loaded, Holders, Reusable, HasCA, clients
<1>4. CASE LoadServerCert
  <2>1. serverCert \in Cert /\ serverKey \in Key /\ serverCert.key = serverKey
    BY <1>4, <1>0 DEF LoadServerCert, Reusable, TlsInv, TlsTypeOK, ServerFiles, Cert
  <2>2. serving' \in [key : Key, cert : Cert, since : 0..MaxDay]
    BY <1>4, <2>1 DEF LoadServerCert, Serve, TlsInv, TlsTypeOK
  <2>3. Loaded'
    BY <1>0, <1>4, <2>1, <2>2 DEF LoadServerCert, Serve, Reusable, Loaded, TlsInv, ServerFiles,
       files
  <2> QED
    BY <1>4, <2>2, <2>3 DEF LoadServerCert, Serve, TlsInv, TlsTypeOK, CAFiles, ServerFiles,
       Holders, Reusable, HasCA, files, clients
<1>5. CASE GenerateServerCert
  <2>1. caKey = caCert /\ caKey \in Key
    BY <1>5, ReadableCA DEF GenerateServerCert, TlsInv, CAFiles
  <2>2. /\ keys \in Key /\ keys' \in 0..MaxKeys
        /\ Issued(keys) \in Cert
        /\ Issued(keys).key = keys
        /\ Issued(keys).issuer = caCert
        /\ Issued(keys).until = today + Validity
    BY <1>5, <2>1, IssuedIsCert DEF GenerateServerCert, NewKey, TlsInv, TlsTypeOK
  <2>3. serving' \in [key : Key, cert : Cert, since : 0..MaxDay]
    BY <1>5, <2>2 DEF GenerateServerCert, Serve, TlsInv, TlsTypeOK
  <2>4. Loaded'
    BY <1>0, <1>5, <2>1, <2>2, <2>3 DEF GenerateServerCert, Serve, Loaded
  <2> QED
    BY <1>0, <1>5, <2>1, <2>2, <2>3, <2>4 DEF GenerateServerCert, Serve, TlsInv, TlsTypeOK, CAFiles,
       ServerFiles, Holders, Reusable, HasCA, clients
<1>6. CASE GenerateServerCertDies
  <2>1. keys \in Key /\ keys' \in 0..MaxKeys
    BY <1>6 DEF GenerateServerCertDies, NewKey, TlsInv, TlsTypeOK, Key
  <2>2. ~Reusable'
    BY <1>0, <1>6 DEF GenerateServerCertDies, Reusable, TlsInv, ServerFiles, TlsTypeOK
  <2> QED
    BY <1>0, <1>6, <2>1, <2>2 DEF GenerateServerCertDies, TlsInv, TlsTypeOK, CAFiles,
       ServerFiles, Loaded, Holders, HasCA, clients
<1>7. CASE Stop
  BY <1>7 DEF Stop, TlsInv, TlsTypeOK, CAFiles, ServerFiles, Loaded, Holders, Reusable, HasCA,
     files, clients
<1>8. ASSUME NEW d \in Device, phase = "serving", Sign(d) PROVE TlsInv'
  <2>1. caKey = caCert /\ caKey \in Key
    BY <1>0, <1>8 DEF TlsInv, CAFiles, Loaded
  <2>2. /\ keys' \in 0..MaxKeys
        /\ Issued(keys) \in Cert
        /\ Issued(keys).issuer = caCert
    BY <1>8, <2>1, IssuedIsCert DEF Sign, NewKey, TlsInv, TlsTypeOK
  <2>3. held' \in [Device -> Cert \cup {Missing}] /\ recorded' \subseteq Cert
    BY <1>8, <2>2 DEF Sign, TlsInv, TlsTypeOK
  <2>4. Holders'
    BY <1>8, <2>1, <2>2 DEF Sign, TlsInv, TlsTypeOK, Holders, files
  <2> QED
    BY <1>8, <2>2, <2>3, <2>4 DEF Sign, TlsInv, TlsTypeOK, CAFiles, ServerFiles, Loaded,
       Reusable, HasCA, files
<1>9. CASE NextDay
  <2>1. Reusable' => Reusable
    BY <1>0, <1>9 DEF NextDay, Reusable, TlsInv, TlsTypeOK, Cert, files
  <2> QED
    BY <1>9, <2>1 DEF NextDay, TlsInv, TlsTypeOK, CAFiles, ServerFiles, Loaded, Holders, HasCA,
       files, clients
<1>10. CASE UNCHANGED tlsVars
  BY <1>10 DEF tlsVars, TlsInv, TlsTypeOK, CAFiles, ServerFiles, Loaded, Holders, Reusable,
     HasCA, files, clients
<1> QED
  BY <1>1, <1>2, <1>3, <1>4, <1>5, <1>6, <1>7, <1>8, <1>9, <1>10 DEF TlsNext, Enrol, Renew

\* The invariant holds of every reachable state.
LEMMA TlsInvariant == TlsSpec => []TlsInv
  BY TlsInvInit, TlsInvNext, PTL DEF TlsSpec
-----------------------------------------------------------------------------
\* Every variable keeps its type; what is served is never a damaged file.
THEOREM TlsTypeCorrect == TlsSpec => []TlsTypeOK
<1>1. TlsInv => TlsTypeOK
  BY DEF TlsInv
<1> QED
  BY <1>1, TlsInvariant, PTL

\* generateServerCert never returns a key with another key's certificate.
THEOREM PairCorrect == TlsSpec => []ServesMatchingPair
<1>1. TlsInv => ServesMatchingPair
  BY DEF TlsInv, Loaded, ServesMatchingPair
<1> QED
  BY <1>1, TlsInvariant, PTL

\* For RenewBefore days after a start the served certificate is good.
THEOREM FreshCorrect == TlsSpec => []FreshAfterStart
<1>1. TlsInv => FreshAfterStart
  <2> SUFFICES ASSUME TlsInv, phase = "serving", today - serving.since <= RenewBefore
               PROVE  today < serving.cert.until
    BY DEF FreshAfterStart
  <2>1. serving.cert.until - serving.since > RenewBefore
    BY DEF TlsInv, Loaded
  <2>2. serving.cert.until \in Int /\ serving.since \in Int /\ today \in Int
    BY TlsAssumption DEF TlsInv, TlsTypeOK, Loaded, Cert
  <2> QED
    BY <2>1, <2>2, TlsAssumption
<1> QED
  BY <1>1, TlsInvariant, PTL

\* initCA never replaces a CA that has signed anything in use.
THEOREM CAStays == TlsSpec => []ClientsKeepTheirCA
<1>1. TlsInv => ClientsKeepTheirCA
  BY DEF TlsInv, Loaded, Holders, ClientsKeepTheirCA
<1> QED
  BY <1>1, TlsInvariant, PTL
=============================================================================
