---------------------------- MODULE PolicyProofs ----------------------------
(***************************************************************************)
(* Proofs about LedgerPolicy, for all limits and configurations: under the *)
(* policy the ledger is still the ledger, so what holds of Ledger holds    *)
(* here; and a limit is exceeded by one entry at most.                     *)
(***************************************************************************)
EXTENDS LedgerPolicy, LedgerProofs

\* The policy only restricts the ledger: every step of the composition is a step
\* of the ledger or leaves it alone.
LEMMA PolicyStepIsLedgerStep == [PolicyNext]_allVars => [Next]_vars
<1> SUFFICES ASSUME [PolicyNext]_allVars PROVE [Next]_vars
  OBVIOUS
<1>1. CASE \E ev \in EventId \cup {AutoId}, u \in Payer, v \in Payee, n \in Amount, action \in ActionType :
               LimitedTransfer(ev, u, v, n, action)
  BY <1>1 DEF LimitedTransfer, Next
<1>2. CASE \E u \in Payer, n \in Amount : LimitedLock(u, n)
  BY <1>2 DEF LimitedLock, Next
<1>3. CASE \E u \in Payer, n \in Amount : LimitedDispute(u, n)
  BY <1>3 DEF LimitedDispute, Next
<1>4. CASE \E u \in Payer, v \in Payee, n \in Amount : LimitedConfirm(u, v, n)
  BY <1>4 DEF LimitedConfirm, Next
<1>5. CASE LimitedFee
  BY <1>5 DEF LimitedFee, Next
<1>6. CASE \E u \in Party, n \in Amount : FreeGrant(u, n)
  BY <1>6 DEF FreeGrant, Next
<1>7. CASE \E u \in Administered, f \in FlagChoice : Exempting(u, f)
  BY <1>7 DEF Exempting, Next
<1>8. CASE Passing
  BY <1>8 DEF Passing, Next
<1>9. CASE \E l \in LimitChoice : SetLimit(l)
  BY <1>9 DEF SetLimit
<1>10. CASE \E c \in ConfigChoice : SetConfig(c)
  BY <1>10 DEF SetConfig
<1>11. CASE RowAges
  BY <1>11 DEF RowAges
<1>12. CASE UNCHANGED allVars
  BY <1>12 DEF allVars
<1> QED
  BY <1>1, <1>2, <1>3, <1>4, <1>5, <1>6, <1>7, <1>8, <1>9, <1>10, <1>11, <1>12 DEF PolicyNext

\* The ledger under limits and configurations is a ledger: every theorem about
\* Spec holds of PolicySpec too.
THEOREM PolicyImplementsLedger == PolicySpec => Spec
<1>1. PolicyInit => Init
  BY DEF PolicyInit
<1> QED
  BY <1>1, PolicyStepIsLedgerStep, PTL DEF PolicySpec, Spec

\* The breaker under the policy: closed means healthy, and it closes after its
\* streak of successes only.
THEOREM PolicyBreakerCorrect == PolicySpec => []ClosedMeansHealthy /\ ClosesAfterStreak
  BY PolicyImplementsLedger, HealthCorrect, ClosingCorrect, PTL
-----------------------------------------------------------------------------
(* The tables of the policy *)

\* What a step may do to the three tables: one row is added by an entry that
\* met the policy, the oldest row leaves, or an administrator changes a limit
\* or a configuration.
EntryCounted ==
    \E from, to \in Account, n \in Nat, action \in ActionType : Policy(from, to, n, action)

TablesMove ==
    \/ EntryCounted
    \/ RowAges
    \/ /\ UNCHANGED recent
       /\ limits' \subseteq LimitChoice
       /\ configs' \subseteq ConfigChoice

\* Every step moves the tables in one of these ways.
LEMMA PolicyStepMoves ==
  ASSUME TypeOK, limits \subseteq LimitChoice, configs \subseteq ConfigChoice,
         [PolicyNext]_allVars
  PROVE  TablesMove
<1> USE LedgerAssumption
<1>1. ASSUME NEW ev, NEW u \in Party, NEW v \in Party, NEW n \in Amount, NEW action \in ActionType,
             LimitedTransfer(ev, u, v, n, action)
      PROVE  TablesMove
  BY <1>1, AccountsTyped DEF LimitedTransfer, TablesMove, EntryCounted
<1>2. ASSUME NEW u \in Party, NEW n \in Amount, LimitedLock(u, n) PROVE TablesMove
  BY <1>2, AccountsTyped, "escrow_lock" \in ActionType
     DEF LimitedLock, TablesMove, EntryCounted, ActionType
<1>3. ASSUME NEW u \in Party, NEW n \in Amount, LimitedDispute(u, n) PROVE TablesMove
  BY <1>3, AccountsTyped, "debit" \in ActionType
     DEF LimitedDispute, TablesMove, EntryCounted, ActionType
<1>4. ASSUME NEW u \in Party, NEW v \in Party, NEW n \in Amount, LimitedConfirm(u, v, n)
      PROVE  TablesMove
  <2>1. n - PlatformFee(n) \in Nat
    BY DEF PlatformFee
  <2>2. Escrow(u) \in Account /\ Revenue(v) \in Account /\ "debit" \in ActionType
    BY AccountsTyped DEF ActionType
  <2>3. Policy(Escrow(u), Revenue(v), n - PlatformFee(n), "debit")
    BY <1>4 DEF LimitedConfirm
  <2> QED
    BY <2>1, <2>2, <2>3 DEF TablesMove, EntryCounted
<1>5. CASE LimitedFee
  <2>1. fee.payee \in Party /\ fee.gross \in Nat
    BY DEF TypeOK, Confirmation
  <2>2. Revenue(fee.payee) \in Account /\ Main(System) \in Account /\ PlatformFee(fee.gross) \in Nat
    BY <2>1, AccountsTyped, FeeTyped DEF Party
  <2>3. Policy(Revenue(fee.payee), Main(System), PlatformFee(fee.gross), "debit")
    BY <1>5 DEF LimitedFee
  <2>4. "debit" \in ActionType
    BY DEF ActionType
  <2> QED
    BY <2>2, <2>3, <2>4 DEF TablesMove, EntryCounted
<1>6. ASSUME UNCHANGED policy PROVE TablesMove
  BY <1>6 DEF policy, TablesMove
<1>7. CASE \E u \in Party, n \in Amount : FreeGrant(u, n)
  BY <1>6, <1>7 DEF FreeGrant
<1>8. CASE \E u \in Administered, f \in FlagChoice : Exempting(u, f)
  BY <1>6, <1>8 DEF Exempting
<1>9. CASE Passing
  BY <1>6, <1>9 DEF Passing
<1>10. CASE \E l \in LimitChoice : SetLimit(l)
  BY <1>10 DEF SetLimit, TablesMove
<1>11. CASE \E c \in ConfigChoice : SetConfig(c)
  BY <1>11 DEF SetConfig, TablesMove
<1>12. CASE RowAges
  BY <1>12 DEF TablesMove
<1>13. CASE UNCHANGED allVars
  BY <1>6, <1>13 DEF allVars
<1>p. Payer \subseteq Party /\ Payee \subseteq Party
  OBVIOUS
<1> QED
  BY <1>p, <1>1, <1>2, <1>3, <1>4, <1>5, <1>7, <1>8, <1>9, <1>10, <1>11, <1>12, <1>13 DEF PolicyNext

\* The tables of the policy keep their types.
LEMMA PolicyTypeNext ==
  PolicyTypeOK /\ TypeOK' /\ [PolicyNext]_allVars => PolicyTypeOK'
<1> SUFFICES ASSUME PolicyTypeOK, TypeOK', [PolicyNext]_allVars PROVE PolicyTypeOK'
  OBVIOUS
<1>1. TablesMove
  BY PolicyStepMoves DEF PolicyTypeOK
<1>2. ASSUME NEW from \in Account, NEW to \in Account, NEW n \in Nat, NEW action \in ActionType,
             Policy(from, to, n, action)
      PROVE  PolicyTypeOK'
  <2>1. UNCHANGED <<limits, configs>>
    BY <1>2 DEF Policy
  <2> DEFINE r == [from |-> from, to |-> to, amount |-> n, under |-> Applicable(from, action)]
  <2>2. r \in Row
    BY DEF Row, Applicable, PolicyTypeOK
  <2>3. recent' = Append(recent, r) \/ recent' = recent
    BY <1>2 DEF Policy
  <2> HIDE DEF r
  <2>4. recent' \in Seq(Row)
    BY <2>2, <2>3 DEF PolicyTypeOK
  <2> QED
    BY <2>1, <2>4 DEF PolicyTypeOK
<1>3. CASE RowAges
  BY <1>3 DEF RowAges, PolicyTypeOK
<1>4. CASE UNCHANGED recent /\ limits' \subseteq LimitChoice /\ configs' \subseteq ConfigChoice
  BY <1>4 DEF PolicyTypeOK
<1> QED
  BY <1>1, <1>2, <1>3, <1>4 DEF TablesMove, EntryCounted

\* The ledger and the tables of the policy are well typed.
THEOREM PolicyTypeCorrect == PolicySpec => []PolicyTypeOK
<1>1. PolicyInit /\ TypeOK => PolicyTypeOK
  BY DEF PolicyInit, PolicyTypeOK
<1> QED
  BY <1>1, PolicyTypeNext, PolicyImplementsLedger, TypeCorrect, PTL DEF PolicySpec
-----------------------------------------------------------------------------
(* More about sums *)

Summable(f, S) == IsFiniteSet(S) /\ \A x \in S : f[x] \in Int

\* The sum over a set, one element at a time, in the order of the fold.
LEMMA SumByPick ==
  ASSUME NEW f, NEW S, Summable(f, S)
  PROVE  /\ SumFunctionOnSet(f, S) \in Int
         /\ SumFunctionOnSet(f, {}) = 0
         /\ S # {} => SumFunctionOnSet(f, S) = f[Pick(S)] + SumFunctionOnSet(f, S \ {Pick(S)})
<1>1. SumsUp(Sums(f, S), f, SUBSET S)
  BY SumsRecurse DEF Summable
<1>2. SumFunctionOnSet(f, S) \in Int
  BY <1>1, SumIsFold DEF SumsUp
<1>3. SumsUp(Sums(f, {}), f, SUBSET {})
  BY SumsRecurse, FS_EmptySet
<1>4. SumFunctionOnSet(f, {}) = 0
  BY <1>3, SumIsFold DEF SumsUp
<1>5. ASSUME S # {}
      PROVE  SumFunctionOnSet(f, S) = f[Pick(S)] + SumFunctionOnSet(f, S \ {Pick(S)})
  <2> DEFINE U == S \ {Pick(S)}
             g == Sums(f, S)
             k == Sums(f, U)
             A == {T \in SUBSET U : g[T] = k[T]}
  <2>1. U \in SUBSET S /\ IsFiniteSet(U) /\ \A x \in U : f[x] \in Int
    BY FS_Subset DEF Summable
  <2> HIDE DEF U
  <2>2. SumsUp(k, f, SUBSET U)
    BY <2>1, SumsRecurse
  <2>3. SumsUp(g, f, SUBSET S)
    BY <1>1
  <2> HIDE DEF g, k
  <2>4. {} \in A
    BY <2>1, <2>2, <2>3 DEF SumsUp
  <2>5. ASSUME NEW T \in SUBSET U, T # {}, T \ {Pick(T)} \in A PROVE T \in A
    <3>1. T \in SUBSET S
      BY <2>1
    <3>2. g[T] = f[Pick(T)] + g[T \ {Pick(T)}]
      BY <2>3, <2>5, <3>1 DEF SumsUp
    <3>3. k[T] = f[Pick(T)] + k[T \ {Pick(T)}]
      BY <2>2, <2>5 DEF SumsUp
    <3> QED
      BY <2>5, <3>2, <3>3
  <2> HIDE DEF A
  <2>6. U \in A
    BY <2>1, <2>4, <2>5, PickInduction
  <2>7. g[U] = k[U]
    BY <2>6 DEF A
  <2>8. g[S] = f[Pick(S)] + g[U]
    BY <1>5, <2>3 DEF SumsUp, U
  <2>9. SumFunctionOnSet(f, S) = g[S] /\ SumFunctionOnSet(f, U) = k[U]
    BY SumIsFold DEF g, k
  <2> QED
    BY <2>7, <2>8, <2>9 DEF U
<1> QED
  BY <1>2, <1>4, <1>5

\* ... and in any other order.
LEMMA SumByElement ==
  ASSUME NEW f, NEW S, Summable(f, S), NEW x \in S
  PROVE  SumFunctionOnSet(f, S) = f[x] + SumFunctionOnSet(f, S \ {x})
<1> DEFINE Splits(T) == \A y \in T :
                            SumFunctionOnSet(f, T) = f[y] + SumFunctionOnSet(f, T \ {y})
           B == {n \in Nat : \A T \in SUBSET S : Cardinality(T) = n => Splits(T)}
<1>1. ASSUME NEW T \in SUBSET S
      PROVE  /\ Summable(f, T) /\ IsFiniteSet(T) /\ Cardinality(T) \in Nat
             /\ Cardinality(T) = 0 <=> T = {}
  BY FS_Subset, FS_CardinalityType, FS_EmptySet DEF Summable
<1>2. 0 \in B
  BY <1>1
<1>3. ASSUME NEW n \in B PROVE n + 1 \in B
  <2> SUFFICES ASSUME NEW T \in SUBSET S, Cardinality(T) = n + 1, NEW y \in T
               PROVE  SumFunctionOnSet(f, T) = f[y] + SumFunctionOnSet(f, T \ {y})
    BY <1>3
  <2> DEFINE p == Pick(T)
             U == T \ {p}
             V == T \ {y}
             W == U \ {y}
  <2>1. p \in T /\ T # {}
    BY DEF Pick
  <2>2. SumFunctionOnSet(f, T) = f[p] + SumFunctionOnSet(f, U)
    BY <1>1, <2>1, SumByPick
  <2>3. CASE y = p
    BY <2>2, <2>3
  <2>4. CASE y # p
    <3>1. U \in SUBSET S /\ V \in SUBSET S /\ W \in SUBSET S /\ y \in U /\ p \in V /\ V \ {p} = W
      BY <2>1, <2>4
    <3>2. n \in Nat /\ \A Z \in SUBSET S : Cardinality(Z) = n => Splits(Z)
      BY <1>3
    <3>3. Cardinality(U) = Cardinality(T) - 1 /\ Cardinality(V) = Cardinality(T) - 1
      BY <1>1, <2>1, FS_RemoveElement
    <3>4. Cardinality(U) = n /\ Cardinality(V) = n
      BY <3>2, <3>3
    <3>5. SumFunctionOnSet(f, U) = f[y] + SumFunctionOnSet(f, W)
      BY <3>1, <3>2, <3>4
    <3>6. SumFunctionOnSet(f, V) = f[p] + SumFunctionOnSet(f, V \ {p})
      BY <3>1, <3>2, <3>4
    <3>7. f[p] \in Int /\ f[y] \in Int /\ SumFunctionOnSet(f, W) \in Int
      BY <1>1, <2>1, <3>1, SumByPick DEF Summable
    <3>8. SumFunctionOnSet(f, V) = f[p] + SumFunctionOnSet(f, W)
      BY <3>1, <3>6
    <3> HIDE DEF p, U, V, W
    <3>9. SumFunctionOnSet(f, T) = f[y] + SumFunctionOnSet(f, V)
      BY <2>2, <3>5, <3>7, <3>8
    <3> QED
      BY <3>9 DEF V
  <2> QED
    BY <2>3, <2>4
<1> HIDE DEF B
<1>4. B = Nat
  BY <1>2, <1>3, NatSetInduction, B \in SUBSET Nat DEF B
<1>5. Cardinality(S) \in B /\ S \in SUBSET S
  BY <1>1, <1>4
<1>6. Splits(S)
  BY <1>5 DEF B
<1> QED
  BY <1>6

\* A sum of naturals is one.
LEMMA SumOfNaturals ==
  ASSUME NEW f, NEW S, IsFiniteSet(S), \A x \in S : f[x] \in Nat
  PROVE  SumFunctionOnSet(f, S) \in Nat
<1> DEFINE A == {T \in SUBSET S : SumFunctionOnSet(f, T) \in Nat}
<1>1. ASSUME NEW T \in SUBSET S PROVE Summable(f, T)
  BY FS_Subset DEF Summable
<1>2. {} \in A
  <2>1. {} \in SUBSET S
    OBVIOUS
  <2>2. SumFunctionOnSet(f, {}) = 0
    BY <1>1, <2>1, SumByPick
  <2> QED
    BY <2>1, <2>2
<1>3. ASSUME NEW T \in SUBSET S, T # {}, T \ {Pick(T)} \in A PROVE T \in A
  <2>1. Pick(T) \in S
    BY <1>3 DEF Pick
  <2>2. SumFunctionOnSet(f, T) = f[Pick(T)] + SumFunctionOnSet(f, T \ {Pick(T)})
    BY <1>1, <1>3, SumByPick
  <2> QED
    BY <1>3, <2>1, <2>2
<1> HIDE DEF A
<1>4. S \in A
  BY <1>2, <1>3, PickInduction
<1> QED
  BY <1>4 DEF A

\* h gives each element of S a place of its own in T with the same value.
Embeds(h, f, S, g, T) ==
    /\ \A x \in S : h[x] \in T /\ f[x] = g[h[x]]
    /\ \A x, y \in S : h[x] = h[y] => x = y

\* Then the values of S add up to no more than those of T.
LEMMA SumOfFewer ==
  ASSUME NEW f, NEW S, NEW g, NEW T, IsFiniteSet(S), IsFiniteSet(T),
         \A y \in T : g[y] \in Nat, NEW h, Embeds(h, f, S, g, T)
  PROVE  SumFunctionOnSet(f, S) <= SumFunctionOnSet(g, T)
<1> DEFINE A == {U \in SUBSET S : \A V \in SUBSET T :
                     (\A x \in U : h[x] \in V) => SumFunctionOnSet(f, U) <= SumFunctionOnSet(g, V)}
<1>1. ASSUME NEW V \in SUBSET T
      PROVE  Summable(g, V) /\ SumFunctionOnSet(g, V) \in Nat
  BY FS_Subset, SumOfNaturals DEF Summable
<1>2. ASSUME NEW U \in SUBSET S
      PROVE  Summable(f, U)
  BY FS_Subset DEF Summable, Embeds
<1>3. {} \in A
  <2>1. {} \in SUBSET S
    OBVIOUS
  <2>2. SumFunctionOnSet(f, {}) = 0
    BY <1>2, <2>1, SumByPick
  <2> QED
    BY <1>1, <2>1, <2>2
<1>4. ASSUME NEW U \in SUBSET S, U # {}, U \ {Pick(U)} \in A PROVE U \in A
  <2> SUFFICES ASSUME NEW V \in SUBSET T, \A x \in U : h[x] \in V
               PROVE  SumFunctionOnSet(f, U) <= SumFunctionOnSet(g, V)
    OBVIOUS
  <2> DEFINE p == Pick(U)
             X == U \ {p}
             Y == V \ {h[p]}
  <2>1. p \in U /\ p \in S /\ h[p] \in V
    BY <1>4 DEF Pick
  <2>2. SumFunctionOnSet(f, U) = f[p] + SumFunctionOnSet(f, X)
    BY <1>2, <1>4, SumByPick
  <2>3. SumFunctionOnSet(g, V) = g[h[p]] + SumFunctionOnSet(g, Y)
    BY <1>1, <2>1, SumByElement
  <2>4. X \in SUBSET S /\ Y \in SUBSET T /\ X \in A
    BY <1>4
  <2> HIDE DEF p
  <2>5. \A x \in X : h[x] \in Y
    BY <2>1 DEF Embeds
  <2> HIDE DEF X, Y
  <2>6. SumFunctionOnSet(f, X) <= SumFunctionOnSet(g, Y)
    BY <2>4, <2>5
  <2>7. SumFunctionOnSet(f, X) \in Int /\ SumFunctionOnSet(g, Y) \in Int
    BY <1>1, <1>2, <2>4, SumByPick
  <2>8. f[p] = g[h[p]] /\ g[h[p]] \in Int
    BY <2>1 DEF Embeds
  <2> QED
    BY <2>2, <2>3, <2>6, <2>7, <2>8
<1> HIDE DEF A
<1>5. S \in A
  BY <1>3, <1>4, PickInduction
<1>6. \A x \in S : h[x] \in T
  BY DEF Embeds
<1> QED
  BY <1>5, <1>6 DEF A
-----------------------------------------------------------------------------
(* What a limit counts *)

\* Used, of any queue of rows.
Spent(q, l, from, to, rows) ==
    SumFunctionOnSet(
        [i \in rows |-> IF l.unit = "count" THEN 1 ELSE q[i].amount],
        {i \in rows : q[i].from = from /\ (l.dimension = "time" \/ q[i].to = to)})

\* Every place in S holds the row that p holds d places further on, in T.
Shifted(q, S, p, T, d) == \A j \in S : j + d \in T /\ q[j] = p[j + d]

\* Places of a queue are finitely many.
LEMMA PlacesFinite ==
  ASSUME NEW q \in Seq(Row), NEW S \in SUBSET DOMAIN q
  PROVE  IsFiniteSet(S)
<1>1. DOMAIN q = 1..Len(q) /\ Len(q) \in Nat
  OBVIOUS
<1>2. IsFiniteSet(1..Len(q)) /\ S \subseteq 1..Len(q)
  BY <1>1, FS_Interval
<1> QED
  BY <1>2, FS_Subset

\* What is spent is a natural number.
LEMMA SpentTyped ==
  ASSUME NEW q \in Seq(Row), NEW S \in SUBSET DOMAIN q, NEW l, NEW from, NEW to
  PROVE  Spent(q, l, from, to, S) \in Nat
<1> DEFINE f == [i \in S |-> IF l.unit = "count" THEN 1 ELSE q[i].amount]
           U == {i \in S : q[i].from = from /\ (l.dimension = "time" \/ q[i].to = to)}
<1>1. U \subseteq S /\ IsFiniteSet(U)
  BY PlacesFinite, FS_Subset
<1>2. \A i \in S : q[i] \in Row
  OBVIOUS
<1>3. \A i \in U : f[i] \in Nat
  BY <1>1, <1>2 DEF Row
<1>4. Spent(q, l, from, to, S) = SumFunctionOnSet(f, U)
  BY DEF Spent
<1> HIDE DEF f, U
<1> QED
  BY <1>1, <1>3, <1>4, SumOfNaturals

\* Fewer rows, wherever they have moved, count for no more.
LEMMA FewerRowsSpendLess ==
  ASSUME NEW q \in Seq(Row), NEW S \in SUBSET DOMAIN q,
         NEW p \in Seq(Row), NEW T \in SUBSET DOMAIN p,
         NEW d \in Nat, Shifted(q, S, p, T, d), NEW l, NEW from, NEW to
  PROVE  Spent(q, l, from, to, S) <= Spent(p, l, from, to, T)
<1> DEFINE f == [i \in S |-> IF l.unit = "count" THEN 1 ELSE q[i].amount]
           g == [i \in T |-> IF l.unit = "count" THEN 1 ELSE p[i].amount]
           U == {i \in S : q[i].from = from /\ (l.dimension = "time" \/ q[i].to = to)}
           V == {i \in T : p[i].from = from /\ (l.dimension = "time" \/ p[i].to = to)}
           h == [i \in U |-> i + d]
<1>1. U \subseteq S /\ V \subseteq T /\ IsFiniteSet(U) /\ IsFiniteSet(V)
  BY PlacesFinite, FS_Subset
<1>2. \A i \in T : p[i] \in Row
  OBVIOUS
<1>3. \A i \in V : g[i] \in Nat
  BY <1>1, <1>2 DEF Row
<1>4. \A i \in U : h[i] \in V /\ f[i] = g[h[i]]
  <2> SUFFICES ASSUME NEW i \in U PROVE h[i] \in V /\ f[i] = g[h[i]]
    OBVIOUS
  <2>1. i \in S /\ h[i] = i + d /\ i + d \in T /\ q[i] = p[i + d]
    BY DEF Shifted
  <2> QED
    BY <2>1
<1>5. \A i, j \in U : h[i] = h[j] => i = j
  <2>1. \A i \in U : i \in Int
    OBVIOUS
  <2> QED
    BY <2>1
<1>6. Embeds(h, f, U, g, V)
  BY <1>4, <1>5 DEF Embeds
<1>7. /\ Spent(q, l, from, to, S) = SumFunctionOnSet(f, U)
      /\ Spent(p, l, from, to, T) = SumFunctionOnSet(g, V)
  BY DEF Spent
<1> HIDE DEF f, g, U, V, h
<1> QED
  BY <1>1, <1>3, <1>6, <1>7, SumOfFewer
-----------------------------------------------------------------------------
(* A limit is exceeded by one entry at most *)

\* The earlier rows of a queue that were checked against a limit.
Earlier(q, i, l) == {j \in 1..i - 1 : l \in q[j].under}

\* LimitHolds of one place of a queue.
Holds(q, i, l) == Spent(q, l, q[i].from, q[i].to, Earlier(q, i, l)) < l.threshold

\* A limit that held of a row holds of it wherever it moves, as long as no row
\* comes to stand before it.
LEMMA HoldsStill ==
  ASSUME NEW q \in Seq(Row), NEW i \in DOMAIN q, NEW l \in q[i].under,
         NEW p \in Seq(Row), NEW d \in Nat, i + d \in DOMAIN p,
         \A j \in 1..i : q[j] = p[j + d], Holds(p, i + d, l)
  PROVE  Holds(q, i, l)
<1> DEFINE S == Earlier(q, i, l)
           T == Earlier(p, i + d, l)
<1>1. DOMAIN q = 1..Len(q) /\ DOMAIN p = 1..Len(p) /\ Len(q) \in Nat /\ Len(p) \in Nat
  OBVIOUS
<1>2. S \in SUBSET DOMAIN q /\ T \in SUBSET DOMAIN p
  BY <1>1 DEF Earlier
<1>3. Shifted(q, S, p, T, d)
  <2> SUFFICES ASSUME NEW j \in S PROVE j + d \in T /\ q[j] = p[j + d]
    BY DEF Shifted
  <2>1. j \in 1..i - 1 /\ l \in q[j].under /\ i \in 1..Len(q)
    BY <1>1 DEF Earlier
  <2>2. j \in 1..i /\ j + d \in 1..(i + d) - 1
    BY <2>1
  <2> QED
    BY <2>1, <2>2 DEF Earlier
<1>4. q[i] = p[i + d]
  BY <1>1
<1> HIDE DEF S, T
<1>5. Spent(q, l, q[i].from, q[i].to, S) <= Spent(p, l, q[i].from, q[i].to, T)
  BY <1>2, <1>3, FewerRowsSpendLess
<1>6. Spent(p, l, q[i].from, q[i].to, T) < l.threshold
  BY <1>4 DEF Holds, T
<1>7. l \in LimitChoice /\ l.threshold \in Nat
  <2>1. q[i] \in Row
    OBVIOUS
  <2>2. l \in LimitChoice
    BY <2>1 DEF Row
  <2> QED
    BY <2>2, PolicyAssumption DEF Limit
<1>8. Spent(q, l, q[i].from, q[i].to, S) \in Nat /\ Spent(p, l, q[i].from, q[i].to, T) \in Nat
  BY <1>2, SpentTyped
<1> QED
  BY <1>5, <1>6, <1>7, <1>8 DEF Holds, S

\* An entry that the policy admits meets every limit it is checked against.
LEMMA AdmittedHolds ==
  ASSUME PolicyTypeOK, NEW from, NEW to, NEW action, MayAdmit(from, to, action),
         NEW l \in Applicable(from, action), NEW q \in Seq(Row),
         Len(q) = Len(recent) + 1, \A j \in DOMAIN recent : q[j] = recent[j],
         q[Len(q)].from = from, q[Len(q)].to = to
  PROVE  Holds(q, Len(q), l)
<1> DEFINE S == Earlier(q, Len(q), l)
<1>1. recent \in Seq(Row) /\ DOMAIN recent = 1..Len(recent) /\ DOMAIN q = 1..Len(q) /\ Len(recent) \in Nat
  BY DEF PolicyTypeOK
<1>2. l \in LimitChoice /\ l.threshold \in Nat
  BY PolicyAssumption DEF PolicyTypeOK, Applicable, Limit
<1>3. ~Reached(l, from, to)
  BY DEF MayAdmit, WithinLimits
<1>4. Spent(recent, l, from, to, DOMAIN recent) \in Nat
  BY <1>1, SpentTyped
<1>5. Spent(recent, l, from, to, DOMAIN recent) < l.threshold
  <2>1. Used(l, from, to, DOMAIN recent) = Spent(recent, l, from, to, DOMAIN recent)
    BY DEF Used, Spent
  <2> QED
    BY <1>2, <1>3, <1>4, <2>1 DEF Reached
<1>6. S \in SUBSET DOMAIN q /\ S \in SUBSET DOMAIN recent
  BY <1>1 DEF Earlier
<1>7. Shifted(q, S, recent, DOMAIN recent, 0)
  BY <1>1, <1>6 DEF Shifted
<1> HIDE DEF S
<1>8. Spent(q, l, from, to, S) <= Spent(recent, l, from, to, DOMAIN recent)
  BY <1>1, <1>6, <1>7, FewerRowsSpendLess
<1>9. Spent(q, l, from, to, S) \in Nat
  BY <1>6, SpentTyped
<1> QED
  BY <1>2, <1>4, <1>5, <1>8, <1>9 DEF Holds, S

\* LimitHolds, of any queue.
LimitsHold(q) == \A i \in DOMAIN q : \A l \in q[i].under : Holds(q, i, l)

LEMMA LimitHoldsMeans ==
  (LimitHolds <=> LimitsHold(recent)) /\ (LimitHolds' <=> LimitsHold(recent'))
  BY DEF LimitHolds, LimitsHold, Holds, Earlier, Used, Spent

\* Every step keeps the limits.
LEMMA LimitNext ==
  PolicyTypeOK /\ PolicyTypeOK' /\ [PolicyNext]_allVars /\ LimitHolds => LimitHolds'
<1> SUFFICES ASSUME PolicyTypeOK, PolicyTypeOK', [PolicyNext]_allVars, LimitHolds
             PROVE  LimitsHold(recent')
  BY LimitHoldsMeans
<1>1. TablesMove
  BY PolicyStepMoves DEF PolicyTypeOK
<1>2. recent \in Seq(Row) /\ recent' \in Seq(Row) /\ LimitsHold(recent)
  BY LimitHoldsMeans DEF PolicyTypeOK
<1>3. CASE UNCHANGED recent
  BY <1>2, <1>3
<1>4. ASSUME NEW from \in Account, NEW to \in Account, NEW n \in Nat, NEW action \in ActionType,
             Policy(from, to, n, action), ~UNCHANGED recent
      PROVE  LimitsHold(recent')
  <2> DEFINE r == [from |-> from, to |-> to, amount |-> n, under |-> Applicable(from, action)]
             q == recent'
  <2>1. MayAdmit(from, to, action) /\ q = Append(recent, r)
    BY <1>4 DEF Policy, PastPolicy
  <2>2. r.from = from /\ r.to = to /\ r.under = Applicable(from, action)
    OBVIOUS
  <2> HIDE DEF r
  <2>3. /\ q \in Seq(Row) /\ Len(recent) \in Nat /\ Len(q) = Len(recent) + 1
        /\ DOMAIN q = 1..Len(q) /\ DOMAIN recent = 1..Len(recent)
        /\ q[Len(q)] = r
        /\ \A j \in DOMAIN recent : q[j] = recent[j]
    <3>1. r \in Row
      BY DEF r, Row, Applicable, PolicyTypeOK
    <3> QED
      BY <1>2, <2>1, <3>1
  <2> HIDE DEF q
  <2> SUFFICES ASSUME NEW i \in DOMAIN q, NEW l \in q[i].under PROVE Holds(q, i, l)
    BY DEF LimitsHold, q
  <2>4. CASE i = Len(q)
    BY <2>1, <2>2, <2>3, <2>4, AdmittedHolds
  <2>5. CASE i # Len(q)
    <3>1. i \in DOMAIN recent /\ i + 0 = i /\ \A j \in 1..i : j + 0 = j /\ j \in DOMAIN recent
      BY <2>3, <2>5
    <3>2. Holds(recent, i + 0, l)
      BY <1>2, <2>3, <3>1 DEF LimitsHold
    <3>3. \A j \in 1..i : q[j] = recent[j + 0]
      BY <2>3, <3>1
    <3> QED
      BY <1>2, <2>3, <3>1, <3>2, <3>3, HoldsStill
  <2> QED
    BY <2>4, <2>5
<1>5. CASE RowAges
  <2> DEFINE q == recent'
  <2>1. /\ q \in Seq(Row) /\ Len(recent) \in Nat /\ Len(q) = Len(recent) - 1 /\ Len(q) \in Nat
        /\ DOMAIN q = 1..Len(q) /\ DOMAIN recent = 1..Len(recent)
        /\ \A j \in DOMAIN q : q[j] = recent[j + 1]
    BY <1>2, <1>5 DEF RowAges
  <2> HIDE DEF q
  <2> SUFFICES ASSUME NEW i \in DOMAIN q, NEW l \in q[i].under PROVE Holds(q, i, l)
    BY DEF LimitsHold, q
  <2>2. i + 1 \in DOMAIN recent /\ \A j \in 1..i : q[j] = recent[j + 1]
    BY <2>1
  <2>3. l \in recent[i + 1].under
    BY <2>1
  <2>4. Holds(recent, i + 1, l)
    BY <1>2, <2>2, <2>3 DEF LimitsHold
  <2> QED
    BY <1>2, <2>1, <2>2, <2>4, HoldsStill
<1> QED
  BY <1>1, <1>3, <1>4, <1>5 DEF TablesMove, EntryCounted

\* Under one limit an account exceeds its threshold by its latest entry at most,
\* whatever the limits, their windows and the amounts.
THEOREM LimitCorrect == PolicySpec => []LimitHolds
<1>1. PolicyInit => LimitHolds
  BY DEF PolicyInit, LimitHolds
<1> QED
  BY <1>1, LimitNext, PolicyTypeCorrect, PTL DEF PolicySpec
=============================================================================
