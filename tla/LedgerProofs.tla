---------------------------- MODULE LedgerProofs ----------------------------
(***************************************************************************)
(* Theorems about the ledger for every set of users, event ids and         *)
(* amounts and every threshold of the breaker.                             *)
(*                                                                         *)
(* The argument has three layers.  A step leaves the tables alone or is    *)
(* one Committed entry that met the guards of the pipeline                 *)
(* (StepMovesOneEntry).  Such an entry keeps the balance column in step    *)
(* with the rows and no account overdrawn (CommitKeepsBalances).  With     *)
(* both, the rows are a behaviour of Books (RefinementCorrect).            *)
(***************************************************************************)
EXTENDS Ledger, FiniteSetTheorems, TLAPS

\* The breaker's operators stay within its fields' types.
LEMMA BreakerTyped ==
    ASSUME NEW b \in Breaker
    PROVE  /\ Admitted(b) \in Breaker
           /\ RecordSuccess(b) \in Breaker
           /\ RecordFailure(b) \in Breaker
           /\ Cooled(b) \in Breaker
    BY DEF Breaker, CircuitState, Admitted, Recovers, RecordSuccess, Trips, RecordFailure, Cooled

\* The accounts the handlers name are accounts.
LEMMA AccountsTyped ==
    ASSUME NEW u \in Party
    PROVE  Main(u) \in Account /\ Escrow(u) \in Account /\ Revenue(u) \in Account
    BY DEF Main, Escrow, Revenue, Account, AccountType

\* The fee of an amount is a natural number.
LEMMA FeeTyped ==
    ASSUME NEW n \in Nat
    PROVE  PlatformFee(n) \in Nat
    BY DEF PlatformFee

\* What one call of recordEntry keeps typed, and what it may do to the tables:
\* nothing, or one committed entry that passed the guards.
GuardedCommit(ev, from, to, n) ==
    /\ from # to
    /\ ValidAmount(n)
    /\ ~FlagsForbid(from, to)
    /\ ~Throws(ev, from, to, n)
    /\ Committed(ev, from, to, n)

\* Every outcome of recordEntry keeps the tables alone or is a guarded commit.
LEMMA EntryOutcome ==
    ASSUME NEW ev, NEW from, NEW to, NEW n, RecordEntry(ev, from, to, n)
    PROVE  UNCHANGED tables \/ GuardedCommit(ev, from, to, n)
    BY DEF RecordEntry, Execute, Blocked, Declined, Failed, GuardedCommit, tables

\* The part of the type invariant about what recordEntry writes.
EntryVarsTyped ==
    /\ balance \in [Account -> Int]
    /\ debited \in [Account -> Nat]
    /\ credited \in [Account -> Nat]
    /\ settled \subseteq EventId \ {AutoId}
    /\ breaker \in Breaker
    /\ reply \in [event : EventId \cup {AutoId}, code : ReplyCode]
    /\ streak \in 0..SuccessThreshold

\* recordEntry keeps the types of everything it writes, whatever it answers.
LEMMA EntryTyped ==
    ASSUME EntryVarsTyped, NEW ev \in EventId \cup {AutoId},
           NEW from \in Account, NEW to \in Account, NEW n \in Int,
           RecordEntry(ev, from, to, n)
    PROVE  EntryVarsTyped'
<1>1. Admitted(breaker) \in Breaker
  BY BreakerTyped DEF EntryVarsTyped
<1>2. CASE Blocked(ev)
  BY <1>2 DEF EntryVarsTyped, Blocked, Answer, ReplyCode, tables
<1>3. ASSUME NEW code \in ReplyCode, Declined(ev, code)
      PROVE  EntryVarsTyped'
  BY <1>1, <1>3 DEF EntryVarsTyped, Declined, Answer, tables
<1>4. ASSUME NEW code \in ReplyCode, NEW b \in Breaker, Failed(ev, code, b)
      PROVE  EntryVarsTyped'
  <2>1. breaker' \in Breaker
    BY <1>4, BreakerTyped DEF Failed
  <2>2. QED
    BY <2>1, <1>4, ThresholdAssumption DEF EntryVarsTyped, Failed, Answer, tables
<1>5. CASE ValidAmount(n) /\ Committed(ev, from, to, n)
  <2>1. breaker' \in Breaker
    BY <1>1, <1>5, BreakerTyped DEF Committed
  <2>2. n \in Nat
    BY <1>5 DEF ValidAmount
  <2>3. balance' \in [Account -> Int]
    BY <1>5, <2>2 DEF Committed, EntryVarsTyped
  <2>4. debited' \in [Account -> Nat] /\ credited' \in [Account -> Nat]
    BY <1>5, <2>2 DEF Committed, EntryVarsTyped
  <2>5. streak' \in 0..SuccessThreshold
    BY <1>5, ThresholdAssumption DEF Committed, EntryVarsTyped
  <2>6. settled' \subseteq EventId \ {AutoId}
    BY <1>5 DEF Committed, EntryVarsTyped
  <2>7. QED
    BY <2>1, <2>3, <2>4, <2>5, <2>6, <1>5 DEF EntryVarsTyped, Committed, Answer, ReplyCode
<1>6. RecordSuccess(Admitted(breaker)) \in Breaker
  BY <1>1, BreakerTyped
<1>7. QED
  BY <1>1, <1>2, <1>3, <1>4, <1>5, <1>6 DEF RecordEntry, Execute, ReplyCode
-----------------------------------------------------------------------------
\* Every handler that records an entry, as one call of recordEntry.
LEMMA NextIsEntryOrAdmin ==
    ASSUME TypeOK, Next
    PROVE  \/ \E ev \in EventId \cup {AutoId}, from, to \in Account, n \in Int :
                 /\ RecordEntry(ev, from, to, n)
                 /\ UNCHANGED <<flags, status>>
                 /\ fee' \in Confirmation
           \/ /\ UNCHANGED tables
              /\ flags' \in [Account -> SUBSET ControlFlag]
              /\ status' \in [Account -> AccountStatus]
              /\ breaker' \in Breaker
              /\ fee' \in Confirmation
              /\ reply' = reply
              /\ streak' \in 0..SuccessThreshold
<1> DEFINE Call == \E ev \in EventId \cup {AutoId}, from, to \in Account, n \in Int :
                      /\ RecordEntry(ev, from, to, n)
                      /\ UNCHANGED <<flags, status>>
                      /\ fee' \in Confirmation
           Admin == /\ UNCHANGED tables
                    /\ flags' \in [Account -> SUBSET ControlFlag]
                    /\ status' \in [Account -> AccountStatus]
                    /\ breaker' \in Breaker
                    /\ fee' \in Confirmation
                    /\ reply' = reply
                    /\ streak' \in 0..SuccessThreshold
<1>a. \A u \in Party : Main(u) \in Account /\ Escrow(u) \in Account /\ Revenue(u) \in Account
  BY AccountsTyped
<1>s. System \in Party
  BY DEF Party
<1>n. \A n \in Amount : n \in Nat /\ PlatformFee(n) \in Nat /\ n - PlatformFee(n) \in Int
  BY FeeTyped, LedgerAssumption
<1>f. fee \in Confirmation
  BY DEF TypeOK
<1>1. ASSUME NEW ev \in EventId \cup {AutoId}, NEW u \in Party, NEW v \in Party, NEW n \in Amount,
             Transfer(ev, u, v, n)
      PROVE  Call
  <2>1. RecordEntry(ev, Main(u), Main(v), n) /\ UNCHANGED <<flags, status>> /\ fee' \in Confirmation
    BY <1>1, <1>f DEF Transfer
  <2>2. Main(u) \in Account /\ Main(v) \in Account /\ n \in Int
    BY <1>a, <1>n
  <2>3. QED
    BY <2>1, <2>2
<1>2. ASSUME NEW u \in Party, NEW n \in Amount, Grant(u, n)
      PROVE  Call
  <2>1. RecordEntry(AutoId, Main(System), Main(u), n) /\ UNCHANGED <<flags, status>> /\ fee' \in Confirmation
    BY <1>2, <1>f DEF Grant
  <2>2. Main(System) \in Account /\ Main(u) \in Account /\ n \in Int
    BY <1>a, <1>n, <1>s
  <2>3. QED
    BY <2>1, <2>2
<1>3. ASSUME NEW u \in Party, NEW n \in Amount, EscrowLock(u, n)
      PROVE  Call
  <2>1. RecordEntry(AutoId, Main(u), Escrow(u), n) /\ UNCHANGED <<flags, status>> /\ fee' \in Confirmation
    BY <1>3, <1>f DEF EscrowLock
  <2>2. Main(u) \in Account /\ Escrow(u) \in Account /\ n \in Int
    BY <1>a, <1>n
  <2>3. QED
    BY <2>1, <2>2
<1>4. ASSUME NEW u \in Party, NEW n \in Amount, EscrowDispute(u, n)
      PROVE  Call
  <2>1. RecordEntry(AutoId, Escrow(u), Main(u), n) /\ UNCHANGED <<flags, status>> /\ fee' \in Confirmation
    BY <1>4, <1>f DEF EscrowDispute
  <2>2. Escrow(u) \in Account /\ Main(u) \in Account /\ n \in Int
    BY <1>a, <1>n
  <2>3. QED
    BY <2>1, <2>2
<1>5. ASSUME NEW u \in Party, NEW v \in Party, NEW n \in Amount, EscrowConfirm(u, v, n)
      PROVE  Call
  BY <1>5, <1>a, <1>n, <1>s, LedgerAssumption DEF EscrowConfirm, NoFee, Confirmation
<1>6. CASE ChargeFee
  <2>1. fee.payee \in Party /\ PlatformFee(fee.gross) \in Int
    BY <1>f, FeeTyped DEF Confirmation
  <2>2. fee' \in Confirmation
    BY <1>6, <1>s DEF ChargeFee, NoFee, Confirmation
  <2>3. QED
    BY <1>6, <1>a, <1>s, <2>1, <2>2 DEF ChargeFee
<1>b. ASSUME unchangedBooks
      PROVE  /\ UNCHANGED tables
             /\ breaker' \in Breaker
             /\ fee' \in Confirmation
             /\ reply' = reply
             /\ streak' \in 0..SuccessThreshold
  BY <1>b DEF unchangedBooks, TypeOK
<1>t. flags \in [Account -> SUBSET ControlFlag] /\ status \in [Account -> AccountStatus]
  BY DEF TypeOK
<1>7. ASSUME NEW u \in Administered, NEW f \in FlagChoice, ControlAccount(u, f)
      PROVE  Admin
  <2>1. f \in SUBSET ControlFlag
    BY LedgerAssumption
  <2>2. flags' = [flags EXCEPT ![Main(u)] = f] /\ status' = status /\ unchangedBooks
    BY <1>7 DEF ControlAccount
  <2>3. QED
    BY <2>1, <2>2, <1>b, <1>t
<1>8. ASSUME NEW u \in Administered, Freeze(u)
      PROVE  Admin
  <2>1. /\ flags' = [flags EXCEPT ![Main(u)] = @ \cup {"frozen"}]
        /\ status' = [status EXCEPT ![Main(u)] = "frozen"]
        /\ unchangedBooks
    BY <1>8 DEF Freeze
  <2>2. "frozen" \in ControlFlag /\ "frozen" \in AccountStatus
    BY DEF ControlFlag, AccountStatus
  <2>3. QED
    BY <2>1, <2>2, <1>b, <1>t
<1>9. ASSUME NEW u \in Administered, Unfreeze(u)
      PROVE  Admin
  <2>1. /\ flags' = [flags EXCEPT ![Main(u)] = @ \ {"frozen"}]
        /\ status' = [status EXCEPT ![Main(u)] = "active"]
        /\ unchangedBooks
    BY <1>9 DEF Unfreeze
  <2>2. "active" \in AccountStatus
    BY DEF AccountStatus
  <2>3. QED
    BY <2>1, <2>2, <1>b, <1>t
<1>10. ASSUME NEW u \in Administered, Close(u)
       PROVE  Admin
  <2>1. flags' = flags /\ status' = [status EXCEPT ![Main(u)] = "closed"] /\ unchangedBooks
    BY <1>10 DEF Close
  <2>2. "closed" \in AccountStatus
    BY DEF AccountStatus
  <2>3. QED
    BY <2>1, <2>2, <1>b, <1>t
<1>11. CASE TimeoutElapses
  BY <1>11, BreakerTyped DEF TimeoutElapses, TypeOK
<1>12. CASE Restart
  BY <1>12, <1>s, ThresholdAssumption DEF Restart, TypeOK, NoFee, Confirmation, FreshBreaker, Breaker, CircuitState
<1>p. Payer \subseteq Party /\ Payee \subseteq Party
  BY LedgerAssumption
<1>13. QED
  BY <1>p, <1>1, <1>2, <1>3, <1>4, <1>5, <1>6, <1>7, <1>8, <1>9, <1>10, <1>11, <1>12 DEF Next

\* Every state of the ledger has the types the code gives its fields and columns.
THEOREM TypeCorrect == Spec => []TypeOK
<1>1. Init => TypeOK
  BY ThresholdAssumption
     DEF Init, TypeOK, NoFee, Confirmation, Party, FreshBreaker, Breaker, CircuitState, ReplyCode,
         AccountStatus, ControlFlag
<1>2. TypeOK /\ [Next]_vars => TypeOK'
  <2> SUFFICES ASSUME TypeOK, [Next]_vars PROVE TypeOK'
    OBVIOUS
  <2>1. ASSUME NEW ev \in EventId \cup {AutoId}, NEW from \in Account, NEW to \in Account,
               NEW n \in Int, RecordEntry(ev, from, to, n), UNCHANGED <<flags, status>>,
               fee' \in Confirmation
        PROVE  TypeOK'
    <3>1. EntryVarsTyped
      BY DEF TypeOK, EntryVarsTyped
    <3>2. EntryVarsTyped'
      BY <2>1, <3>1, EntryTyped
    <3>3. QED
      BY <2>1, <3>2 DEF TypeOK, EntryVarsTyped
  <2>2. CASE Next
    BY <2>1, <2>2, NextIsEntryOrAdmin DEF TypeOK, tables
  <2>3. CASE UNCHANGED vars
    BY <2>3 DEF vars, TypeOK
  <2>4. QED
    BY <2>2, <2>3
<1>3. QED
  BY <1>1, <1>2, PTL DEF Spec
-----------------------------------------------------------------------------
\* A step of the ledger leaves the tables alone or is one guarded commit.
LEMMA StepMovesOneEntry ==
    ASSUME TypeOK, [Next]_vars
    PROVE  \/ UNCHANGED tables
           \/ \E ev \in EventId \cup {AutoId}, from, to \in Account, n \in Int :
                 GuardedCommit(ev, from, to, n)
<1>1. CASE Next
  BY <1>1, NextIsEntryOrAdmin, EntryOutcome
<1>2. CASE UNCHANGED vars
  BY <1>2 DEF vars, tables
<1>3. QED
  BY <1>1, <1>2

\* The strengthening: each of the two facts about balances rests on the types.
BalanceInv == TypeOK /\ DoubleEntry /\ NoOverdraft

\* A guarded commit keeps balances in step with the rows and above zero.
LEMMA CommitKeepsBalances ==
    ASSUME BalanceInv, NEW ev \in EventId \cup {AutoId},
           NEW from \in Account, NEW to \in Account, NEW n \in Int,
           GuardedCommit(ev, from, to, n)
    PROVE  DoubleEntry' /\ NoOverdraft'
<1>1. /\ from # to /\ n > 0
      /\ debited' = [debited EXCEPT ![from] = @ + n]
      /\ credited' = [credited EXCEPT ![to] = @ + n]
      /\ balance' = IF from \in SystemAccount
                    THEN [balance EXCEPT ![to] = @ + n]
                    ELSE [balance EXCEPT ![from] = @ - n, ![to] = @ + n]
      /\ from \notin SystemAccount => balance[from] >= n
  BY DEF GuardedCommit, Committed, ValidAmount, Throws, IsSystemSource, SystemAccount,
         BalanceInv, TypeOK
<1>2. /\ balance \in [Account -> Int]
      /\ debited \in [Account -> Nat] /\ credited \in [Account -> Nat]
  BY DEF BalanceInv, TypeOK
<1>3. ASSUME NEW a \in Account
      PROVE  /\ balance'[a] = credited'[a] - (IF a \in SystemAccount THEN 0 ELSE debited'[a])
             /\ balance'[a] >= 0
  <2>1. /\ balance[a] = credited[a] - (IF a \in SystemAccount THEN 0 ELSE debited[a])
        /\ balance[a] >= 0
    BY DEF BalanceInv, DoubleEntry, NoOverdraft
  <2>2. CASE from \in SystemAccount
    BY <1>1, <1>2, <2>1, <2>2
  <2>3. CASE from \notin SystemAccount
    BY <1>1, <1>2, <2>1, <2>3
  <2>4. QED
    BY <2>2, <2>3
<1>4. QED
  BY <1>3 DEF DoubleEntry, NoOverdraft, SystemAccount, Owner

\* The invariant of the balances.
THEOREM BalancesCorrect == Spec => []BalanceInv
<1>1. Init => DoubleEntry /\ NoOverdraft
  BY DEF Init, DoubleEntry, NoOverdraft, SystemAccount
<1>2. BalanceInv /\ [Next]_vars => (DoubleEntry /\ NoOverdraft)'
  <2> SUFFICES ASSUME BalanceInv, [Next]_vars PROVE (DoubleEntry /\ NoOverdraft)'
    OBVIOUS
  <2>1. CASE UNCHANGED tables
    BY <2>1 DEF tables, BalanceInv, DoubleEntry, NoOverdraft
  <2>2. QED
    BY <2>1, StepMovesOneEntry, CommitKeepsBalances DEF BalanceInv
<1>3. QED
  BY <1>1, <1>2, TypeCorrect, PTL DEF Spec, BalanceInv

\* The balance column and the transaction rows agree, always.
THEOREM DoubleEntryCorrect == Spec => []DoubleEntry
<1>1. BalanceInv => DoubleEntry
  BY DEF BalanceInv
<1>2. QED
  BY <1>1, BalancesCorrect, PTL

\* No account is ever overdrawn.
THEOREM NoOverdraftCorrect == Spec => []NoOverdraft
<1>1. BalanceInv => NoOverdraft
  BY DEF BalanceInv
<1>2. QED
  BY <1>1, BalancesCorrect, PTL
-----------------------------------------------------------------------------
\* A guarded commit is an entry of Books whose event id is new.
LEMMA CommitIsPost ==
    ASSUME BalanceInv, NEW ev \in EventId \cup {AutoId},
           NEW from \in Account, NEW to \in Account, NEW n \in Int,
           GuardedCommit(ev, from, to, n)
    PROVE  Book!Next
<1> DEFINE e == {ev} \ {AutoId}
<1>1. e \in {{}} \cup {{x} : x \in EventId}
  OBVIOUS
<1>2. n \in 1..MaxAmount
  BY LedgerAssumption DEF GuardedCommit, ValidAmount
<1>3. e \cap settled = {}
  BY DEF GuardedCommit, Throws
<1>4. settled' = settled \cup e
  BY DEF GuardedCommit, Committed
<1>5. from # to
  BY DEF GuardedCommit
<1>6. from \in SystemAccount \/ n <= Position[from]
  <2>1. from \in SystemAccount \/ balance[from] >= n
    BY DEF GuardedCommit, Throws, IsSystemSource, SystemAccount, BalanceInv, TypeOK
  <2>2. from \notin SystemAccount => balance[from] = credited[from] - debited[from]
    BY DEF BalanceInv, DoubleEntry
  <2>3. QED
    BY <2>1, <2>2 DEF Position
<1>7. Position' = [Position EXCEPT ![from] = @ - n, ![to] = @ + n]
  <2>1. /\ debited' = [debited EXCEPT ![from] = @ + n]
        /\ credited' = [credited EXCEPT ![to] = @ + n]
    BY DEF GuardedCommit, Committed
  <2>2. debited \in [Account -> Nat] /\ credited \in [Account -> Nat]
    BY DEF BalanceInv, TypeOK
  <2>3. ASSUME NEW a \in Account
        PROVE  credited'[a] - debited'[a] = [Position EXCEPT ![from] = @ - n, ![to] = @ + n][a]
    <3>1. Position[a] = credited[a] - debited[a] /\ Position \in [Account -> Int]
      BY <2>2 DEF Position
    <3>2. CASE a = from
      BY <1>5, <2>1, <2>2, <3>1, <3>2
    <3>3. CASE a = to
      BY <1>5, <2>1, <2>2, <3>1, <3>3
    <3>4. CASE a # from /\ a # to
      BY <2>1, <2>2, <3>1, <3>4
    <3>5. QED
      BY <3>2, <3>3, <3>4
  <2>4. Position' = [a \in Account |-> credited'[a] - debited'[a]]
    BY DEF Position, Account
  <2>5. QED
    BY <2>3, <2>4 DEF Position
<1>8. Book!Post(e, from, to, n)
  BY <1>3, <1>4, <1>5, <1>6, <1>7 DEF Book!Post
<1>9. from \in Book!Moved /\ to \in Book!Moved
  <2>1. Position[from] \in Int /\ Position[to] \in Int
    BY DEF Position, BalanceInv, TypeOK
  <2>2. Position'[from] = Position[from] - n /\ Position'[to] = Position[to] + n
    BY <1>5, <1>7 DEF Position
  <2>3. n > 0
    BY <1>2
  <2>4. Position'[from] # Position[from] /\ Position'[to] # Position[to]
    BY <2>1, <2>2, <2>3
  <2>5. QED
    BY <2>4 DEF Book!Moved
<1>10. QED
  BY <1>1, <1>2, <1>8, <1>9 DEF Book!Next

\* The transaction rows behave as a book of entries: every run of the ledger,
\* with its rejections, failures, rollbacks and restarts, is a run of Books.
THEOREM RefinementCorrect == Spec => RefinesBooks
<1>1. Init => Book!Init
  BY DEF Init, Book!Init, Position
<1>2. BalanceInv /\ [Next]_vars => [Book!Next]_(Book!vars)
  <2> SUFFICES ASSUME BalanceInv, [Next]_vars PROVE [Book!Next]_(Book!vars)
    OBVIOUS
  <2>1. CASE UNCHANGED tables
    BY <2>1 DEF tables, Book!vars, Position
  <2>2. ASSUME NEW ev \in EventId \cup {AutoId}, NEW from \in Account, NEW to \in Account,
               NEW n \in Int, GuardedCommit(ev, from, to, n)
        PROVE  Book!Next
    BY <2>2, CommitIsPost
  <2>3. QED
    BY <2>1, <2>2, StepMovesOneEntry DEF BalanceInv
<1>3. QED
  BY <1>1, <1>2, BalancesCorrect, PTL DEF Spec, RefinesBooks, Book!Spec
-----------------------------------------------------------------------------
\* No entry touches the balance of an account that is frozen or closed.
THEOREM FrozenCorrect == Spec => FrozenKeepsFunds
<1>1. TypeOK /\ [Next]_vars =>
        [\A a \in Account :
            status[a] # "active" \/ "frozen" \in flags[a] => balance'[a] = balance[a]]_vars
  <2> SUFFICES ASSUME TypeOK, [Next]_vars, NEW a \in Account,
                      status[a] # "active" \/ "frozen" \in flags[a]
               PROVE  balance'[a] = balance[a]
    BY Zenon
  <2>1. CASE UNCHANGED tables
    BY <2>1 DEF tables
  <2>2. ASSUME NEW ev \in EventId \cup {AutoId}, NEW from \in Account, NEW to \in Account,
               NEW n \in Int, GuardedCommit(ev, from, to, n)
        PROVE  balance'[a] = balance[a]
    <3>1. a # to
      BY <2>2 DEF GuardedCommit, FlagsForbid, Throws
    <3>2. ~IsSystemSource(from) => a # from
      BY <2>2 DEF GuardedCommit, FlagsForbid, Throws
    <3>3. QED
      BY <2>2, <3>1, <3>2 DEF GuardedCommit, Committed, TypeOK
  <2>3. QED
    BY <2>1, <2>2, StepMovesOneEntry
<1>2. QED
  BY <1>1, TypeCorrect, PTL DEF Spec, FrozenKeepsFunds
-----------------------------------------------------------------------------
(* The answers *)

\* What one call of recordEntry answers about its event id.
LEMMA EntryAnswers ==
    ASSUME TypeOK, NEW ev \in EventId \cup {AutoId}, NEW from, NEW to, NEW n,
           RecordEntry(ev, from, to, n)
    PROVE  ReplyMatchesBooks'
<1>1. settled \subseteq EventId \ {AutoId}
  BY DEF TypeOK
<1>2. CASE Blocked(ev)
  BY <1>2 DEF Blocked, Answer, tables, ReplyMatchesBooks
<1>3. ASSUME NEW code, Declined(ev, code),
             code \in {"ok", "duplicate"} => ev \in settled,
             code \in {"rejected", "thrown"} => ev \notin settled
      PROVE  ReplyMatchesBooks'
  BY <1>3 DEF Declined, Answer, tables, ReplyMatchesBooks
<1>4. ASSUME NEW code \in {"storage", "thrown"}, NEW b, Failed(ev, code, b),
             code = "thrown" => ev \notin settled
      PROVE  ReplyMatchesBooks'
  BY <1>4 DEF Failed, Answer, tables, ReplyMatchesBooks
<1>5. CASE Committed(ev, from, to, n)
  BY <1>5 DEF Committed, Answer, ReplyMatchesBooks
<1>6. CASE Declined(ev, "invalid")
  BY <1>3, <1>6
<1>7. CASE Execute(ev, from, to, n)
  BY <1>3, <1>4, <1>5, <1>7 DEF Execute, IsDuplicate
<1>8. QED
  BY <1>2, <1>6, <1>7 DEF RecordEntry

\* An entry reported as done is recorded, and no retry of a recorded event id
\* is told that it was rejected or that it threw.
THEOREM RepliesCorrect == Spec => []ReplyMatchesBooks
<1>1. Init => ReplyMatchesBooks
  BY DEF Init, ReplyMatchesBooks
<1>2. TypeOK /\ ReplyMatchesBooks /\ [Next]_vars => ReplyMatchesBooks'
  <2> SUFFICES ASSUME TypeOK, ReplyMatchesBooks, [Next]_vars PROVE ReplyMatchesBooks'
    OBVIOUS
  <2>1. CASE UNCHANGED <<settled, reply>>
    BY <2>1 DEF ReplyMatchesBooks
  <2>2. CASE Next
    BY <2>1, <2>2, NextIsEntryOrAdmin, EntryAnswers DEF tables
  <2>3. QED
    BY <2>1, <2>2 DEF vars
<1>3. QED
  BY <1>1, <1>2, TypeCorrect, PTL DEF Spec
-----------------------------------------------------------------------------
(* The fee of a confirmation *)

\* Administrators act on main accounts, and on no others.
OthersUntouched ==
    \A a \in Account : a \notin {Main(u) : u \in Party} => status[a] = "active" /\ flags[a] = {}

\* Between the two entries the release is on the payee's revenue account and
\* the breaker has just let it through.
FeeAtHand ==
    fee # NoFee =>
        /\ fee.payee \in Party
        /\ balance[Revenue(fee.payee)] >= PlatformFee(fee.gross)
        /\ breaker.state # "open"

\* The fee is no more than what is left of the amount.
LEMMA FeeIsTheSmallerPart ==
    ASSUME NEW n \in Nat, PlatformFee(n) > 0
    PROVE  PlatformFee(n) <= n - PlatformFee(n)
<1>1. PlatformFee(n) \in Nat /\ 100 * PlatformFee(n) <= 15 * n + 50
  BY DEF PlatformFee
<1>2. QED
  BY <1>1

\* A fee is owed only after a release that was committed in the same step.
LEMMA FeeArises ==
    ASSUME [Next]_vars, fee' # NoFee
    PROVE  \/ UNCHANGED vars
           \/ \E u, v \in Party, n \in Amount :
                 /\ PlatformFee(n) > 0
                 /\ fee' = [payer |-> u, payee |-> v, gross |-> n]
                 /\ reply'.code = "ok"
                 /\ RecordEntry(AutoId, Escrow(u), Revenue(v), n - PlatformFee(n))
<1>1. ASSUME NEW u \in Party, NEW v \in Party, NEW n \in Amount, EscrowConfirm(u, v, n)
      PROVE  /\ PlatformFee(n) > 0
             /\ fee' = [payer |-> u, payee |-> v, gross |-> n]
             /\ reply'.code = "ok"
             /\ RecordEntry(AutoId, Escrow(u), Revenue(v), n - PlatformFee(n))
  BY <1>1 DEF EscrowConfirm
<1>2. CASE \/ \E ev \in EventId \cup {AutoId}, u, v \in Party, n \in Amount : Transfer(ev, u, v, n)
           \/ \E u \in Party, n \in Amount : Grant(u, n) \/ EscrowLock(u, n) \/ EscrowDispute(u, n)
  BY <1>2 DEF Transfer, Grant, EscrowLock, EscrowDispute, Idle
<1>3. CASE ChargeFee \/ Restart \/ TimeoutElapses
  BY <1>3 DEF ChargeFee, Restart, TimeoutElapses, Idle
<1>4. CASE \/ \E u \in Administered, f \in FlagChoice : ControlAccount(u, f)
           \/ \E u \in Administered : Freeze(u) \/ Unfreeze(u) \/ Close(u)
  BY <1>4 DEF ControlAccount, Freeze, Unfreeze, Close, unchangedBooks, Idle
<1>p. Payer \subseteq Party /\ Payee \subseteq Party
  BY LedgerAssumption
<1>5. QED
  BY <1>p, <1>1, <1>2, <1>3, <1>4 DEF Next

\* An entry that is answered with "ok" is a guarded commit, and leaves the
\* breaker closed or half-open.
LEMMA OkIsCommit ==
    ASSUME NEW ev, NEW from, NEW to, NEW n, RecordEntry(ev, from, to, n), reply'.code = "ok"
    PROVE  GuardedCommit(ev, from, to, n) /\ breaker'.state # "open"
<1>1. GuardedCommit(ev, from, to, n)
  BY DEF RecordEntry, Execute, Blocked, Declined, Failed, Answer, GuardedCommit
<1>2. QED
  BY <1>1 DEF GuardedCommit, Committed, RecordSuccess, Admitted, Recovers

\* The strengthening: what the fee entry will find.
FeeInv == BalanceInv /\ OthersUntouched /\ FeeAtHand

\* A release that commits puts at least the fee on the payee's account.
LEMMA ReleaseCoversFee ==
    ASSUME BalanceInv, NEW u \in Party, NEW v \in Party, NEW n \in Nat, PlatformFee(n) > 0,
           GuardedCommit(AutoId, Escrow(u), Revenue(v), n - PlatformFee(n))
    PROVE  balance'[Revenue(v)] >= PlatformFee(n)
<1>1. Escrow(u) \in Account /\ Revenue(v) \in Account /\ Escrow(u) # Revenue(v)
  BY AccountsTyped DEF Escrow, Revenue
<1>3. PlatformFee(n) \in Nat /\ n - PlatformFee(n) \in Int /\ PlatformFee(n) <= n - PlatformFee(n)
  BY FeeTyped, FeeIsTheSmallerPart
<1>4. balance[Revenue(v)] \in Int /\ balance[Revenue(v)] >= 0
  BY <1>1 DEF BalanceInv, TypeOK, NoOverdraft
<1>5. balance'[Revenue(v)] = balance[Revenue(v)] + (n - PlatformFee(n))
  <2>1. CASE IsSystemSource(Escrow(u))
    BY <1>1, <1>3, <2>1 DEF GuardedCommit, Committed, BalanceInv, TypeOK
  <2>2. CASE ~IsSystemSource(Escrow(u))
    BY <1>1, <1>3, <2>2 DEF GuardedCommit, Committed, BalanceInv, TypeOK
  <2>3. QED
    BY <2>1, <2>2
<1>6. QED
  BY <1>3, <1>4, <1>5

\* The fee of a confirmation can be taken as far as the payee goes: the balance
\* covers it, the breaker does not refuse, and only what was done to the main
\* account of the system can stop it.
THEOREM FeeCorrect == Spec => []FeeCovered
<1>1. Init => OthersUntouched /\ FeeAtHand
  BY DEF Init, OthersUntouched, FeeAtHand
<1>2. FeeInv /\ [Next]_vars => OthersUntouched'
  <2> SUFFICES ASSUME FeeInv, [Next]_vars PROVE OthersUntouched'
    OBVIOUS
  <2>1. CASE UNCHANGED <<status, flags>>
    BY <2>1 DEF FeeInv, OthersUntouched
  <2>2. ASSUME NEW u \in Administered, NEW x, NEW f,
               status' = [status EXCEPT ![Main(u)] = x] \/ UNCHANGED status,
               flags' = [flags EXCEPT ![Main(u)] = f] \/ UNCHANGED flags
        PROVE  OthersUntouched'
    BY <2>2, LedgerAssumption DEF FeeInv, BalanceInv, TypeOK, OthersUntouched
  <2>3. CASE \E u \in Administered : Freeze(u) \/ Unfreeze(u) \/ Close(u)
    BY <2>2, <2>3 DEF Freeze, Unfreeze, Close
  <2>4. CASE \E u \in Administered, f \in FlagChoice : ControlAccount(u, f)
    BY <2>2, <2>4 DEF ControlAccount
  <2>5. CASE UNCHANGED vars
    BY <2>1, <2>5 DEF vars
  <2>6. QED
    BY <2>1, <2>3, <2>4, <2>5
    DEF Next, Transfer, Grant, EscrowLock, EscrowDispute, EscrowConfirm, ChargeFee,
        TimeoutElapses, Restart
<1>3. FeeInv /\ [Next]_vars => FeeAtHand'
  <2> SUFFICES ASSUME FeeInv, [Next]_vars, fee' # NoFee PROVE FeeAtHand'
    BY DEF FeeAtHand
  <2>1. CASE UNCHANGED vars
    BY <2>1 DEF vars, FeeInv, FeeAtHand
  <2>2. ASSUME NEW u \in Party, NEW v \in Party, NEW n \in Amount,
               PlatformFee(n) > 0, fee' = [payer |-> u, payee |-> v, gross |-> n],
               reply'.code = "ok",
               RecordEntry(AutoId, Escrow(u), Revenue(v), n - PlatformFee(n))
        PROVE  FeeAtHand'
    <3>1. GuardedCommit(AutoId, Escrow(u), Revenue(v), n - PlatformFee(n))
          /\ breaker'.state # "open"
      BY <2>2, OkIsCommit
    <3>2. n \in Nat
      BY LedgerAssumption
    <3>3. balance'[Revenue(v)] >= PlatformFee(n)
      BY <2>2, <3>1, <3>2, ReleaseCoversFee DEF FeeInv
    <3>4. QED
      BY <2>2, <3>1, <3>3 DEF FeeAtHand
  <2>3. QED
    BY <2>1, <2>2, FeeArises
<1>4. FeeInv => FeeCovered
  <2> SUFFICES ASSUME FeeInv, fee # NoFee PROVE FeeCovered
    BY DEF FeeCovered
  <2> DEFINE payee == Revenue(fee.payee)
             n     == PlatformFee(fee.gross)
  <2>1. fee.payee \in Party /\ balance[payee] >= n /\ breaker.state # "open"
    BY DEF FeeInv, FeeAtHand
  <2>2. payee \in Account
    BY <2>1, AccountsTyped
  <2>3. status[payee] = "active" /\ flags[payee] = {}
    BY <2>1, <2>2 DEF FeeInv, OthersUntouched, Main, Revenue
  <2>4. balance[payee] \in Int /\ n \in Nat
    BY <2>2, FeeTyped DEF FeeInv, BalanceInv, TypeOK, Confirmation
  <2>5. AutoId \notin settled
    BY DEF FeeInv, BalanceInv, TypeOK
  <2> HIDE DEF payee, n
  <2>6. ~(balance[payee] < n)
    BY <2>1, <2>4
  <2>7. ~Refuses(breaker) /\ ~Insufficient(payee, n)
    BY <2>1, <2>6 DEF Refuses, Insufficient
  <2>8. FlagsForbid(payee, Main(System)) => flags[Main(System)] \cap {"frozen", "noCredit"} # {}
    BY <2>3 DEF FlagsForbid
  <2>9. Throws(AutoId, payee, Main(System), n) => status[Main(System)] # "active"
    BY <2>3, <2>5, <2>6 DEF Throws
  <2>10. QED
    BY <2>7, <2>8, <2>9 DEF FeeCovered, payee, n
<1>5. QED
  BY <1>1, <1>2, <1>3, <1>4, BalancesCorrect, PTL DEF Spec, FeeInv
-----------------------------------------------------------------------------
(* The breaker *)

\* The successes of a half-open period have all come since the last failure.
ProbesCounted == breaker.state = "half_open" => breaker.successCount <= streak

\* The invariant of the breaker.
BreakerInv == TypeOK /\ ClosedMeansHealthy /\ ProbesCounted

\* What one entry does to the breaker and the count of commits.
EntryBreaker ==
    \/ UNCHANGED <<breaker, streak>>
    \/ breaker' = Admitted(breaker) /\ streak' = streak
    \/ breaker' = RecordFailure(Admitted(breaker)) /\ streak' = 0
    \/ breaker' = RecordFailure(RecordSuccess(Admitted(breaker))) /\ streak' = 0
    \/ /\ breaker' = RecordSuccess(Admitted(breaker))
       /\ streak' = IF streak < SuccessThreshold THEN streak + 1 ELSE streak

\* recordEntry does one of these.
LEMMA EntryMovesBreaker ==
    ASSUME NEW ev, NEW from, NEW to, NEW n, RecordEntry(ev, from, to, n)
    PROVE  EntryBreaker
BY DEF RecordEntry, Execute, Blocked, Declined, Failed, Committed, EntryBreaker

\* And beside recordEntry, only the clock and a restart touch the breaker.
LEMMA NextMovesBreaker ==
    ASSUME [Next]_vars
    PROVE  EntryBreaker \/ (breaker' = Cooled(breaker) /\ streak' = streak) \/ Restart
<1>1. CASE \/ \E ev \in EventId \cup {AutoId}, u, v \in Party, n \in Amount : Transfer(ev, u, v, n)
           \/ \E u \in Party, n \in Amount : Grant(u, n) \/ EscrowLock(u, n) \/ EscrowDispute(u, n)
           \/ \E u, v \in Party, n \in Amount : EscrowConfirm(u, v, n)
           \/ ChargeFee
  BY <1>1, EntryMovesBreaker
  DEF Transfer, Grant, EscrowLock, EscrowDispute, EscrowConfirm, ChargeFee
<1>2. CASE \/ \E u \in Administered, f \in FlagChoice : ControlAccount(u, f)
           \/ \E u \in Administered : Freeze(u) \/ Unfreeze(u) \/ Close(u)
  BY <1>2 DEF ControlAccount, Freeze, Unfreeze, Close, unchangedBooks, EntryBreaker
<1>3. CASE TimeoutElapses
  BY <1>3 DEF TimeoutElapses
<1>4. CASE UNCHANGED vars
  BY <1>4 DEF vars, EntryBreaker
<1>p. Payer \subseteq Party /\ Payee \subseteq Party
  BY LedgerAssumption
<1>5. QED
  BY <1>p, <1>1, <1>2, <1>3, <1>4 DEF Next

\* One entry keeps the breaker's invariant, and closes the breaker only as the
\* last success of a half-open period.
LEMMA EntryKeepsBreaker ==
    ASSUME BreakerInv, EntryBreaker
    PROVE  /\ ClosedMeansHealthy'
           /\ ProbesCounted'
           /\ breaker.state # "closed" /\ breaker'.state = "closed"
                  => streak + 1 >= SuccessThreshold
<1> DEFINE b == Admitted(breaker)
<1>1. /\ breaker \in Breaker /\ streak \in Nat /\ streak <= SuccessThreshold
      /\ SuccessThreshold \in Nat \ {0} /\ FailureThreshold \in Nat \ {0}
  BY ThresholdAssumption DEF BreakerInv, TypeOK
<1>2. /\ b \in Breaker
      /\ b.state # "open"
      /\ b.state = "closed" => breaker.state = "closed" /\ b.failureCount < FailureThreshold
      /\ b.state = "half_open" => breaker.state # "closed" /\ b.successCount <= streak
  BY <1>1 DEF Admitted, Breaker, CircuitState, BreakerInv, ClosedMeansHealthy, ProbesCounted
<1> HIDE DEF b
<1>3. CASE UNCHANGED <<breaker, streak>>
  BY <1>3 DEF BreakerInv, ClosedMeansHealthy, ProbesCounted
<1>4. CASE breaker' = b /\ streak' = streak
  BY <1>2, <1>4 DEF ClosedMeansHealthy, ProbesCounted
<1>5. CASE breaker' = RecordFailure(b) /\ streak' = 0
  BY <1>1, <1>2, <1>5 DEF RecordFailure, Trips, Breaker, CircuitState, ClosedMeansHealthy,
     ProbesCounted
<1>6. CASE breaker' = RecordSuccess(b)
           /\ streak' = IF streak < SuccessThreshold THEN streak + 1 ELSE streak
  BY <1>1, <1>2, <1>6 DEF RecordSuccess, Recovers, Breaker, CircuitState, ClosedMeansHealthy,
     ProbesCounted
<1>7. CASE breaker' = RecordFailure(RecordSuccess(b)) /\ streak' = 0
  <2> DEFINE c == RecordSuccess(b)
  <2>1. /\ c \in Breaker /\ c.failureCount = 0
        /\ c.state \in {"closed", "half_open"}
        /\ c.state = "closed" /\ b.state # "closed" => streak + 1 >= SuccessThreshold
    BY <1>1, <1>2 DEF RecordSuccess, Recovers, Breaker, CircuitState
  <2> HIDE DEF c
  <2>2. /\ breaker'.state \in {"closed", "open"}
        /\ breaker'.state = "closed" => c.state = "closed" /\ breaker'.failureCount < FailureThreshold
    BY <1>1, <1>7, <2>1 DEF RecordFailure, Trips, Breaker, CircuitState, c
  <2>3. QED
    BY <1>2, <2>1, <2>2 DEF ClosedMeansHealthy, ProbesCounted
<1>8. QED
  BY <1>3, <1>4, <1>5, <1>6, <1>7 DEF EntryBreaker, b

\* Whatever the step, the breaker keeps its invariant and closes only so.
LEMMA StepKeepsBreaker ==
    ASSUME BreakerInv, [Next]_vars
    PROVE  /\ ClosedMeansHealthy'
           /\ ProbesCounted'
           /\ breaker.state # "closed" /\ breaker'.state = "closed"
                  => streak + 1 >= SuccessThreshold \/ Restart
<1>1. CASE EntryBreaker
  BY <1>1, EntryKeepsBreaker
<1>2. CASE breaker' = Cooled(breaker) /\ streak' = streak
  BY <1>2 DEF Cooled, BreakerInv, ClosedMeansHealthy, ProbesCounted
<1>3. CASE Restart
  BY <1>3, ThresholdAssumption DEF Restart, FreshBreaker, ClosedMeansHealthy, ProbesCounted
<1>4. QED
  BY <1>1, <1>2, <1>3, NextMovesBreaker

\* The breaker's invariant holds of every state.
LEMMA BreakerInvAlways == Spec => []BreakerInv
<1>1. Init => ClosedMeansHealthy /\ ProbesCounted
  BY ThresholdAssumption DEF Init, FreshBreaker, ClosedMeansHealthy, ProbesCounted
<1>2. BreakerInv /\ [Next]_vars => (ClosedMeansHealthy /\ ProbesCounted)'
  BY StepKeepsBreaker
<1>3. QED
  BY <1>1, <1>2, TypeCorrect, PTL DEF Spec, BreakerInv

\* While the breaker is closed fewer failures than the threshold came in a row.
THEOREM HealthCorrect == Spec => []ClosedMeansHealthy
<1>1. BreakerInv => ClosedMeansHealthy
  BY DEF BreakerInv
<1>2. QED
  BY <1>1, BreakerInvAlways, PTL

\* The breaker closes again only with the last of SuccessThreshold entries that
\* executed with no failure among them, or because the process restarted.
THEOREM ClosingCorrect == Spec => ClosesAfterStreak
<1>1. BreakerInv /\ [Next]_vars =>
        [breaker.state # "closed" /\ breaker'.state = "closed"
             => streak + 1 >= SuccessThreshold \/ Restart]_vars
  BY StepKeepsBreaker
<1>2. QED
  BY <1>1, BreakerInvAlways, PTL DEF Spec, ClosesAfterStreak
-----------------------------------------------------------------------------
(* Sums: a fold over a finite set is a recursion that ends.  The induction  *)
(* theorems of the library take an operator; here a set stands for it.      *)

\* Induction over the natural numbers, with a set for the predicate.
LEMMA NatSetInduction ==
  ASSUME NEW A \in SUBSET Nat, 0 \in A, \A n \in A : n + 1 \in A
  PROVE  A = Nat
<1> SUFFICES ASSUME Nat \ A # {} PROVE FALSE
  OBVIOUS
<1> DEFINE R == {p \in Nat \X Nat : p[1] < p[2]}
<1>1. IsWellFoundedOn(R, Nat)
  BY NatLessThanWellFounded DEF OpToRel
<1>2. PICK x \in Nat \ A : \A y \in Nat \ A : <<y, x>> \notin R
  <2> HIDE DEF R
  <2> QED
    BY <1>1, WFMin
<1>3. x - 1 \in Nat
  BY <1>2
<1>4. <<x - 1, x>> \in R
  BY <1>3
<1>5. x - 1 \in A
  BY <1>2, <1>3, <1>4
<1> QED
  BY <1>3, <1>5

Pick(s) == CHOOSE x \in s : TRUE

\* Induction over the subsets of a finite set, in the order in which a fold
\* goes through them.
LEMMA PickInduction ==
  ASSUME NEW S, IsFiniteSet(S), NEW A, {} \in A,
         \A T \in SUBSET S : T # {} /\ T \ {Pick(T)} \in A => T \in A
  PROVE  \A T \in SUBSET S : T \in A
<1> DEFINE B == {n \in Nat : \A T \in SUBSET S : Cardinality(T) = n => T \in A}
<1>1. ASSUME NEW T \in SUBSET S
      PROVE  IsFiniteSet(T) /\ Cardinality(T) \in Nat /\ (Cardinality(T) = 0 <=> T = {})
  BY FS_Subset, FS_CardinalityType, FS_EmptySet
<1>2. 0 \in B
  BY <1>1
<1>3. ASSUME NEW n \in B PROVE n + 1 \in B
  <2> SUFFICES ASSUME NEW T \in SUBSET S, Cardinality(T) = n + 1 PROVE T \in A
    BY <1>3
  <2>1. T # {} /\ IsFiniteSet(T)
    BY <1>1
  <2>2. Pick(T) \in T
    BY <2>1 DEF Pick
  <2>3. T \ {Pick(T)} \in SUBSET S
    OBVIOUS
  <2>4. Cardinality(T \ {Pick(T)}) = n
    <3>1. Cardinality(T \ {Pick(T)}) = Cardinality(T) - 1
      BY <2>1, <2>2, FS_RemoveElement
    <3>2. n \in Nat /\ Cardinality(T) = n + 1
      BY <1>3
    <3> QED
      BY <3>1, <3>2
  <2> QED
    BY <1>3, <2>1, <2>3, <2>4
<1> HIDE DEF B
<1>4. B = Nat
  BY <1>2, <1>3, NatSetInduction, B \in SUBSET Nat DEF B
<1> QED
  BY <1>1, <1>4 DEF B

\* g adds f up over each of the sets of D.
SumsUp(g, f, D) ==
    /\ g = [s \in D |-> g[s]]
    /\ \A s \in D : /\ g[s] \in Int
                    /\ g[s] = IF s = {} THEN 0 ELSE f[Pick(s)] + g[s \ {Pick(s)}]

\* There is such a function: the recursion of a fold ends.
LEMMA SumExists ==
  ASSUME NEW S, IsFiniteSet(S), NEW f, \A x \in S : f[x] \in Int
  PROVE  \E g : SumsUp(g, f, SUBSET S)
<1> DEFINE Small(n) == {s \in SUBSET S : Cardinality(s) <= n}
           B == {n \in Nat : \E g : SumsUp(g, f, Small(n))}
<1>1. ASSUME NEW T \in SUBSET S
      PROVE  IsFiniteSet(T) /\ Cardinality(T) \in Nat /\ (Cardinality(T) = 0 <=> T = {})
  BY FS_Subset, FS_CardinalityType, FS_EmptySet
<1>2. ASSUME NEW T \in SUBSET S, T # {}
      PROVE  /\ Pick(T) \in T
             /\ T \ {Pick(T)} \in SUBSET S
             /\ Cardinality(T \ {Pick(T)}) = Cardinality(T) - 1
  <2>1. Pick(T) \in T
    BY <1>2 DEF Pick
  <2> QED
    BY <1>1, <2>1, FS_RemoveElement
<1>3. 0 \in B
  <2>1. Small(0) = {{}}
    BY <1>1
  <2>2. SumsUp([s \in {{}} |-> 0], f, {{}})
    BY DEF SumsUp
  <2> QED
    BY <2>1, <2>2
<1>4. ASSUME NEW n \in B PROVE n + 1 \in B
  <2>1. PICK g : SumsUp(g, f, Small(n))
    BY <1>4
  <2> DEFINE h == [s \in Small(n + 1) |-> IF s = {} THEN 0 ELSE f[Pick(s)] + g[s \ {Pick(s)}]]
  <2>2. ASSUME NEW s \in Small(n + 1), s # {}
        PROVE  s \ {Pick(s)} \in Small(n) /\ f[Pick(s)] \in Int
    BY <1>1, <1>2, <2>2
  <2>3. \A s \in Small(n) : s \in Small(n + 1) /\ h[s] = g[s]
    <3> SUFFICES ASSUME NEW s \in Small(n) PROVE s \in Small(n + 1) /\ h[s] = g[s]
      OBVIOUS
    <3>1. s \in Small(n + 1)
      BY <1>1
    <3> QED
      BY <2>1, <3>1 DEF SumsUp
  <2>4. ASSUME NEW s \in Small(n + 1)
        PROVE  /\ h[s] \in Int
               /\ h[s] = IF s = {} THEN 0 ELSE f[Pick(s)] + h[s \ {Pick(s)}]
    <3>1. CASE s = {}
      BY <3>1
    <3>2. CASE s # {}
      <4>1. s \ {Pick(s)} \in Small(n) /\ f[Pick(s)] \in Int
        BY <2>2, <3>2
      <4> HIDE DEF Small
      <4>2. g[s \ {Pick(s)}] \in Int
        BY <2>1, <4>1 DEF SumsUp
      <4>3. h[s] = f[Pick(s)] + g[s \ {Pick(s)}]
        BY <3>2
      <4>4. h[s \ {Pick(s)}] = g[s \ {Pick(s)}]
        BY <2>3, <4>1
      <4> HIDE DEF h
      <4> QED
        BY <3>2, <4>1, <4>2, <4>3, <4>4
    <3> QED
      BY <3>1, <3>2
  <2>5. h = [s \in Small(n + 1) |-> h[s]]
    OBVIOUS
  <2> HIDE DEF h, Small
  <2>6. SumsUp(h, f, Small(n + 1))
    BY <2>4, <2>5 DEF SumsUp
  <2> QED
    BY <2>6
<1> HIDE DEF B
<1>5. B = Nat
  BY <1>3, <1>4, NatSetInduction, B \in SUBSET Nat DEF B
<1>6. Small(Cardinality(S)) = SUBSET S
  BY <1>1, FS_Subset
<1>7. Cardinality(S) \in Nat
  BY FS_CardinalityType
<1> HIDE DEF Small
<1>8. \A n \in B : \E g : SumsUp(g, f, Small(n))
  BY DEF B
<1> QED
  BY <1>5, <1>6, <1>7, <1>8

\* The sum of f over each subset of S.
Sums(f, S) == CHOOSE g : g = [s \in SUBSET S |->
                                 IF s = {} THEN 0 ELSE f[Pick(s)] + g[s \ {Pick(s)}]]

\* The sums of a fold follow its recursion.
LEMMA SumsRecurse ==
  ASSUME NEW S, IsFiniteSet(S), NEW f, \A x \in S : f[x] \in Int
  PROVE  SumsUp(Sums(f, S), f, SUBSET S)
<1> DEFINE Body(g) == [s \in SUBSET S |-> IF s = {} THEN 0 ELSE f[Pick(s)] + g[s \ {Pick(s)}]]
<1>1. PICK h : SumsUp(h, f, SUBSET S)
  BY SumExists
<1>2. h = Body(h)
  BY <1>1 DEF SumsUp
<1>3. Sums(f, S) = Body(Sums(f, S))
  BY <1>2 DEF Sums
<1> DEFINE g == Sums(f, S)
<1>4. \A s \in SUBSET S : g[s] = IF s = {} THEN 0 ELSE f[Pick(s)] + g[s \ {Pick(s)}]
  BY <1>3
<1>5. g = [s \in SUBSET S |-> g[s]]
  BY <1>3
<1> HIDE DEF g
<1> DEFINE A == {s \in SUBSET S : g[s] \in Int}
<1>6. {} \in A
  <2>1. {} \in SUBSET S
    OBVIOUS
  <2>2. g[{}] = 0
    BY <1>4, <2>1
  <2> QED
    BY <2>1, <2>2
<1>7. ASSUME NEW T \in SUBSET S, T # {}, T \ {Pick(T)} \in A PROVE T \in A
  <2>1. Pick(T) \in S
    BY <1>7 DEF Pick
  <2> QED
    BY <1>4, <1>7, <2>1
<1> HIDE DEF A
<1>8. \A T \in SUBSET S : T \in A
  BY <1>6, <1>7, PickInduction
<1> QED
  BY <1>4, <1>5, <1>8 DEF SumsUp, A, g

\* The sum of a function of the community modules, by the recursion of its fold.
LEMMA SumIsFold ==
  ASSUME NEW f, NEW S
  PROVE  SumFunctionOnSet(f, S) = Sums(f, S)[S]
  BY DEF SumFunctionOnSet, FoldFunctionOnSet, MapThenFoldSet, Sums, Pick

\* On S, h is f with n added to the value of x.
Raised(f, h, x, n, S) ==
    \A y \in S : f[y] \in Int /\ h[y] = IF y = x THEN f[y] + n ELSE f[y]

\* Adding to one value of a function adds as much to its sum, if it counts.
LEMMA SumOfUpdate ==
  ASSUME NEW S, IsFiniteSet(S), NEW f, NEW h, NEW x, NEW n \in Int, Raised(f, h, x, n, S)
  PROVE  /\ SumFunctionOnSet(f, S) \in Int
         /\ SumFunctionOnSet(h, S) = SumFunctionOnSet(f, S) + IF x \in S THEN n ELSE 0
<1> DEFINE g == Sums(f, S)
           k == Sums(h, S)
           A == {T \in SUBSET S : k[T] = g[T] + IF x \in T THEN n ELSE 0}
<1>1. \A y \in S : f[y] \in Int /\ h[y] \in Int
  BY DEF Raised
<1>2. SumsUp(g, f, SUBSET S) /\ SumsUp(k, h, SUBSET S)
  BY <1>1, SumsRecurse
<1> HIDE DEF g, k
<1>3. {} \in A
  <2>1. {} \in SUBSET S
    OBVIOUS
  <2>2. g[{}] = 0 /\ k[{}] = 0
    BY <1>2, <2>1 DEF SumsUp
  <2> QED
    BY <2>1, <2>2
<1>4. ASSUME NEW T \in SUBSET S, T # {}, T \ {Pick(T)} \in A PROVE T \in A
  <2> DEFINE p == Pick(T)
             U == T \ {p}
  <2>1. p \in T /\ p \in S /\ U \in SUBSET S
    BY <1>4 DEF Pick
  <2> HIDE DEF p
  <2>2. g[T] = f[p] + g[U] /\ k[T] = h[p] + k[U] /\ g[U] \in Int
    BY <1>2, <1>4, <2>1 DEF SumsUp, p
  <2>3. k[U] = g[U] + IF x \in U THEN n ELSE 0
    BY <1>4 DEF p
  <2>4. f[p] \in Int /\ h[p] = IF p = x THEN f[p] + n ELSE f[p]
    BY <2>1 DEF Raised
  <2>5. k[T] = g[T] + IF x \in T THEN n ELSE 0
    <3>1. CASE p = x
      BY <2>1, <2>2, <2>3, <2>4, <3>1
    <3>2. CASE p # x
      BY <2>1, <2>2, <2>3, <2>4, <3>2
    <3> QED
      BY <3>1, <3>2
  <2> QED
    BY <2>5
<1> HIDE DEF A
<1>5. S \in A
  BY <1>3, <1>4, PickInduction
<1>6. g[S] \in Int
  BY <1>2 DEF SumsUp
<1> QED
  BY <1>5, <1>6, SumIsFold DEF A, g, k

\* A function that is zero everywhere has the sum zero.
LEMMA SumOfZero ==
  ASSUME NEW S, IsFiniteSet(S), NEW f, \A y \in S : f[y] = 0
  PROVE  SumFunctionOnSet(f, S) = 0
<1> DEFINE g == Sums(f, S)
           A == {T \in SUBSET S : g[T] = 0}
<1>1. SumsUp(g, f, SUBSET S)
  BY SumsRecurse
<1> HIDE DEF g
<1>2. {} \in A
  <2>1. {} \in SUBSET S
    OBVIOUS
  <2>2. g[{}] = 0
    BY <1>1, <2>1 DEF SumsUp
  <2> QED
    BY <2>1, <2>2
<1>3. ASSUME NEW T \in SUBSET S, T # {}, T \ {Pick(T)} \in A PROVE T \in A
  <2>1. Pick(T) \in T
    BY <1>3 DEF Pick
  <2>2. g[T] = f[Pick(T)] + g[T \ {Pick(T)}]
    BY <1>1, <1>3 DEF SumsUp
  <2> QED
    BY <1>3, <2>1, <2>2
<1> HIDE DEF A
<1>4. S \in A
  BY <1>2, <1>3, PickInduction
<1> QED
  BY <1>4, SumIsFold DEF A, g
-----------------------------------------------------------------------------
(* Money is only ever issued *)

\* There are finitely many accounts if there are finitely many users.
LEMMA AccountsFinite ==
  ASSUME IsFiniteSet(User)
  PROVE  IsFiniteSet(Account) /\ IsFiniteSet(SystemAccount) /\ SystemAccount \subseteq Account
<1>1. IsFiniteSet(Party) /\ IsFiniteSet(AccountType)
  <2>1. IsFiniteSet({}) /\ IsFiniteSet({} \cup {"main"})
    BY FS_EmptySet, FS_AddElement
  <2>2. IsFiniteSet({"main"} \cup {"escrow"})
    BY <2>1, FS_AddElement, {} \cup {"main"} = {"main"}
  <2>3. IsFiniteSet({"main", "escrow"} \cup {"revenue"})
    BY <2>2, FS_AddElement, {"main"} \cup {"escrow"} = {"main", "escrow"}
  <2> QED
    BY <2>3, FS_AddElement, {"main", "escrow"} \cup {"revenue"} = AccountType DEF AccountType, Party
<1>2. IsFiniteSet(Account)
  BY <1>1, FS_Product DEF Account
<1>3. SystemAccount \subseteq Account
  BY DEF SystemAccount
<1> QED
  BY <1>2, <1>3, FS_Subset

\* A commit between users moves what one has to the other; one that the system
\* pays adds as much to the balances as to what the system was debited.
LEMMA CommitConserves ==
  ASSUME IsFiniteSet(User), BalanceInv, Conservation, NEW ev \in EventId \cup {AutoId},
         NEW from \in Account, NEW to \in Account, NEW n \in Int,
         GuardedCommit(ev, from, to, n)
  PROVE  Conservation'
<1> DEFINE S == SystemAccount
           paid == [balance EXCEPT ![from] = @ - n]
<1>1. IsFiniteSet(Account) /\ IsFiniteSet(S) /\ S \subseteq Account
  BY AccountsFinite
<1>2. /\ balance \in [Account -> Int]
      /\ debited \in [Account -> Int]
  BY DEF BalanceInv, TypeOK
<1>3. /\ from # to /\ n \in Int /\ -n \in Int
      /\ debited' = [debited EXCEPT ![from] = @ + n]
      /\ balance' = IF from \in S
                    THEN [balance EXCEPT ![to] = @ + n]
                    ELSE [balance EXCEPT ![from] = @ - n, ![to] = @ + n]
  BY DEF GuardedCommit, Committed, IsSystemSource, SystemAccount
<1>4. balance' \in [Account -> Int]
  BY <1>2, <1>3
<1>5. /\ SumFunctionOnSet(debited, S) \in Int
      /\ SumFunctionOnSet(debited', S) = SumFunctionOnSet(debited, S) + IF from \in S THEN n ELSE 0
  <2>1. Raised(debited, debited', from, n, S)
    BY <1>1, <1>2, <1>3 DEF Raised
  <2> QED
    BY <1>1, <2>1, SumOfUpdate
<1>6. /\ SumFunctionOnSet(balance, Account) \in Int
      /\ SumFunctionOnSet(balance', Account) =
             SumFunctionOnSet(balance, Account) + IF from \in S THEN n ELSE 0
  <2>1. CASE from \in S
    <3>1. Raised(balance, balance', to, n, Account)
      BY <1>2, <1>3, <2>1 DEF Raised
    <3> QED
      BY <1>1, <2>1, <3>1, SumOfUpdate
  <2>2. CASE from \notin S
    <3>1. Raised(balance, paid, from, -n, Account)
      BY <1>2, <1>3 DEF Raised
    <3>2. Raised(paid, balance', to, n, Account)
      BY <1>2, <1>3, <2>2 DEF Raised
    <3> HIDE DEF paid
    <3>3. /\ SumFunctionOnSet(balance, Account) \in Int
          /\ SumFunctionOnSet(paid, Account) = SumFunctionOnSet(balance, Account) + (-n)
      BY <1>1, <1>3, <3>1, SumOfUpdate
    <3>4. SumFunctionOnSet(balance', Account) = SumFunctionOnSet(paid, Account) + n
      BY <1>1, <1>3, <3>2, SumOfUpdate
    <3> QED
      BY <1>3, <2>2, <3>3, <3>4
  <2> QED
    BY <2>1, <2>2
<1>7. DOMAIN balance = Account /\ DOMAIN balance' = Account
  BY <1>2, <1>4
<1>8. SumFunctionOnSet(balance, Account) = SumFunctionOnSet(debited, S)
  BY <1>7 DEF Conservation, SumFunction
<1> QED
  BY <1>5, <1>6, <1>7, <1>8 DEF Conservation, SumFunction, SystemAccount, Owner, Account

\* All balances together are what the system's entries have put into
\* circulation, for any finite number of users.
THEOREM ConservationCorrect == IsFiniteSet(User) => (Spec => []Conservation)
<1> SUFFICES ASSUME IsFiniteSet(User) PROVE Spec => []Conservation
  OBVIOUS
<1>1. Init => Conservation
  <2> SUFFICES ASSUME Init PROVE Conservation
    OBVIOUS
  <2>1. /\ \A y \in Account : balance[y] = 0
        /\ \A y \in SystemAccount : debited[y] = 0
        /\ DOMAIN balance = Account
    BY AccountsFinite DEF Init
  <2>2. SumFunctionOnSet(balance, Account) = 0 /\ SumFunctionOnSet(debited, SystemAccount) = 0
    BY <2>1, AccountsFinite, SumOfZero
  <2> QED
    BY <2>1, <2>2 DEF Conservation, SumFunction
<1>2. BalanceInv /\ Conservation /\ [Next]_vars => Conservation'
  <2> SUFFICES ASSUME BalanceInv, Conservation, [Next]_vars PROVE Conservation'
    OBVIOUS
  <2>1. CASE UNCHANGED tables
    BY <2>1 DEF tables, Conservation, SystemAccount
  <2> QED
    BY <2>1, StepMovesOneEntry, CommitConserves DEF BalanceInv
<1> QED
  BY <1>1, <1>2, BalancesCorrect, PTL DEF Spec
=============================================================================
