------------------------------- MODULE Ledger -------------------------------
(***************************************************************************)
(* The double-entry ledger: LedgerEngine.recordEntry and the tables it     *)
(* writes (ledger-engine.ts, db-accounts.ts), the account life cycle       *)
(* (account-engine.ts) and the HTTP handlers that drive both               *)
(* (routes/accounts.ts, routes/admin-accounts.ts).                         *)
(*                                                                         *)
(* The server is one Node process over a synchronous SQLite connection, so *)
(* a handler runs to its end before the next one starts; the only thing    *)
(* that can come between two entries of one handler is the process dying.  *)
(*                                                                         *)
(* Abstractions.  An account row that does not exist yet is a row with the *)
(* column defaults (getOrCreateAccount inserts just that).  The rows of    *)
(* transaction_details are kept as the event ids they hold and, for each   *)
(* account, the totals debited and credited.  The reject codes are grouped *)
(* by what they do to the state.  Control configurations and limits may    *)
(* refuse any entry of an account that is subject to them.                 *)
(***************************************************************************)
EXTENDS Integers, Functions, CircuitBreaker

CONSTANTS User,         \* user ids other than the system's
          System,       \* SYSTEM_USER, '__system__'
          Payer,        \* bound: the ids that requests name as the paying side
          Payee,        \* bound: the ids that they name as the receiving side
          EventId,      \* event ids chosen by callers
          Amount,       \* the amounts requests carry, in milli-credits
          MaxAmount,    \* MAX_AMOUNT
          FlagChoice,   \* the flag sets an administrator may write
          Administered, \* the ids whose main accounts an administrator acts on
          MaxTurnover,  \* bound: no account is ever credited more than this
          MaxFailures   \* bound: failureCount stays at or below this

\* A request may name any user id, the system's included: no route checks.
Party == User \cup {System}

ControlFlag == {"noDebit", "noCredit", "noLimit", "noConfig", "frozen"}

ASSUME LedgerAssumption ==
    /\ System \notin User
    /\ Payer \subseteq Party
    /\ Payee \subseteq Party
    /\ Amount \subseteq Nat
    /\ MaxAmount \in Nat
    /\ FlagChoice \subseteq SUBSET ControlFlag
    /\ Administered \subseteq Party
    /\ MaxTurnover \in Nat
    /\ MaxFailures \in Nat

VARIABLES balance,   \* accounts.balance
          flags,     \* accounts.control_flags, the set of raised bits
          status,    \* accounts.status
          debited,   \* SUM(amount) of transaction_details by debit_account_id
          credited,  \* SUM(amount) of transaction_details by credit_account_id
          settled,   \* transaction_details.event_id, those callers chose
          breaker,   \* the engine's circuit breaker, in memory
          fee,       \* locals of an escrow confirmation between its two entries
          reply,     \* what the last recordEntry returned
          streak     \* history: entries committed since the last failure

tables == <<balance, debited, credited, settled>>
vars == <<balance, flags, status, debited, credited, settled, breaker, fee, reply, streak>>
-----------------------------------------------------------------------------
AccountType == {"main", "escrow", "revenue"}
Account == Party \X AccountType
Owner(a) == a[1]
Main(u) == <<u, "main">>
Escrow(u) == <<u, "escrow">>
Revenue(u) == <<u, "revenue">>
SystemAccount == {a \in Account : Owner(a) = System}

AccountStatus == {"active", "frozen", "closed"}

\* An entry without a caller's event id gets a random one, which no later
\* request can repeat: it is never looked up again.
AutoId == "auto"

\* "duplicate" is D001, a success that returns the recorded transaction;
\* "thrown" and "storage" are both E001: an error the engine or a constraint
\* of the schema raises, and a failure of the database itself.
ReplyCode == {"none", "blocked", "invalid", "duplicate", "rejected",
              "thrown", "storage", "ok"}

\* The locals of an escrow confirmation that the fee entry uses.
Confirmation == [payer : Party, payee : Party, gross : Nat]

NoFee == [payer |-> System, payee |-> System, gross |-> 0]

\* Mutation: the fee and the payee's part change places.
PlatformFeeSwapped(n) == n - ((15 * n + 50) \div 100)

\* Math.round(amount * 0.15) of an amount in milli-credits.
PlatformFee(n) == (15 * n + 50) \div 100

Init ==
    /\ balance = [a \in Account |-> 0]
    /\ flags = [a \in Account |-> {}]
    /\ status = [a \in Account |-> "active"]
    /\ debited = [a \in Account |-> 0]
    /\ credited = [a \in Account |-> 0]
    /\ settled = {}
    /\ breaker = FreshBreaker
    /\ fee = NoFee
    /\ reply = [event |-> AutoId, code |-> "none"]
    /\ streak = 0
-----------------------------------------------------------------------------
(* recordEntry *)

IsSystemSource(from) == Owner(from) = System

ValidAmount(n) == n > 0 /\ n <= MaxAmount

\* Mutation: only the paying side is looked at.
FlagsForbidDebit(from, to) ==
    ~IsSystemSource(from) /\ flags[from] \cap {"frozen", "noDebit"} # {}

\* [3] checkControlFlags
FlagsForbid(from, to) ==
    \/ ~IsSystemSource(from) /\ flags[from] \cap {"frozen", "noDebit"} # {}
    \/ flags[to] \cap {"frozen", "noCredit"} # {}

\* [4], [5] A configuration or a limit may refuse: the account is subject to
\* one of them unless an administrator has set the bit that exempts it.
PolicyApplies(from) ==
    ~IsSystemSource(from) /\ ~({"noLimit", "noConfig"} \subseteq flags[from])

\* [6] The balance check, which escrow accounts skip.
Insufficient(from, n) ==
    ~IsSystemSource(from) /\ from[2] # "escrow" /\ balance[from] < n

\* Mutation: the transaction does not check the balance.
ThrowsUnchecked(ev, from, to, n) ==
    \/ ~IsSystemSource(from) /\ status[from] # "active"
    \/ status[to] # "active"
    \/ ev \in settled

\* [7] What makes the transaction throw and roll back: updateBalance finds no
\* active row, or the CHECK on the balance or the UNIQUE on the event id fails.
Throws(ev, from, to, n) ==
    \/ ~IsSystemSource(from) /\ (status[from] # "active" \/ balance[from] < n)
    \/ status[to] # "active"
    \/ ev \in settled

\* Mutation: the recorded transaction is not looked up.
IsDuplicateNever(ev) == FALSE

\* [2] The event id has a recorded transaction.
IsDuplicate(ev) == ev \in settled

Answer(ev, code) == reply' = [event |-> ev, code |-> code]

\* [0] The breaker refuses.
Blocked(ev) ==
    /\ Refuses(breaker)
    /\ Answer(ev, "blocked")
    /\ UNCHANGED <<tables, breaker, streak>>

\* An answer that leaves the books alone; the breaker was only consulted.
Declined(ev, code) ==
    /\ Answer(ev, code)
    /\ breaker' = Admitted(breaker)
    /\ UNCHANGED <<tables, streak>>

\* The catch block: the transaction has rolled back, the breaker, which the
\* transaction had left as b, has not.
Failed(ev, code, b) ==
    /\ b.failureCount < MaxFailures
    /\ Answer(ev, code)
    /\ breaker' = RecordFailure(b)
    /\ streak' = 0
    /\ UNCHANGED tables

\* Mutation: the payer is not debited.
CommittedUnpaid(ev, from, to, n) ==
    /\ credited[to] + n <= MaxTurnover
    /\ balance' = [balance EXCEPT ![to] = @ + n]
    /\ debited' = [debited EXCEPT ![from] = @ + n]
    /\ credited' = [credited EXCEPT ![to] = @ + n]
    /\ settled' = settled \cup ({ev} \ {AutoId})
    /\ breaker' = RecordSuccess(Admitted(breaker))
    /\ streak' = IF streak < SuccessThreshold THEN streak + 1 ELSE streak
    /\ Answer(ev, "ok")

\* Mutation: the system account pays like any other.
CommittedSystemPays(ev, from, to, n) ==
    /\ credited[to] + n <= MaxTurnover
    /\ balance' = [balance EXCEPT ![from] = @ - n, ![to] = @ + n]
    /\ debited' = [debited EXCEPT ![from] = @ + n]
    /\ credited' = [credited EXCEPT ![to] = @ + n]
    /\ settled' = settled \cup ({ev} \ {AutoId})
    /\ breaker' = RecordSuccess(Admitted(breaker))
    /\ streak' = IF streak < SuccessThreshold THEN streak + 1 ELSE streak
    /\ Answer(ev, "ok")

\* Mutation: anonymous entries are recorded under one shared id.
CommittedAnonymous(ev, from, to, n) ==
    /\ credited[to] + n <= MaxTurnover
    /\ balance' = IF IsSystemSource(from)
                  THEN [balance EXCEPT ![to] = @ + n]
                  ELSE [balance EXCEPT ![from] = @ - n, ![to] = @ + n]
    /\ debited' = [debited EXCEPT ![from] = @ + n]
    /\ credited' = [credited EXCEPT ![to] = @ + n]
    /\ settled' = settled \cup {ev}
    /\ breaker' = RecordSuccess(Admitted(breaker))
    /\ streak' = IF streak < SuccessThreshold THEN streak + 1 ELSE streak
    /\ Answer(ev, "ok")

\* [7], [8] Both balances, the transaction row and the breaker's success.
Committed(ev, from, to, n) ==
    /\ credited[to] + n <= MaxTurnover
    /\ balance' = IF IsSystemSource(from)
                  THEN [balance EXCEPT ![to] = @ + n]
                  ELSE [balance EXCEPT ![from] = @ - n, ![to] = @ + n]
    /\ debited' = [debited EXCEPT ![from] = @ + n]
    /\ credited' = [credited EXCEPT ![to] = @ + n]
    /\ settled' = settled \cup ({ev} \ {AutoId})
    /\ breaker' = RecordSuccess(Admitted(breaker))
    /\ streak' = IF streak < SuccessThreshold THEN streak + 1 ELSE streak
    /\ Answer(ev, "ok")

\* The pipeline past the validation of the amount.  The database may fail at
\* any statement, and at the commit, when the success is already recorded.
Execute(ev, from, to, n) ==
    \/ Failed(ev, "storage", Admitted(breaker))
    \/ IsDuplicate(ev) /\ Declined(ev, "duplicate")
    \/ /\ ~IsDuplicate(ev)
       /\ from = to \/ FlagsForbid(from, to) \/ PolicyApplies(from) \/ Insufficient(from, n)
       /\ Declined(ev, "rejected")
    \/ /\ ~IsDuplicate(ev)
       /\ from # to /\ ~FlagsForbid(from, to) /\ ~Insufficient(from, n)
       /\ IF Throws(ev, from, to, n)
          THEN Failed(ev, "thrown", Admitted(breaker))
          ELSE \/ Committed(ev, from, to, n)
               \/ Failed(ev, "storage", RecordSuccess(Admitted(breaker)))

RecordEntry(ev, from, to, n) ==
    \/ Blocked(ev)
    \/ /\ ~Refuses(breaker)
       /\ \/ ~ValidAmount(n) /\ Declined(ev, "invalid")
          \/ ValidAmount(n) /\ Execute(ev, from, to, n)
-----------------------------------------------------------------------------
(* The HTTP handlers.  A handler starts only when no other one is running. *)

Idle == fee = NoFee

Transfer(ev, u, v, n) ==
    /\ Idle
    /\ RecordEntry(ev, Main(u), Main(v), n)
    /\ UNCHANGED <<flags, status, fee>>

Grant(u, n) ==
    /\ Idle
    /\ RecordEntry(AutoId, Main(System), Main(u), n)
    /\ UNCHANGED <<flags, status, fee>>

EscrowLock(u, n) ==
    /\ Idle
    /\ RecordEntry(AutoId, Main(u), Escrow(u), n)
    /\ UNCHANGED <<flags, status, fee>>

EscrowDispute(u, n) ==
    /\ Idle
    /\ RecordEntry(AutoId, Escrow(u), Main(u), n)
    /\ UNCHANGED <<flags, status, fee>>

\* Escrow to the payee's revenue account; the handler goes on to the fee when
\* the release succeeded and the fee is positive.
EscrowConfirm(payer, payee, n) ==
    /\ Idle
    /\ RecordEntry(AutoId, Escrow(payer), Revenue(payee), n - PlatformFee(n))
    /\ fee' = IF reply'.code = "ok" /\ PlatformFee(n) > 0
              THEN [payer |-> payer, payee |-> payee, gross |-> n]
              ELSE NoFee
    /\ UNCHANGED <<flags, status>>

\* The second entry of the confirmation; its result is ignored.
ChargeFee ==
    /\ fee # NoFee
    /\ RecordEntry(AutoId, Revenue(fee.payee), Main(System), PlatformFee(fee.gross))
    /\ fee' = NoFee
    /\ UNCHANGED <<flags, status>>
-----------------------------------------------------------------------------
(* The administrator's handlers: they act on main accounts. *)

unchangedBooks == UNCHANGED <<tables, breaker, fee, reply, streak>>

ControlAccount(u, f) ==
    /\ Idle
    /\ flags' = [flags EXCEPT ![Main(u)] = f]
    /\ UNCHANGED status
    /\ unchangedBooks

Freeze(u) ==
    /\ Idle
    /\ status[Main(u)] # "closed"
    /\ flags' = [flags EXCEPT ![Main(u)] = @ \cup {"frozen"}]
    /\ status' = [status EXCEPT ![Main(u)] = "frozen"]
    /\ unchangedBooks

Unfreeze(u) ==
    /\ Idle
    /\ flags' = [flags EXCEPT ![Main(u)] = @ \ {"frozen"}]
    /\ status' = [status EXCEPT ![Main(u)] = "active"]
    /\ unchangedBooks

\* AccountEngine.close, which no route calls: an operation of the engine.
Close(u) ==
    /\ Idle
    /\ balance[Main(u)] = 0
    /\ status' = [status EXCEPT ![Main(u)] = "closed"]
    /\ UNCHANGED flags
    /\ unchangedBooks
-----------------------------------------------------------------------------
(* The clock, and the process dying and starting again. *)

TimeoutElapses ==
    /\ Idle
    /\ ~breaker.cooled
    /\ breaker' = Cooled(breaker)
    /\ UNCHANGED <<tables, flags, status, fee, reply, streak>>

\* The tables survive; the breaker and the handler's locals do not.
Restart ==
    /\ breaker' = FreshBreaker
    /\ fee' = NoFee
    /\ streak' = 0
    /\ UNCHANGED <<tables, flags, status, reply>>

Next ==
    \/ \E ev \in EventId \cup {AutoId}, u \in Payer, v \in Payee, n \in Amount :
           Transfer(ev, u, v, n)
    \/ \E u \in Party, n \in Amount : Grant(u, n)
    \/ \E u \in Payer, n \in Amount : EscrowLock(u, n)
    \/ \E u \in Payer, n \in Amount : EscrowDispute(u, n)
    \/ \E u \in Payer, v \in Payee, n \in Amount : EscrowConfirm(u, v, n)
    \/ ChargeFee
    \/ \E u \in Administered, f \in FlagChoice : ControlAccount(u, f)
    \/ \E u \in Administered : Freeze(u)
    \/ \E u \in Administered : Unfreeze(u)
    \/ \E u \in Administered : Close(u)
    \/ TimeoutElapses
    \/ Restart

Spec == Init /\ [][Next]_vars
-----------------------------------------------------------------------------
(* Properties *)

\* Every variable keeps its type; a recorded event id is one a caller chose.
TypeOK ==
    /\ balance \in [Account -> Int]
    /\ flags \in [Account -> SUBSET ControlFlag]
    /\ status \in [Account -> AccountStatus]
    /\ debited \in [Account -> Nat]
    /\ credited \in [Account -> Nat]
    /\ settled \subseteq EventId \ {AutoId}
    /\ breaker \in Breaker
    /\ fee \in Confirmation
    /\ reply \in [event : EventId \cup {AutoId}, code : ReplyCode]
    /\ streak \in 0..SuccessThreshold

\* The balance column and the transaction rows agree for every account: what a
\* user's account holds is what was credited to it less what was debited (the
\* system account is a pure source, its balance column is never debited).
\* recordEntry keeps the two in step over failures, rollbacks and restarts.
DoubleEntry ==
    \A a \in Account :
        balance[a] = credited[a] - (IF a \in SystemAccount THEN 0 ELSE debited[a])

\* No account is ever overdrawn, although escrow accounts skip the balance
\* check of the pipeline and are protected by the throw and rollback alone.
NoOverdraft == \A a \in Account : balance[a] >= 0

\* Money is only ever issued: all balances together are what the system's
\* entries have put into circulation (ledger-engine.test.ts adds up the same).
Conservation == SumFunction(balance) = SumFunctionOnSet(debited, SystemAccount)

\* The last answer and the tables agree about a caller's event id: an entry
\* reported as done is recorded, and once an entry is recorded no retry of its
\* event id is ever told that it was rejected or that it failed for a reason
\* other than the database itself (whatever happened to the accounts since).
ReplyMatchesBooks ==
    /\ reply.code \in {"ok", "duplicate"} /\ reply.event # AutoId => reply.event \in settled
    /\ reply.event \in settled => reply.code \notin {"rejected", "thrown"}

\* Between the two entries of an escrow confirmation nothing on the payee's
\* side stands in the way of the fee: the breaker, which the release has just
\* gone through, does not refuse it, the payee's revenue account covers it, and
\* if the control flags or an inactive account would stop it, they are those of
\* the system's main account, which an administrator can restrict like any other.
FeeCovered ==
    fee # NoFee =>
        LET payee == Revenue(fee.payee)
            n     == PlatformFee(fee.gross)
        IN  /\ ~Refuses(breaker)
            /\ ~Insufficient(payee, n)
            /\ FlagsForbid(payee, Main(System)) => flags[Main(System)] \cap {"frozen", "noCredit"} # {}
            /\ Throws(AutoId, payee, Main(System), n) => status[Main(System)] # "active"

\* While the breaker is closed fewer failures than the threshold have come in a
\* row, also after it went through open and half-open, where the counter keeps
\* growing past the threshold.
ClosedMeansHealthy ==
    breaker.state = "closed" => breaker.failureCount < FailureThreshold

\* The breaker closes again only with the last of SuccessThreshold entries that
\* executed with no failure among them (or because the process restarted):
\* successes counted in an earlier half-open period do not count again.  All
\* but the last have committed: a success is recorded before the commit, so
\* that an entry whose commit fails may close the breaker.
ClosesAfterStreak ==
    [][breaker.state # "closed" /\ breaker'.state = "closed"
           => streak + 1 >= SuccessThreshold \/ Restart]_vars

\* No entry changes the balance of an account that is frozen, by its control
\* flag or by its status, or closed; the two are set and cleared independently
\* and only one of them is looked at before the transaction.
FrozenKeepsFunds ==
    [][\A a \in Account :
          status[a] # "active" \/ "frozen" \in flags[a] => balance'[a] = balance[a]]_vars

\* The transaction rows by themselves are a sound book of entries: Books with
\* each account's position read off the rows, not off the balance column.
Position == [a \in Account |-> credited[a] - debited[a]]

Book == INSTANCE Books WITH position <- Position, posted <- settled,
                           Event <- EventId, Quantity <- 1..MaxAmount

RefinesBooks == Book!Spec

-----------------------------------------------------------------------------
(* What a comment of the code says and the code does not do. *)

\* routes/accounts.ts says of a confirmation: "Release escrow: payer escrow ->
\* payee main (minus 15% platform fee)": the escrowed amount leaves the escrow.
ConfirmReleasesEscrow ==
    [][fee = NoFee /\ fee' # NoFee
           => balance'[Escrow(fee'.payer)] = balance[Escrow(fee'.payer)] - fee'.gross]_vars
=============================================================================
