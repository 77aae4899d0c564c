---------------------------- MODULE LedgerPolicy ----------------------------
(***************************************************************************)
(* Limits and control configurations (limit-engine.ts, control-engine.ts   *)
(* and their tables) composed with the ledger: where Ledger lets a policy  *)
(* refuse any entry, here the tables decide.                               *)
(*                                                                         *)
(* What decides whether a limit or a configuration is about an entry (its  *)
(* scope, its action type and its scene) is abstracted to the types of the *)
(* paying account and the actions it covers; a scope "account" covers      *)
(* nothing, since the lookup compares its value with the account's type.   *)
(* All limits have one interval: the rows within it are a queue that the   *)
(* clock shortens.                                                         *)
(***************************************************************************)
EXTENDS Ledger, Sequences

CONSTANTS LimitChoice, \* the limits an administrator may create
          ConfigChoice \* the control configurations

\* What mapActionType makes of the types of entries: whatever leaves an escrow
\* or a revenue account is a "debit".
ActionType == {"transfer", "escrow_lock", "debit", "credit"}

Limit == [types     : SUBSET AccountType,
          actions   : SUBSET ActionType,
          dimension : {"time", "counterparty"},
          unit      : {"count", "amount"},
          threshold : Nat]

Config == [types    : SUBSET AccountType,
           actions  : SUBSET ActionType,
           white    : BOOLEAN,
           priority : Nat]

ASSUME PolicyAssumption ==
    /\ LimitChoice \subseteq Limit
    /\ ConfigChoice \subseteq Config

VARIABLES limits,  \* limits of status "active"
          configs, \* control configurations of status "active"
          recent   \* rows of transaction_details younger than the interval,
                   \* each with the limits it was checked against; rows the
                   \* system pays, which no limit counts, are left out

policy == <<limits, configs, recent>>
allVars == <<vars, policy>>

Row == [from : Account, to : Account, amount : Nat, under : SUBSET LimitChoice]

PolicyInit ==
    /\ Init
    /\ limits = {}
    /\ configs = {}
    /\ recent = <<>>
-----------------------------------------------------------------------------
Covers(p, from, action) == from[2] \in p.types /\ action \in p.actions

\* What the given rows, by their places in recent, count for limit l on entries
\* between the two accounts: any row that debits the payer, whatever its action.
Used(l, from, to, rows) ==
    SumFunctionOnSet(
        [i \in rows |-> IF l.unit = "count" THEN 1 ELSE recent[i].amount],
        {i \in rows : recent[i].from = from /\ (l.dimension = "time" \/ recent[i].to = to)})

\* The limits an entry is checked against.
Applicable(from, action) ==
    IF IsSystemSource(from) \/ "noLimit" \in flags[from]
    THEN {} ELSE {l \in limits : Covers(l, from, action)}

\* Mutation: a limit that is just reached does not refuse.
ReachedOver(l, from, to) == Used(l, from, to, DOMAIN recent) > l.threshold

\* The entry itself is not counted.
Reached(l, from, to) == Used(l, from, to, DOMAIN recent) >= l.threshold

\* The matching configurations of the highest priority, one of which decides.
Top(from, action) ==
    LET matching == IF IsSystemSource(from) \/ "noConfig" \in flags[from]
                    THEN {} ELSE {c \in configs : Covers(c, from, action)}
    IN {c \in matching : \A d \in matching : d.priority <= c.priority}

WithinLimits(from, to, action) == \A l \in Applicable(from, action) : ~Reached(l, from, to)

MayRefuse(from, to, action) ==
    \/ \E c \in Top(from, action) : ~c.white
    \/ ~WithinLimits(from, to, action)

MayAdmit(from, to, action) ==
    /\ Top(from, action) = {} \/ \E c \in Top(from, action) : c.white
    /\ WithinLimits(from, to, action)

\* The entry got past the policy: it was executed, in the end without success
\* or not.
PastPolicy ==
    \/ reply'.code \in {"ok", "thrown"}
    \/ reply'.code = "storage" /\ breaker' # RecordFailure(Admitted(breaker))

\* [4], [5] and the row of [8]: which answers the policy allows to an entry.
Policy(from, to, n, action) ==
    /\ PastPolicy => MayAdmit(from, to, action)
    /\ reply'.code = "rejected" =>
           from = to \/ FlagsForbid(from, to) \/ Insufficient(from, n) \/ MayRefuse(from, to, action)
    /\ recent' = IF reply'.code = "ok" /\ ~IsSystemSource(from)
                 THEN Append(recent, [from |-> from, to |-> to, amount |-> n,
                                      under |-> Applicable(from, action)])
                 ELSE recent
    /\ UNCHANGED <<limits, configs>>
-----------------------------------------------------------------------------
(* The handlers of Ledger under the policy.  The system's own entries are   *)
(* exempt.                                                                  *)

\* The request names the type of the entry, and so the action.
LimitedTransfer(ev, u, v, n, action) ==
    Transfer(ev, u, v, n) /\ Policy(Main(u), Main(v), n, action)

LimitedLock(u, n) == EscrowLock(u, n) /\ Policy(Main(u), Escrow(u), n, "escrow_lock")

LimitedDispute(u, n) == EscrowDispute(u, n) /\ Policy(Escrow(u), Main(u), n, "debit")

LimitedConfirm(u, v, n) ==
    /\ EscrowConfirm(u, v, n)
    /\ Policy(Escrow(u), Revenue(v), n - PlatformFee(n), "debit")

LimitedFee ==
    /\ ChargeFee
    /\ Policy(Revenue(fee.payee), Main(System), PlatformFee(fee.gross), "debit")

FreeGrant(u, n) == Grant(u, n) /\ UNCHANGED policy

\* Freezing, unfreezing and closing touch nothing that the policy reads and are
\* left to Ledger.
Exempting(u, f) == ControlAccount(u, f) /\ UNCHANGED policy

Passing == (TimeoutElapses \/ Restart) /\ UNCHANGED policy

\* Creation and change of status.
SetLimit(l) ==
    /\ Idle
    /\ limits' \in {limits \cup {l}, limits \ {l}}
    /\ UNCHANGED <<vars, configs, recent>>

SetConfig(c) ==
    /\ Idle
    /\ configs' \in {configs \cup {c}, configs \ {c}}
    /\ UNCHANGED <<vars, limits, recent>>

\* The oldest row leaves the interval.
RowAges ==
    /\ recent # <<>>
    /\ recent' = Tail(recent)
    /\ UNCHANGED <<vars, limits, configs>>

PolicyNext ==
    \/ \E ev \in EventId \cup {AutoId}, u \in Payer, v \in Payee, n \in Amount,
          action \in ActionType : LimitedTransfer(ev, u, v, n, action)
    \/ \E u \in Payer, n \in Amount : LimitedLock(u, n)
    \/ \E u \in Payer, n \in Amount : LimitedDispute(u, n)
    \/ \E u \in Payer, v \in Payee, n \in Amount : LimitedConfirm(u, v, n)
    \/ LimitedFee
    \/ \E u \in Party, n \in Amount : FreeGrant(u, n)
    \/ \E u \in Administered, f \in FlagChoice : Exempting(u, f)
    \/ Passing
    \/ \E l \in LimitChoice : SetLimit(l)
    \/ \E c \in ConfigChoice : SetConfig(c)
    \/ RowAges

PolicySpec == PolicyInit /\ [][PolicyNext]_allVars
-----------------------------------------------------------------------------
(* Properties *)

\* The ledger and the tables of the policy are well typed.
PolicyTypeOK ==
    /\ TypeOK
    /\ limits \subseteq LimitChoice
    /\ configs \subseteq ConfigChoice
    /\ recent \in Seq(Row)

\* What one account spends within an interval, under one limit, stays below
\* its threshold but for the latest entry: the limit may be exceeded by that
\* one entry and by no more, over entries of other actions, failures, retries
\* and the limit being disabled and enabled again.
LimitHolds ==
    \A i \in DOMAIN recent : \A l \in recent[i].under :
        LET earlier == {j \in 1..i - 1 : l \in recent[j].under}
        IN  Used(l, recent[i].from, recent[i].to, earlier) < l.threshold
=============================================================================
