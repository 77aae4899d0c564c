------------------------------- MODULE Books --------------------------------
(***************************************************************************)
(* What the ledger promises, without its accounts table, its controls or   *)
(* its circuit breaker: a book of entries.  An entry moves an amount from  *)
(* one account to another in one step, at most once per event id, and no   *)
(* account but the system's goes below zero.                               *)
(***************************************************************************)
EXTENDS Integers

CONSTANTS Account,        \* every account
          SystemAccount,  \* the accounts of the issuer: they may go negative
          Event,          \* the event ids a caller chooses
          Quantity        \* the amounts one entry can move

VARIABLES position,  \* what was credited to each account less what was debited
          posted     \* the event ids already entered

vars == <<position, posted>>

\* One entry.  e is the set of event ids it enters: one id, or none when the
\* entry is anonymous (the engine draws an id nobody else can know).
Post(e, from, to, n) ==
    /\ e \cap posted = {}
    /\ posted' = posted \cup e
    /\ from # to
    /\ from \in SystemAccount \/ n <= position[from]
    /\ position' = [position EXCEPT ![from] = @ - n, ![to] = @ + n]

Init ==
    /\ position = [a \in Account |-> 0]
    /\ posted = {}

\* The accounts that a step changes.
Moved == {a \in Account : position'[a] # position[a]}

Next == \E from, to \in Moved, n \in Quantity, e \in {{}} \cup {{x} : x \in Event} :
            Post(e, from, to, n)

Spec == Init /\ [][Next]_vars
=============================================================================
