--------------------------- MODULE MCLedgerPolicy ---------------------------
(* Small instances of LedgerPolicy. *)
EXTENDS LedgerPolicy

\* One debit, whatever it is for; and an amount per counterparty
\* on what leaves the escrow.
MCLimitChoice ==
    {[types |-> AccountType, actions |-> ActionType,
      dimension |-> "time", unit |-> "count", threshold |-> 1],
     [types |-> {"escrow"}, actions |-> {"debit"},
      dimension |-> "counterparty", unit |-> "amount", threshold |-> 4]}

\* A blacklist for locks.
MCConfigChoice ==
    {[types |-> AccountType, actions |-> {"escrow_lock"}, white |-> FALSE, priority |-> 0]}

MCFlagChoice == {{}, {"noLimit"}}
=============================================================================
