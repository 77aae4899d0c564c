------------------------------ MODULE MCLedger ------------------------------
(* Small instances of Ledger. *)
EXTENDS Ledger

\* The flag sets an administrator writes.
MCFlagChoice == {{}, {"frozen"}}
=============================================================================
