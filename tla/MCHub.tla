------------------------------- MODULE MCHub --------------------------------
(* Small instances of Hub. *)
EXTENDS Hub

CONSTANT c1

\* All agents are those of one client.
MCOwner == [a \in Agent |-> c1]
=============================================================================
