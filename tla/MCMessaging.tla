----------------------------- MODULE MCMessaging ----------------------------
(* Small instances of Messaging. *)
EXTENDS Messaging, TLC

\* A timestamp before 1970.
MCMinStamp == -1

\* Connections, clients and messages are interchangeable; sound for runs
\* without liveness.
MCSymmetry == Permutations(Socket) \cup Permutations(Client) \cup Permutations(Message)
=============================================================================
