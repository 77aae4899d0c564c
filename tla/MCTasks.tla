------------------------------ MODULE MCTasks -------------------------------
(* Small instances of Tasks. *)
EXTENDS Tasks, TLC

\* The agents are interchangeable; sound for runs without liveness.
MCSymmetry == Permutations(Agent)
=============================================================================
