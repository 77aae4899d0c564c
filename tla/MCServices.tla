----------------------------- MODULE MCServices -----------------------------
(***************************************************************************)
(* Four services of the hub that share the process and nothing else.  No   *)
(* action of one reads or writes the state of another, so every property   *)
(* of one holds of all together if it holds of that one alone: "part" says *)
(* which of them moves, and the others stay as they started.               *)
(***************************************************************************)
EXTENDS SkillScheduler, Leaderboard, Releases, Tls, TLC

CONSTANTS c1, c2, w1, w2

\* Client c1 comes first; reports name both workspaces or the second.
MCHostname == c1 :> 1 @@ c2 :> 2
MCReportChoice == {{w1, w2}, {w2}}

\* Entries that tie in the total, in one dimension, or in nothing.
MCEntry(name, points, unlocked, score) ==
    [name |-> name, points |-> points, unlocked |-> unlocked, score |-> score]
MCEntryChoice ==
    {MCEntry("x", 1, 0, 0), MCEntry("x", 1, 0, 1),
     MCEntry("y", 1, 0, 1), MCEntry("y", 0, 1, 0)}

VARIABLE part

MCInit ==
    /\ part \in {"scheduler", "leaderboard", "releases", "tls"}
    /\ SchedulerInit
    /\ part # "scheduler" => schedule = 0 /\ offset = 0
    /\ LeaderboardInit
    /\ ReleasesInit
    /\ TlsInit

MCNext ==
    /\ UNCHANGED part
    /\ \/ /\ part = "scheduler"
          /\ SchedulerNext
          /\ UNCHANGED <<leaderboardVars, releasesVars, tlsVars>>
       \/ /\ part = "leaderboard"
          /\ LeaderboardNext
          /\ UNCHANGED <<schedulerVars, releasesVars, tlsVars>>
       \/ /\ part = "releases"
          /\ ReleasesNext
          /\ UNCHANGED <<schedulerVars, leaderboardVars, tlsVars>>
       \/ /\ part = "tls"
          /\ TlsNext
          /\ UNCHANGED <<schedulerVars, leaderboardVars, releasesVars>>

MCSymmetry == Permutations(Build) \cup Permutations(Agent)
=============================================================================
