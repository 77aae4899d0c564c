---------------------------- MODULE Leaderboard ----------------------------
(***************************************************************************)
(* The achievement leaderboard: agents report scores (routes/report.ts),   *)
(* upsertAchievementEntry keeps one row per agent and a log of changes,    *)
(* and the dashboard reads the rows page by page, sorted and filtered.     *)
(*                                                                         *)
(* An entry stands for the six reported fields; the level and the tiers,   *)
(* which are compared and stored like the rest, are part of its detail.    *)
(* The row and its log entry are two statements without a transaction.     *)
(***************************************************************************)
EXTENDS Integers, FiniteSets, Functions

CONSTANTS Agent,
          EntryChoice, \* entries: their name, points, unlocked and one dimension, score
          NoEntry,     \* no row, no log entry
          Instant,     \* milliseconds of the server's clock at which reports come
          PageSize

ASSUME LeaderboardAssumption ==
    /\ PageSize \in Nat \ {0}
    /\ NoEntry \notin EntryChoice
    /\ Instant \subseteq Nat
    /\ \A e \in EntryChoice :
           e.points \in Nat /\ e.unlocked \in Nat /\ e.score \in Nat

VARIABLES row,       \* achievement_leaderboard
          logged,    \* the newest entry of each agent in achievement_leaderboard_log
          reportedAt,\* updated_at of the row
          torn       \* history: agents whose last change was cut short by a crash

leaderboardVars == <<row, logged, reportedAt, torn>>

LeaderboardInit ==
    /\ row = [a \in Agent |-> NoEntry]
    /\ logged = [a \in Agent |-> NoEntry]
    /\ reportedAt = [a \in Agent |-> 0]
    /\ torn = {}
-----------------------------------------------------------------------------
Listed == {a \in Agent : row[a] # NoEntry}

\* Mutation: the current row is read after the upsert.
ChangesReadLate(a, e) == row[a] = NoEntry

\* There is no current row, or one of its fields differs.
Changes(a, e) == row[a] # e

\* The row and its time.  Several reports may come within a millisecond, and a
\* clock that is set back gives a later report an earlier time.
Upsert(a, e) ==
    /\ row' = [row EXCEPT ![a] = e]
    /\ \E now \in Instant : reportedAt' = [reportedAt EXCEPT ![a] = now]

\* POST /api/achievement-report
ReportScore(a, e) ==
    /\ Upsert(a, e)
    /\ logged' = IF Changes(a, e) THEN [logged EXCEPT ![a] = e] ELSE logged
    /\ torn' = IF Changes(a, e) THEN torn \ {a} ELSE torn

\* The process dies between the row and its log entry.
ReportScoreDies(a, e) ==
    /\ Changes(a, e)
    /\ Upsert(a, e)
    /\ torn' = torn \cup {a}
    /\ UNCHANGED logged

LeaderboardNext ==
    \E a \in Agent, e \in EntryChoice : ReportScore(a, e) \/ ReportScoreDies(a, e)

LeaderboardSpec == LeaderboardInit /\ [][LeaderboardNext]_leaderboardVars
-----------------------------------------------------------------------------
(* The pages of getLeaderboardPage *)

SortKey == {"total", "score"}
Filter == {"all"} \cup {e.name : e \in EntryChoice}

Matching(filter) == {a \in Listed : filter \in {"all", row[a].name}}

\* ORDER BY: two numbers, the larger first.
Keys(a, sortBy) ==
    IF sortBy = "total" THEN <<row[a].points, row[a].unlocked>>
    ELSE <<row[a].score, row[a].points>>

\* Mutation: no updated_at in the ORDER BY.
PrecedesByScore(a, b, sortBy) ==
    LET k == Keys(a, sortBy)
        l == Keys(b, sortBy)
    IN  k[1] > l[1] \/ (k[1] = l[1] /\ k[2] > l[2])

\* ... and among equals the one that reported first.
Precedes(a, b, sortBy) ==
    LET k == Keys(a, sortBy)
        l == Keys(b, sortBy)
    IN  \/ k[1] > l[1]
        \/ k[1] = l[1] /\ k[2] > l[2]
        \/ k = l /\ reportedAt[a] < reportedAt[b]

\* The lists that ORDER BY allows; each query takes one of them.
Orders(sortBy, filter) ==
    {order \in Bijection(1..Cardinality(Matching(filter)), Matching(filter)) :
        \A i, j \in DOMAIN order : i < j => ~Precedes(order[j], order[i], sortBy)}

\* LIMIT pageSize OFFSET (page - 1) * pageSize
Page(n, order) ==
    {order[rank] : rank \in ((n - 1) * PageSize + 1 .. n * PageSize) \cap DOMAIN order}

\* What the dashboard computes from total, the number of matching rows.
PageCount(filter) == (Cardinality(Matching(filter)) + PageSize - 1) \div PageSize
-----------------------------------------------------------------------------
(* Properties *)

\* The newest log entry of an agent is its row, whatever it reported, repeated
\* and took back; only a crash between the two statements separates them, and
\* the next change of the agent closes the gap again.
LogTellsRow == \A a \in Agent : row[a] # logged[a] => a \in torn

\* Two rows that nothing in the ORDER BY tells apart.
Tied(a, b, sortBy) ==
    Keys(a, sortBy) = Keys(b, sortBy) /\ reportedAt[a] = reportedAt[b]

\* The pages the dashboard can ask for: whatever list a query takes, all pages
\* but the last are full and every matching agent is on one of them.  Pages are
\* queries of their own, and still an agent keeps its page and its rank in all
\* of them, however many agents have equal scores, unless another one with an
\* equal score reported within the same millisecond: those two may change
\* places, and be seen on two pages or on none.
PagesPartition ==
    \A sortBy \in SortKey, filter \in Filter :
        LET pages == 1..PageCount(filter)
            orders == Orders(sortBy, filter)
        IN  \A order \in orders :
               /\ \A n \in pages :
                      n < PageCount(filter) => Cardinality(Page(n, order)) = PageSize
               /\ \A a \in Matching(filter) :
                      Cardinality({n \in pages : a \in Page(n, order)}) = 1
               /\ \A other \in orders, rank \in DOMAIN order :
                      (\A b \in Matching(filter) \ {order[rank]} :
                           ~Tied(order[rank], b, sortBy))
                          => other[rank] = order[rank]
=============================================================================
