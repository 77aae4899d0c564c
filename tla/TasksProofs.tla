----------------------------- MODULE TasksProofs -----------------------------
(***************************************************************************)
(* Proofs about the task life cycle: for every set of tasks, agents and    *)
(* subtasks, every limit, and wherever the process dies.                   *)
(***************************************************************************)
EXTENDS Tasks, FiniteSetTheorems, TLAPS

\* The rows of a task are of rounds it had; those of one automatic round share no
\* subtask, and each gives an agent that reported what it claimed.
RowsSound ==
    \A t \in Task : \A p, q \in rows[t] :
        /\ p.round < rounds[t]
        /\ p.auto /\ p.round = q.round /\ p.covers \cap q.covers # {} => p = q
        /\ p.auto => /\ p.agent \in Reporters(reports[t])
                     /\ p.covers \subseteq ClaimsOf(reports[t], p.agent)

\* There is no report on a task before it exists.
Unheard == \A t \in Task : status[t] = "none" => reports[t] = <<>>

\* What AllReported counts is finite, so that it can be compared.
Countable ==
    /\ IsFiniteSet(present)
    /\ \A t \in Task : IsFiniteSet(Reporters(reports[t]))

\* The inductive invariant.
TasksInv ==
    /\ TypeOK
    /\ WorkHasOwner
    /\ RowsSound
    /\ Unheard
    /\ Countable
    /\ NoMissedDispatch

-----------------------------------------------------------------------------
(* What a dispatch gives to whom *)

\* A division of claimed subtasks among agents that reported.
FairSplit(given, rs) ==
    /\ given \subseteq Assignment
    /\ \A g \in given : g.agent \in Reporters(rs) /\ g.covers \subseteq ClaimsOf(rs, g.agent)
    /\ \A g, h \in given : g.covers \cap h.covers # {} => g = h

\* Only agents report, and a claimant has reported.
LEMMA ClaimantsReported ==
  ASSUME NEW rs \in Seq(Report), NEW s
  PROVE  Claimants(rs, s) \subseteq Reporters(rs) /\ Reporters(rs) \subseteq Agent
  <1>1. \A i \in DOMAIN rs : rs[i].agent \in Agent
    <2>1. \A i \in DOMAIN rs : rs[i] \in Report
      OBVIOUS
    <2>2. QED
      BY <2>1 DEF Report
  <1>2. Claimants(rs, s) \subseteq Reporters(rs)
    BY DEF Claimants, Reporters
  <1>3. QED
    BY <1>1, <1>2 DEF Reporters

\* The first report that claims a subtask is of one agent.
LEMMA OneClaimant ==
  ASSUME NEW rs \in Seq(Report), NEW s, NEW a \in Claimants(rs, s), NEW b \in Claimants(rs, s)
  PROVE  a = b
  <1> DEFINE First(j) ==
          /\ j \in DOMAIN rs /\ s \in rs[j].claimed
          /\ \A k \in 1..(j - 1) : s \notin rs[k].claimed
  <1>1. PICK i : First(i) /\ a = rs[i].agent
    BY DEF Claimants
  <1>2. PICK j : First(j) /\ b = rs[j].agent
    BY DEF Claimants
  <1>3. i \in Nat \ {0} /\ j \in Nat \ {0}
    BY <1>1, <1>2
  <1>4. ~(i < j) /\ ~(j < i)
    BY <1>1, <1>2, <1>3
  <1>5. QED
    BY <1>1, <1>2, <1>3, <1>4

\* A claimant of a subtask has claimed it.
LEMMA ClaimantsClaimed ==
  ASSUME NEW rs, NEW s, NEW a \in Claimants(rs, s)
  PROVE  s \in ClaimsOf(rs, a)
  BY DEF Claimants, ClaimsOf

\* The automatic dispatch divides the subtasks among agents that claimed them.
LEMMA AutoGivenFair ==
  ASSUME TypeOK, NEW t \in Task, NEW rs \in Seq(Report)
  PROVE  FairSplit(AutoGiven(t, rs), rs)
  <1> DEFINE covers == AutoCovers(t, rs)
             Fair(a) == /\ a \in Agent /\ a \in Reporters(rs)
                        /\ covers[a] \subseteq Subtask
                        /\ covers[a] \subseteq ClaimsOf(rs, a)
  <1>1. /\ \A a \in DOMAIN covers : Fair(a)
        /\ \A a, b \in DOMAIN covers : covers[a] \cap covers[b] # {} => a = b
    <2>1. CASE subtasks[t] = {}
      <3>1. /\ DOMAIN covers = {rs[i].agent : i \in DOMAIN rs \cap {1}}
            /\ \A a \in DOMAIN covers : covers[a] = {}
        BY <2>1 DEF AutoCovers
      <3>2. DOMAIN covers \subseteq Reporters(rs) /\ Reporters(rs) \subseteq Agent
        BY <3>1, ClaimantsReported DEF Reporters
      <3>3. QED
        BY <3>1, <3>2
    <2>2. CASE subtasks[t] # {}
      <3>1. /\ DOMAIN covers = UNION {Claimants(rs, s) : s \in Claimed(t, rs)}
            /\ \A a \in DOMAIN covers : covers[a] = {s \in Claimed(t, rs) : a \in Claimants(rs, s)}
        BY <2>2 DEF AutoCovers
      <3>2. Claimed(t, rs) \subseteq Subtask
        BY DEF Claimed, TypeOK
      <3>3. DOMAIN covers \subseteq Reporters(rs) /\ Reporters(rs) \subseteq Agent
        BY <3>1, ClaimantsReported
      <3>4. \A a, b \in DOMAIN covers : covers[a] \cap covers[b] # {} => a = b
        BY <3>1, OneClaimant
      <3>5. \A a \in DOMAIN covers : covers[a] \subseteq ClaimsOf(rs, a)
        BY <3>1, ClaimantsClaimed
      <3>6. \A a \in DOMAIN covers : covers[a] \subseteq Subtask
        BY <3>1, <3>2
      <3>7. QED
        BY <3>3, <3>4, <3>5, <3>6
    <2>3. QED
      BY <2>1, <2>2
  <1> HIDE DEF covers
  <1>2. AutoGiven(t, rs) = {[agent |-> a, covers |-> covers[a]] : a \in DOMAIN covers}
    BY DEF AutoGiven, covers
  <1>3. QED
    BY <1>1, <1>2 DEF FairSplit, Assignment

\* What a publisher asks for are assignments, whoever they name.
LEMMA RequestTyped ==
  ASSUME NEW given \in Request
  PROVE  given \subseteq Assignment
  BY TasksAssumption DEF Request, Assignment

\* Nobody reported, nothing to give.
LEMMA NothingToCover ==
  ASSUME NEW t
  PROVE  DOMAIN AutoCovers(t, <<>>) = {}
  BY DEF AutoCovers, Claimed, Claimants

\* No report is taken back.
ReportsStay ==
    \A u \in Task :
        /\ Reporters(reports[u]) \subseteq Reporters(reports'[u])
        /\ \A a \in Agent : ClaimsOf(reports[u], a) \subseteq ClaimsOf(reports'[u], a)

\* The rows of a dispatch are a new round.
LEMMA AssignmentsKeep ==
  ASSUME TypeOK, RowsSound, NEW t \in Task, NEW given \in SUBSET Assignment, NEW auto \in BOOLEAN,
         CreateAssignments(t, given, auto),
         auto => FairSplit(given, reports'[t]),
         ReportsStay
  PROVE  /\ rows' \in [Task -> SUBSET Row]
         /\ rounds' \in [Task -> 0..MaxRounds]
         /\ RowsSound'
  <1> DEFINE new == {[round |-> rounds[t], auto |-> auto, agent |-> g.agent,
                      covers |-> g.covers, state |-> "assigned"] : g \in given}
             Given(u, p) == /\ p.agent \in Reporters(reports'[u])
                            /\ p.covers \subseteq ClaimsOf(reports'[u], p.agent)
  <1>1. rounds[t] \in Nat /\ rounds'[t] = rounds[t] + 1 /\ rounds[t] < MaxRounds /\ MaxRounds \in Nat
    BY TasksAssumption DEF CreateAssignments, TypeOK
  <1>2. rounds' \in [Task -> 0..MaxRounds]
    BY <1>1 DEF CreateAssignments, TypeOK
  <1>3. new \subseteq Row
    BY <1>1 DEF Assignment, Row
  <1>4. \A u \in Task :
            /\ u # t => rows'[u] = rows[u] /\ rounds'[u] = rounds[u]
            /\ rows'[t] = rows[t] \cup new
    BY DEF CreateAssignments, TypeOK
  <1>5. rows' \in [Task -> SUBSET Row]
    BY <1>3 DEF CreateAssignments, TypeOK
  <1>6. \A p \in new : p.round = rounds[t] /\ (p.auto => Given(t, p))
    BY DEF FairSplit
  <1>7. \A p, q \in new : p.auto /\ p.covers \cap q.covers # {} => p = q
    BY DEF FairSplit
  <1>8. ASSUME NEW u \in Task, NEW p \in rows[u]
        PROVE  p.round \in Nat /\ p.round < rounds[u] /\ (p.auto => Given(u, p))
    <2>1. p \in Row
      BY DEF TypeOK
    <2>2. QED
      BY <2>1 DEF Row, RowsSound, ReportsStay
  <1> HIDE DEF new, Given
  <1>9. ASSUME NEW u \in Task, NEW p \in rows'[u], NEW q \in rows'[u]
        PROVE  /\ p.round < rounds'[u]
               /\ p.auto /\ p.round = q.round /\ p.covers \cap q.covers # {} => p = q
               /\ p.auto => Given(u, p)
    <2>1. CASE p \in rows[u] /\ q \in rows[u]
      <3>1. p.auto /\ p.round = q.round /\ p.covers \cap q.covers # {} => p = q
        BY <2>1 DEF RowsSound
      <3>2. QED
        BY <1>1, <1>4, <1>8, <2>1, <3>1
    <2>2. CASE u = t /\ p \in new /\ q \in new
      BY <1>1, <1>6, <1>7, <2>2
    <2>3. CASE u = t /\ p \in rows[t] /\ q \in new
      BY <1>1, <1>6, <1>8, <2>3
    <2>4. CASE u = t /\ p \in new /\ q \in rows[t]
      BY <1>1, <1>6, <1>8, <2>4
    <2>5. QED
      BY <1>4, <2>1, <2>2, <2>3, <2>4
  <1>10. RowsSound'
    BY <1>9 DEF RowsSound, Given
  <1>11. QED
    BY <1>2, <1>5, <1>10

-----------------------------------------------------------------------------
(* Reports *)

\* What a step that sets off a dispatch of task t may do to the reports.
ReportsGrow(t) ==
    /\ reports' \in [Task -> Seq(Report)]
    /\ \A u \in Task \ {t} : reports'[u] = reports[u]
    /\ ReportsStay
    /\ \A u \in Task : IsFiniteSet(Reporters(reports'[u]))

\* A report adds its agent to the reporters of its task.
LEMMA ReportAdded ==
  ASSUME TypeOK, NEW t \in Task, NEW a \in Agent, NEW claimed \in SUBSET Subtask,
         AddReport(t, a, claimed)
  PROVE  /\ reports' \in [Task -> Seq(Report)]
         /\ Reporters(reports'[t]) = Reporters(reports[t]) \cup {a}
         /\ \A u \in Task \ {t} : reports'[u] = reports[u]
         /\ ReportsStay
         /\ status[t] # "none"
  <1> DEFINE rep == [agent |-> a, claimed |-> claimed]
  <1>1. rep \in Report /\ reports[t] \in Seq(Report)
    BY DEF Report, TypeOK
  <1>2. reports' = [reports EXCEPT ![t] = Append(reports[t], rep)]
    BY DEF AddReport
  <1>3. reports'[t] = Append(reports[t], rep) /\ \A u \in Task \ {t} : reports'[u] = reports[u]
    BY <1>2 DEF TypeOK
  <1>4. reports' \in [Task -> Seq(Report)]
    BY <1>1, <1>2 DEF TypeOK
  <1>5. Reporters(Append(reports[t], rep)) = Reporters(reports[t]) \cup {a}
    <2> DEFINE rs == reports[t]
    <2>1. /\ DOMAIN Append(rs, rep) = DOMAIN rs \cup {Len(rs) + 1}
          /\ \A i \in DOMAIN rs : Append(rs, rep)[i] = rs[i]
          /\ Append(rs, rep)[Len(rs) + 1] = rep
      BY <1>1
    <2>2. QED
      BY <2>1 DEF Reporters
  <1>6. status[t] # "none"
    BY DEF AddReport, Exists
  <1>7. \A b \in Agent : ClaimsOf(reports[t], b) \subseteq ClaimsOf(Append(reports[t], rep), b)
    <2> DEFINE rs == reports[t]
    <2>1. /\ DOMAIN rs \subseteq DOMAIN Append(rs, rep)
          /\ \A i \in DOMAIN rs : Append(rs, rep)[i] = rs[i]
      BY <1>1
    <2> HIDE DEF rs, rep
    <2>2. QED
      BY <2>1 DEF ClaimsOf, rs
  <1>8. ReportsStay
    BY <1>3, <1>5, <1>7 DEF ReportsStay
  <1>9. QED
    BY <1>3, <1>4, <1>5, <1>6, <1>8

\* The reports of a task can still be counted after one more.
LEMMA ReportersFinite ==
  ASSUME TypeOK, Countable, NEW t \in Task, NEW a \in Agent, NEW claimed \in SUBSET Subtask,
         AddReport(t, a, claimed)
  PROVE  \A u \in Task : IsFiniteSet(Reporters(reports'[u]))
  <1>1. IsFiniteSet(Reporters(reports[t]) \cup {a})
    BY FS_AddElement DEF Countable
  <1>2. IsFiniteSet(Reporters(reports'[t]))
    BY <1>1, ReportAdded
  <1>3. \A u \in Task \ {t} : IsFiniteSet(Reporters(reports'[u]))
    BY ReportAdded DEF Countable
  <1>4. QED
    BY <1>2, <1>3

\* What sets off a dispatch adds at most one report.
LEMMA AttemptReports ==
  ASSUME TypeOK, Countable, NEW t \in Task, NEW force \in BOOLEAN, Attempt(t, force)
  PROVE  ReportsGrow(t)
  <1>1. CASE UNCHANGED reports
    BY <1>1 DEF TypeOK, Countable, ReportsGrow, ReportsStay
  <1>2. ASSUME NEW a \in Agent, NEW claimed \in SUBSET Subtask, AddReport(t, a, claimed)
        PROVE  ReportsGrow(t)
    BY <1>2, ReportAdded, ReportersFinite DEF ReportsGrow
  <1>3. QED
    BY <1>1, <1>2 DEF Attempt

\* Where the rows stay as they are, what they were given for was not taken back.
LEMMA RowsStay ==
  ASSUME TypeOK, RowsSound, ReportsStay, UNCHANGED <<rows, rounds>>
  PROVE  RowsSound'
  <1> SUFFICES ASSUME NEW t \in Task, NEW p \in rows[t], NEW q \in rows[t]
               PROVE  /\ p.round < rounds[t]
                      /\ p.auto /\ p.round = q.round /\ p.covers \cap q.covers # {} => p = q
                      /\ p.auto => /\ p.agent \in Reporters(reports'[t])
                                   /\ p.covers \subseteq ClaimsOf(reports'[t], p.agent)
    BY DEF RowsSound
  <1>1. p \in Row
    BY DEF TypeOK
  <1>2. p.agent \in Agent
    BY <1>1 DEF Row
  <1>3. QED
    BY <1>2 DEF RowsSound, ReportsStay

\* When the agents of the room outnumber those that reported, one of them has
\* not reported.
LEMMA SomebodyIsSilent ==
  ASSUME Countable, NEW rs, IsFiniteSet(Reporters(rs)), ~AllReported(rs)
  PROVE  \E a \in present : a \notin Reporters(rs)
  <1>1. SUFFICES ASSUME present \subseteq Reporters(rs)
                 PROVE  FALSE
    OBVIOUS
  <1>2. Cardinality(present) <= Cardinality(Reporters(rs))
    BY <1>1, FS_Subset
  <1>3. QED
    BY <1>2 DEF AllReported

-----------------------------------------------------------------------------
(* The parts of a step *)

\* A step that makes no task an automatic one, starts no evaluation of the
\* first round and takes no agent away, as far as the process and the room
\* were undisturbed, keeps the rest of the invariant if it keeps the first
\* parts.
LEMMA StepKeeps ==
  ASSUME TasksInv, TypeOK', WorkHasOwner', RowsSound', Countable', UNCHANGED record,
         \A u \in Task : status'[u] = "none" => status[u] = "none" /\ reports'[u] = reports[u],
         \A u \in Task :
             ~disturbed' /\ status'[u] = "evaluating" /\ retries'[u] = 0 =>
                 /\ ~disturbed /\ status[u] = "evaluating" /\ retries[u] = 0
                 /\ reports'[u] = reports[u]
                 /\ present \subseteq present'
  PROVE  TasksInv'
  <1>1. Unheard'
    BY DEF TasksInv, Unheard
  <1>2. NoMissedDispatch'
    <2> SUFFICES ASSUME NEW u \in Task, autoExecute'[u], status'[u] = "evaluating",
                        retries'[u] = 0, ~disturbed', DOMAIN AutoCovers(u, reports[u])' # {}
                 PROVE  \E a \in present' : a \notin Reporters(reports'[u])
      BY DEF NoMissedDispatch
    <2>1. reports'[u] = reports[u] /\ subtasks' = subtasks
      BY DEF record
    <2>2. AutoCovers(u, reports[u])' = AutoCovers(u, reports[u])
      BY <2>1 DEF AutoCovers, Claimed
    <2>3. QED
      BY <2>1, <2>2 DEF TasksInv, NoMissedDispatch, record
  <1>3. QED
    BY <1>1, <1>2 DEF TasksInv

\* Statuses, assignees, retries, timers and agents change; rows and reports do
\* not.
LEMMA StatusStepKeeps ==
  ASSUME TasksInv, UNCHANGED <<record, rows, rounds, reports>>,
         TypeOK', WorkHasOwner', IsFiniteSet(present'),
         \A u \in Task : status'[u] = "none" => status[u] = "none",
         \A u \in Task :
             ~disturbed' /\ status'[u] = "evaluating" /\ retries'[u] = 0 =>
                 /\ ~disturbed /\ status[u] = "evaluating" /\ retries[u] = 0
                 /\ present \subseteq present'
  PROVE  TasksInv'
  <1>1. RowsSound' /\ Countable'
    BY DEF TasksInv, RowsSound, Countable
  <1>2. QED
    BY <1>1, StepKeeps

\* A new round: the task is no longer under evaluation.
LEMMA RoundKeeps ==
  ASSUME TasksInv, NEW t \in Task, NEW given \in SUBSET Assignment, NEW auto \in BOOLEAN,
         CreateAssignments(t, given, auto),
         auto => FairSplit(given, reports'[t]),
         ReportsGrow(t),
         UNCHANGED <<record, retries, present>>,
         timers' \subseteq timers,
         stopAsked' = stopAsked,
         disturbed' \in {disturbed, TRUE},
         NEW s \in {"dispatched", "confirmed"}, status' = [status EXCEPT ![t] = s],
         assignee' \in [Task -> Agent \cup {NoAgent}],
         \A u \in Task \ {t} : assignee'[u] = assignee[u],
         s = "dispatched" => assignee'[t] # NoAgent
  PROVE  TasksInv'
  <1>1. RowsSound' /\ rows' \in [Task -> SUBSET Row] /\ rounds' \in [Task -> 0..MaxRounds]
    BY AssignmentsKeep DEF TasksInv, ReportsGrow
  <1>2. TypeOK'
    BY <1>1 DEF TasksInv, TypeOK, record, Status, ReportsGrow
  <1>3. WorkHasOwner'
    BY DEF TasksInv, TypeOK, WorkHasOwner, Active
  <1>4. Countable'
    BY DEF TasksInv, Countable, ReportsGrow
  <1>5. QED
    BY <1>1, <1>2, <1>3, <1>4, StepKeeps DEF TasksInv, TypeOK, ReportsGrow
-----------------------------------------------------------------------------
(* The steps *)

\* A dispatch that was attempted keeps the invariant, done or not.
LEMMA AutoDispatchKeeps ==
  ASSUME TasksInv, NEW t \in Task, NEW force \in BOOLEAN,
         AutoDispatch(t, reports'[t], force),
         Attempt(t, force),
         timers' \subseteq timers,
         UNCHANGED <<record, retries, present, history>>
  PROVE  TasksInv'
  <1>1. ReportsGrow(t)
    BY AttemptReports DEF TasksInv
  <1>2. CASE AutoReady(t, reports'[t], force)
    <2>1. PICK a \in Agent : Dispatched(t, AutoGiven(t, reports'[t]), TRUE, a)
      BY <1>2 DEF AutoDispatch
    <2>2. FairSplit(AutoGiven(t, reports'[t]), reports'[t])
          /\ AutoGiven(t, reports'[t]) \subseteq Assignment
      BY <1>1, AutoGivenFair DEF TasksInv, ReportsGrow, FairSplit
    <2>3. QED
      BY <1>1, <2>1, <2>2, RoundKeeps, TasksAssumption
      DEF Dispatched, TasksInv, TypeOK, history
  <1>3. CASE ~AutoReady(t, reports'[t], force)
    <2>1. UNCHANGED <<status, work>>
      BY <1>3 DEF AutoDispatch
    <2>2. TypeOK' /\ WorkHasOwner' /\ RowsSound' /\ Countable'
      <3>1. TypeOK' /\ WorkHasOwner' /\ Countable'
        BY <1>1, <2>1 DEF TasksInv, TypeOK, WorkHasOwner, Countable, work, record, history, ReportsGrow
      <3>2. RowsSound'
        BY <1>1, <2>1, RowsStay DEF TasksInv, ReportsGrow, work
      <3>3. QED
        BY <3>1, <3>2
    <2>3. Unheard'
      BY <1>1, <2>1, ReportAdded DEF TasksInv, Unheard, Attempt
    <2>4. NoMissedDispatch'
      <3> SUFFICES ASSUME NEW u \in Task, autoExecute[u], status[u] = "evaluating",
                          retries[u] = 0, ~disturbed,
                          DOMAIN AutoCovers(u, reports[u])' # {}
                   PROVE  \E a \in present : a \notin Reporters(reports'[u])
        BY <2>1 DEF NoMissedDispatch, record, history
      <3>1. AutoCovers(u, reports[u])' = AutoCovers(u, reports'[u])
        BY DEF AutoCovers, Claimed, record
      <3>2. CASE u # t \/ UNCHANGED reports
        BY <1>1, <3>1, <3>2 DEF TasksInv, NoMissedDispatch, ReportsGrow
      <3>3. CASE u = t /\ ~force
        <4>1. ~AllReported(reports'[t])
          BY <1>3, <3>1, <3>3 DEF AutoReady
        <4>2. QED
          BY <1>1, <3>3, <4>1, SomebodyIsSilent DEF TasksInv, ReportsGrow
      <3>4. QED
        BY <3>2, <3>3 DEF Attempt
    <2>5. QED
      BY <2>2, <2>3, <2>4 DEF TasksInv
  <1>4. QED
    BY <1>2, <1>3

\* A task is created without reports.
LEMMA CreateKeeps ==
  ASSUME TasksInv, NEW t \in Task, status[t] = "none",
         status' = [status EXCEPT ![t] = "evaluating"],
         NEW auto \in BOOLEAN, autoExecute' = [autoExecute EXCEPT ![t] = auto],
         NEW subs \in SUBSET Subtask, subtasks' \in {subtasks, [subtasks EXCEPT ![t] = subs]},
         timers' \subseteq Channel \X Task,
         UNCHANGED <<retries, reports, work, present, history>>
  PROVE  TasksInv'
  <1>1. TypeOK'
    BY DEF TasksInv, TypeOK, Status, work, history
  <1>2. WorkHasOwner'
    BY DEF TasksInv, TypeOK, WorkHasOwner, Active, work
  <1>3. RowsSound' /\ Unheard' /\ Countable'
    BY DEF TasksInv, TypeOK, RowsSound, Unheard, Countable, work
  <1>4. NoMissedDispatch'
    <2> SUFFICES ASSUME NEW u \in Task, autoExecute'[u], status'[u] = "evaluating",
                        retries[u] = 0, ~disturbed, DOMAIN AutoCovers(u, reports[u])' # {}
                 PROVE  \E a \in present : a \notin Reporters(reports[u])
      BY DEF NoMissedDispatch, history
    <2>1. CASE u = t
      <3>1. reports'[u] = <<>>
        BY <2>1 DEF TasksInv, Unheard
      <3>2. DOMAIN AutoCovers(u, reports[u])' = {}
        BY <3>1 DEF AutoCovers, Claimed, Claimants
      <3>3. QED
        BY <3>2
    <2>2. CASE u # t
      <3>1. autoExecute'[u] = autoExecute[u] /\ status'[u] = status[u] /\ subtasks'[u] = subtasks[u]
        BY <2>2 DEF TasksInv, TypeOK
      <3>2. AutoCovers(u, reports[u])' = AutoCovers(u, reports[u])
        BY <3>1 DEF AutoCovers, Claimed
      <3>3. QED
        BY <3>1, <3>2 DEF TasksInv, NoMissedDispatch
    <2>3. QED
      BY <2>1, <2>2
  <1>5. QED
    BY <1>1, <1>2, <1>3, <1>4 DEF TasksInv

\* A transition of the table: none leads to a first evaluation, and one that
\* makes the task active or completed is asked for by its assignee.
LEMMA BecomeKeeps ==
  ASSUME TasksInv, NEW t \in Task,
         NEW s \in {"confirmed", "rejected", "cancelled", "running", "completed", "failed"},
         Become(t, s), s \in {"running", "completed"} => assignee[t] # NoAgent
  PROVE  TasksInv'
  <1>1. TypeOK'
    BY DEF TasksInv, TypeOK, Become, Status, record, work
  <1>2. WorkHasOwner'
    BY DEF TasksInv, TypeOK, WorkHasOwner, Active, Become, work
  <1>3. QED
    BY <1>1, <1>2, StatusStepKeeps DEF TasksInv, TypeOK, Countable, Become, work

\* The publisher's operations.
LEMMA PublisherKeeps ==
  ASSUME TasksInv, NEW t \in Task, Publisher(t)
  PROVE  TasksInv'
  <1>1. ASSUME NEW ch \in Channel, NEW auto \in BOOLEAN, NEW subs \in SUBSET Subtask,
               Create(t, ch, auto, subs)
        PROVE  TasksInv'
    <2>1. timers' \subseteq Channel \X Task
      BY <1>1 DEF Create, TasksInv, TypeOK
    <2>2. QED
      BY <1>1, <2>1, CreateKeeps DEF Create
  <1>2. CASE AdminCreate(t)
    BY <1>2, CreateKeeps DEF AdminCreate, TasksInv, TypeOK
  <1>3. ASSUME NEW given \in Request, NEW a \in Agent, Dispatch(t, given, a)
        PROVE  TasksInv'
    <2>1. ReportsGrow(t)
      BY <1>3 DEF Dispatch, ReportsGrow, ReportsStay, TasksInv, TypeOK, Countable
    <2>2. given \subseteq Assignment
      BY RequestTyped
    <2>3. assignee' \in [Task -> Agent \cup {NoAgent}] /\ assignee'[t] # NoAgent
          /\ \A u \in Task \ {t} : assignee'[u] = assignee[u]
      BY <1>3, TasksAssumption DEF Dispatch, Dispatched, TasksInv, TypeOK
    <2>4. QED
      BY <1>3, <2>1, <2>2, <2>3, RoundKeeps DEF Dispatch, Dispatched, history
  <1>4. CASE Confirm(t) \/ Reject(t) \/ Cancel(t) \/ AdminCancel(t)
    BY <1>4, BecomeKeeps DEF Confirm, Reject, Cancel, AdminCancel
  <1>5. CASE HubStop(t) \/ WsStop(t)
    <2>1. TypeOK' /\ WorkHasOwner'
      BY <1>5 DEF HubStop, WsStop, TasksInv, TypeOK, WorkHasOwner, record, work
    <2>2. QED
      BY <1>5, <2>1, StatusStepKeeps DEF HubStop, WsStop, TasksInv, TypeOK, Countable, work
  <1>6. QED
    BY <1>1, <1>2, <1>3, <1>4, <1>5 DEF Publisher

\* A failure within the budget: a retry is counted, so that the evaluation it
\* may lead to is not the first.
LEMMA RetryKeeps ==
  ASSUME TasksInv, NEW t \in Task, retries[t] < MaxRetries,
         retries' = [retries EXCEPT ![t] = @ + 1],
         NEW s \in {"evaluating", "failed", status[t]}, s = "evaluating" => Exists(t),
         status' = [status EXCEPT ![t] = s],
         stopAsked' \subseteq stopAsked,
         timers' \subseteq timers,
         disturbed' \in {disturbed, TRUE},
         UNCHANGED <<record, reports, work, present>>
  PROVE  TasksInv'
  <1>1. retries[t] \in Nat /\ retries'[t] = retries[t] + 1 /\ retries'[t] # 0
        /\ retries' \in [Task -> 0..MaxRetries]
    BY TasksAssumption DEF TasksInv, TypeOK
  <1>2. TypeOK'
    BY <1>1 DEF TasksInv, TypeOK, Status, record, work
  <1>3. WorkHasOwner'
    BY DEF TasksInv, TypeOK, WorkHasOwner, Active, work
  <1>4. \A u \in Task \ {t} : retries'[u] = retries[u] /\ status'[u] = status[u]
    BY DEF TasksInv, TypeOK
  <1>5. status'[t] = "none" => status[t] = "none"
    BY DEF TasksInv, TypeOK
  <1>6. QED
    BY <1>1, <1>2, <1>3, <1>4, <1>5, StatusStepKeeps DEF TasksInv, TypeOK, Countable, work

\* The agents' messages.
LEMMA WorkerKeeps ==
  ASSUME TasksInv, NEW t \in Task, NEW a \in Agent, Worker(t, a)
  PROVE  TasksInv'
  <1>1. ASSUME NEW ch \in Channel, NEW claimed \in SUBSET Subtask, Submit(t, ch, a, claimed)
        PROVE  TasksInv'
    <2>1. Attempt(t, FALSE)
      BY <1>1 DEF Submit, Attempt
    <2>2. QED
      BY <1>1, <2>1, AutoDispatchKeeps DEF Submit
  <1>2. ASSUME NEW limit \in Concurrency, Claim(t, a, limit)
        PROVE  TasksInv'
    <2>1. TypeOK' /\ WorkHasOwner'
      BY <1>2, TasksAssumption DEF Claim, TasksInv, TypeOK, WorkHasOwner, Active, Status, record,
         history
    <2>2. QED
      BY <1>2, <2>1, StatusStepKeeps DEF Claim, TasksInv, TypeOK, Countable, history
  <1>3. CASE Start(t, a) \/ Complete(t, a) \/ Fail(t, a)
    BY <1>3, BecomeKeeps, TasksAssumption DEF Start, Complete, Fail
  <1>4. CASE InfraFail(t, a)
    <2>1. CASE MayBecome(t, "failed")
      BY <1>4, <2>1, RetryKeeps DEF InfraFail, MayBecome
    <2>2. CASE ~MayBecome(t, "failed")
      <3>1. status' = [status EXCEPT ![t] = status[t]]
        BY <1>4, <2>2 DEF InfraFail
      <3>2. CASE status[t] = "evaluating"
        BY <1>4, <2>2, <3>1, <3>2, RetryKeeps DEF InfraFail, Exists
      <3>3. CASE status[t] # "evaluating"
        BY <1>4, <2>2, <3>1, <3>3, RetryKeeps DEF InfraFail
      <3>4. QED
        BY <3>2, <3>3
    <2>3. QED
      BY <2>1, <2>2
  <1>5. CASE StopAck(t, a)
    <2>1. PICK r \in rows[t] :
              rows' = [rows EXCEPT ![t] = (@ \ {r}) \cup {[r EXCEPT !.state = "failed"]}]
      BY <1>5 DEF StopAck
    <2> DEFINE f == [r EXCEPT !.state = "failed"]
    <2>2. r \in Row /\ f \in Row /\ f.round = r.round /\ f.covers = r.covers /\ f.agent = r.agent
          /\ f.auto = r.auto
      <3>1. r \in Row
        BY DEF TasksInv, TypeOK
      <3>2. QED
        BY <3>1 DEF Row
    <2>3. rows' \in [Task -> SUBSET Row] /\ rows'[t] = (rows[t] \ {r}) \cup {f}
          /\ \A u \in Task \ {t} : rows'[u] = rows[u]
      BY <2>1, <2>2 DEF TasksInv, TypeOK
    <2>4. TypeOK' /\ WorkHasOwner' /\ Countable'
      BY <1>5, <2>3 DEF StopAck, TasksInv, TypeOK, WorkHasOwner, Countable, record, history
    <2>5. RowsSound'
      <3> SUFFICES ASSUME NEW u \in Task, NEW p \in rows'[u], NEW q \in rows'[u]
                   PROVE  /\ p.round < rounds[u]
                          /\ p.auto /\ p.round = q.round /\ p.covers \cap q.covers # {} => p = q
                          /\ p.auto => /\ p.agent \in Reporters(reports[u])
                                       /\ p.covers \subseteq ClaimsOf(reports[u], p.agent)
        BY <1>5 DEF RowsSound, StopAck
      <3>1. CASE u # t
        BY <2>3, <3>1 DEF TasksInv, RowsSound
      <3>2. CASE u = t
        <4>1. \A x, y \in rows[t] :
                  /\ x.round < rounds[t]
                  /\ x.auto /\ x.round = y.round /\ x.covers \cap y.covers # {} => x = y
                  /\ x.auto => /\ x.agent \in Reporters(reports[t])
                               /\ x.covers \subseteq ClaimsOf(reports[t], x.agent)
          BY DEF TasksInv, RowsSound
        <4>2. PICK x \in rows[t] :
                  x.round = p.round /\ x.covers = p.covers /\ x.agent = p.agent /\ x.auto = p.auto
                  /\ (x = r => p = f) /\ (x # r => p = x)
          BY <2>2, <2>3, <3>2
        <4>3. PICK y \in rows[t] :
                  y.round = q.round /\ y.covers = q.covers /\ y.agent = q.agent /\ y.auto = q.auto
                  /\ (y = r => q = f) /\ (y # r => q = y)
          BY <2>2, <2>3, <3>2
        <4>4. QED
          BY <3>2, <4>1, <4>2, <4>3
      <3>3. QED
        BY <3>1, <3>2
    <2>6. QED
      BY <1>5, <2>4, <2>5, StepKeeps DEF StopAck, TasksInv, TypeOK, history
  <1>6. QED
    BY <1>1, <1>2, <1>3, <1>4, <1>5 DEF Worker

\* The process dying within a handler.
LEMMA CrashKeeps ==
  ASSUME TasksInv, NEW t \in Task, Crash(t)
  PROVE  TasksInv'
  <1>1. ASSUME NEW a \in Agent, NEW claimed \in SUBSET Subtask, SubmitDies(t, a, claimed)
        PROVE  TasksInv'
    <2>1. ReportsGrow(t) /\ status[t] # "none"
      BY <1>1, ReportAdded, ReportersFinite DEF SubmitDies, TasksInv, ReportsGrow
    <2>2. TypeOK' /\ WorkHasOwner' /\ RowsSound' /\ Countable'
      <3>1. TypeOK' /\ WorkHasOwner' /\ Countable'
        BY <1>1, <2>1 DEF SubmitDies, Dies, ReportsGrow, TasksInv, TypeOK, WorkHasOwner, Countable,
           work, record
      <3>2. RowsSound'
        BY <1>1, <2>1, RowsStay DEF SubmitDies, TasksInv, ReportsGrow, work, Dies
      <3>3. QED
        BY <3>1, <3>2
    <2>3. QED
      BY <1>1, <2>1, <2>2, StepKeeps DEF SubmitDies, Dies, ReportsGrow
  <1>2. ASSUME NEW force \in BOOLEAN, ConfirmedDies(t, force)
        PROVE  TasksInv'
    <2>1. ReportsGrow(t)
      BY <1>2, AttemptReports DEF ConfirmedDies, TasksInv
    <2>2. TypeOK' /\ WorkHasOwner' /\ RowsSound' /\ Countable'
      <3>1. TypeOK'
        BY <1>2, <2>1 DEF ConfirmedDies, Dies, ReportsGrow, TasksInv, TypeOK, Status, work, record
      <3>2. WorkHasOwner'
        BY <1>2 DEF ConfirmedDies, TasksInv, TypeOK, WorkHasOwner, Active, work
      <3>3. RowsSound' /\ Countable'
        BY <1>2, <2>1, RowsStay DEF ConfirmedDies, Dies, ReportsGrow, TasksInv, Countable, work
      <3>4. QED
        BY <3>1, <3>2, <3>3
    <2>3. QED
      BY <1>2, <2>1, <2>2, StepKeeps DEF ConfirmedDies, Dies, ReportsGrow, TasksInv, TypeOK
  <1>3. ASSUME NEW given \in SUBSET Assignment, NEW auto \in BOOLEAN, NEW a \in Agent,
               NEW named \in BOOLEAN, RowsDie(t, given, auto, a, named),
               ReportsGrow(t), auto => FairSplit(given, reports'[t])
        PROVE  TasksInv'
    <2>1. assignee' \in [Task -> Agent \cup {NoAgent}]
          /\ \A u \in Task \ {t} : assignee'[u] = assignee[u]
      BY <1>3 DEF RowsDie, TasksInv, TypeOK
    <2>2. QED
      BY <1>3, <2>1, RoundKeeps DEF RowsDie, Dies
  <1>4. ASSUME NEW given \in Request, NEW a \in Agent, NEW named \in BOOLEAN,
               DispatchDies(t, given, a, named)
        PROVE  TasksInv'
    <2>1. ReportsGrow(t)
      BY <1>4 DEF DispatchDies, ReportsGrow, ReportsStay, TasksInv, TypeOK, Countable
    <2>2. QED
      BY <1>3, <1>4, <2>1, RequestTyped DEF DispatchDies
  <1>5. ASSUME NEW force \in BOOLEAN, NEW named \in BOOLEAN, NEW a \in Agent,
               AutoDispatchDies(t, force, a, named)
        PROVE  TasksInv'
    <2>1. ReportsGrow(t)
      BY <1>5, AttemptReports DEF AutoDispatchDies, TasksInv
    <2>2. FairSplit(AutoGiven(t, reports'[t]), reports'[t])
          /\ AutoGiven(t, reports'[t]) \subseteq Assignment
      BY <2>1, AutoGivenFair DEF TasksInv, ReportsGrow, FairSplit
    <2>3. QED
      BY <1>3, <1>5, <2>1, <2>2 DEF AutoDispatchDies
  <1>6. ASSUME NEW a \in Agent, NEW failed \in BOOLEAN, InfraFailDies(t, a, failed)
        PROVE  TasksInv'
    <2>1. status' = [status EXCEPT ![t] = "failed"] \/ status' = [status EXCEPT ![t] = status[t]]
      BY <1>6 DEF InfraFailDies, TasksInv, TypeOK
    <2>2. stopAsked' \subseteq stopAsked
      BY <1>6 DEF InfraFailDies
    <2>3. CASE status[t] = "evaluating"
      BY <1>6, <2>1, <2>2, <2>3, RetryKeeps DEF InfraFailDies, Dies, Exists
    <2>4. CASE status[t] # "evaluating"
      BY <1>6, <2>1, <2>2, <2>4, RetryKeeps DEF InfraFailDies, Dies
    <2>5. QED
      BY <2>3, <2>4
  <1>7. QED
    BY <1>1, <1>2, <1>4, <1>5, <1>6 DEF Crash

-----------------------------------------------------------------------------
\* No task exists yet.
LEMMA TasksInvInit == Init => TasksInv
  <1> SUFFICES ASSUME Init
               PROVE  TasksInv
    OBVIOUS
  <1>1. TypeOK
    <2>1. <<>> \in Seq(Report) /\ 0 \in 0..MaxRetries /\ 0 \in 0..MaxRounds
      BY TasksAssumption
    <2>2. QED
      BY <2>1 DEF Init, TypeOK
  <1>2. WorkHasOwner /\ RowsSound /\ Unheard /\ NoMissedDispatch
    BY DEF Init, WorkHasOwner, Active, RowsSound, Unheard, NoMissedDispatch
  <1>3. Reporters(<<>>) = {}
    BY DEF Reporters
  <1>4. Countable
    BY <1>3, FS_EmptySet DEF Init, Countable
  <1>5. QED
    BY <1>1, <1>2, <1>4 DEF TasksInv

\* The invariant is inductive.
LEMMA TasksInvStep == TasksInv /\ [Next]_vars => TasksInv'
  <1> SUFFICES ASSUME TasksInv, [Next]_vars
               PROVE  TasksInv'
    OBVIOUS
  <1>1. CASE \E t \in Task : Publisher(t)
    BY <1>1, PublisherKeeps
  <1>2. CASE \E t \in Task, a \in Agent : Worker(t, a)
    BY <1>2, WorkerKeeps
  <1>3. ASSUME NEW t \in Task, NEW ch \in Channel, TimerFires(t, ch)
        PROVE  TasksInv'
    <2>1. Attempt(t, TRUE) /\ reports' = reports
      BY <1>3 DEF TimerFires, Attempt
    <2>2. QED
      BY <1>3, <2>1, AutoDispatchKeeps DEF TimerFires
  <1>4. ASSUME NEW a \in Agent, Register(a)
        PROVE  TasksInv'
    <2>1. IsFiniteSet(present') /\ present \subseteq present'
      BY <1>4, FS_AddElement DEF Register, TasksInv, Countable
    <2>2. TypeOK' /\ WorkHasOwner'
      BY <1>4 DEF Register, TasksInv, TypeOK, WorkHasOwner, record, work, history
    <2>3. QED
      BY <1>4, <2>1, <2>2, StatusStepKeeps DEF Register, work, history
  <1>5. ASSUME NEW a \in Agent, MoveAway(a)
        PROVE  TasksInv'
    <2>1. IsFiniteSet(present')
      BY <1>5, FS_RemoveElement DEF MoveAway, TasksInv, Countable
    <2>2. TypeOK' /\ WorkHasOwner'
      BY <1>5 DEF MoveAway, TasksInv, TypeOK, WorkHasOwner, record, work
    <2>3. QED
      BY <1>5, <2>1, <2>2, StatusStepKeeps DEF MoveAway, work
  <1>6. CASE \E t \in Task : Crash(t)
    BY <1>6, CrashKeeps
  <1>7. CASE Restart
    <2>1. TypeOK' /\ WorkHasOwner'
      BY <1>7 DEF Restart, Dies, TasksInv, TypeOK, WorkHasOwner, record, work
    <2>2. QED
      BY <1>7, <2>1, StatusStepKeeps DEF Restart, Dies, TasksInv, Countable, work
  <1>8. CASE UNCHANGED vars
    <2>1. TypeOK' /\ WorkHasOwner'
      BY <1>8 DEF vars, TasksInv, TypeOK, WorkHasOwner, record, work, history
    <2>2. QED
      BY <1>8, <2>1, StatusStepKeeps DEF vars, TasksInv, Countable, work, history
  <1>9. QED
    BY <1>1, <1>2, <1>3, <1>4, <1>5, <1>6, <1>7, <1>8 DEF Next

\* The engine only ever reaches states of the invariant.
LEMMA TasksInvAlways == Spec => []TasksInv
  BY TasksInvInit, TasksInvStep, PTL DEF Spec

\* Every table and map stays well typed: no retry counter leaves its budget.
THEOREM TasksTypeCorrect == Spec => []TypeOK
  <1>1. TasksInv => TypeOK
    BY DEF TasksInv
  <1>2. QED
    BY <1>1, TasksInvAlways, PTL

\* A task that is dispatched, running or completed names its agent, whichever
\* of claim, dispatch and automatic dispatch came last, and wherever the
\* process died.
THEOREM OwnerCorrect == Spec => []WorkHasOwner
  <1>1. TasksInv => WorkHasOwner
    BY DEF TasksInv
  <1>2. QED
    BY <1>1, TasksInvAlways, PTL

\* One round gives no subtask to two agents, and a subtask only to an agent
\* that reported on the task.
THEOREM SplitCorrect == Spec => []SubtasksSplit
  <1>1. TasksInv => SubtasksSplit
    BY DEF TasksInv, RowsSound, SubtasksSplit
  <1>2. QED
    BY <1>1, TasksInvAlways, PTL

\* An automatic task that could be dispatched does not wait once every agent
\* of the room has reported.
THEOREM DispatchCorrect == Spec => []NoMissedDispatch
  <1>1. TasksInv => NoMissedDispatch
    BY DEF TasksInv
  <1>2. QED
    BY <1>1, TasksInvAlways, PTL

-----------------------------------------------------------------------------
(* What a step may never do *)

\* How the status of a task and its rounds change: from a state it may leave.
\* A new round is the publisher's decision or that of an automatic task.
MovesOn(t) ==
    /\ status'[t] # status[t] => status[t] \notin {"completed", "cancelled"}
    /\ rounds'[t] # rounds[t] =>
           status[t] = "confirmed" \/ (autoExecute[t] /\ status[t] = "evaluating")

\* The table of transitions has no way out of the final states.
LEMMA NoWayOut ==
  ASSUME NEW t \in Task, NEW s, MayBecome(t, s)
  PROVE  status[t] \notin {"completed", "cancelled"}
  <1>1. Successors["completed"] = {} /\ Successors["cancelled"] = {}
    BY DEF Successors
  <1>2. QED
    BY <1>1 DEF MayBecome

\* A step that sets the status of one task moves on.
LEMMA SetStatusMoves ==
  ASSUME TypeOK, NEW t \in Task, NEW s, UNCHANGED rounds,
         status' = [status EXCEPT ![t] = s],
         status[t] \in {"completed", "cancelled"} => s = status[t]
  PROVE  \A u \in Task : MovesOn(u)
  BY DEF TypeOK, MovesOn

\* So does a step that makes a round.
LEMMA RoundMoves ==
  ASSUME TypeOK, NEW t \in Task, NEW given, NEW auto, CreateAssignments(t, given, auto),
         NEW s, status' = [status EXCEPT ![t] = s],
         status[t] = "confirmed" \/ (autoExecute[t] /\ status[t] = "evaluating")
  PROVE  \A u \in Task : MovesOn(u)
  BY DEF TypeOK, MovesOn, CreateAssignments

\* An automatic dispatch of a report or a timer.
LEMMA AutoDispatchMoves ==
  ASSUME TypeOK, NEW t \in Task, NEW force, NEW rs, AutoDispatch(t, rs, force)
  PROVE  \A u \in Task : MovesOn(u)
  <1>1. CASE AutoReady(t, rs, force)
    BY <1>1, RoundMoves DEF AutoDispatch, AutoReady, Dispatched
  <1>2. CASE ~AutoReady(t, rs, force)
    BY <1>2 DEF AutoDispatch, MovesOn, work
  <1>3. QED
    BY <1>1, <1>2

\* Every step of the engine moves on.
LEMMA NextMoves ==
  ASSUME TypeOK, [Next]_vars
  PROVE  \A u \in Task : MovesOn(u)
  <1>1. ASSUME NEW t \in Task, Publisher(t)
        PROVE  \A u \in Task : MovesOn(u)
    <2>1. CASE \E ch \in Channel, auto \in BOOLEAN, subs \in SUBSET Subtask :
                  Create(t, ch, auto, subs)
      BY <2>1, SetStatusMoves DEF Create, work
    <2>2. CASE AdminCreate(t)
      BY <2>2, SetStatusMoves DEF AdminCreate, work
    <2>3. CASE \E given \in Request, a \in Agent : Dispatch(t, given, a)
      BY <2>3, RoundMoves DEF Dispatch, Dispatched
    <2>4. ASSUME NEW s, Become(t, s)
          PROVE  \A u \in Task : MovesOn(u)
      BY <2>4, SetStatusMoves, NoWayOut DEF Become, work
    <2>5. CASE HubStop(t) \/ WsStop(t)
      BY <2>5 DEF HubStop, WsStop, MovesOn, work
    <2>6. QED
      BY <1>1, <2>1, <2>2, <2>3, <2>4, <2>5
      DEF Publisher, Confirm, Reject, Cancel, AdminCancel
  <1>2. ASSUME NEW t \in Task, NEW a \in Agent, Worker(t, a)
        PROVE  \A u \in Task : MovesOn(u)
    <2>1. CASE \E ch \in Channel, claimed \in SUBSET Subtask : Submit(t, ch, a, claimed)
      BY <2>1, AutoDispatchMoves DEF Submit
    <2>2. CASE \E limit \in Concurrency : Claim(t, a, limit)
      BY <2>2, SetStatusMoves DEF Claim
    <2>3. ASSUME NEW s, Become(t, s)
          PROVE  \A u \in Task : MovesOn(u)
      BY <2>3, SetStatusMoves, NoWayOut DEF Become, work
    <2>4. CASE InfraFail(t, a)
      <3>1. CASE MayBecome(t, "failed")
        BY <2>4, <3>1, SetStatusMoves, NoWayOut DEF InfraFail, work
      <3>2. CASE ~MayBecome(t, "failed")
        BY <2>4, <3>2, SetStatusMoves DEF InfraFail, work
      <3>3. QED
        BY <3>1, <3>2
    <2>5. CASE StopAck(t, a)
      BY <2>5 DEF StopAck, MovesOn
    <2>6. QED
      BY <1>2, <2>1, <2>2, <2>3, <2>4, <2>5 DEF Worker, Start, Complete, Fail
  <1>3. CASE \E t \in Task, ch \in Channel : TimerFires(t, ch)
    BY <1>3, AutoDispatchMoves DEF TimerFires
  <1>4. CASE \E a \in Agent : Register(a) \/ MoveAway(a)
    BY <1>4 DEF Register, MoveAway, MovesOn, work
  <1>5. ASSUME NEW t \in Task, Crash(t)
        PROVE  \A u \in Task : MovesOn(u)
    <2>1. CASE \E a \in Agent, claimed \in SUBSET Subtask : SubmitDies(t, a, claimed)
      BY <2>1 DEF SubmitDies, MovesOn, work
    <2>2. CASE \E force \in BOOLEAN : ConfirmedDies(t, force)
      BY <2>2, SetStatusMoves DEF ConfirmedDies, AutoReady, work
    <2>3. CASE \E given \in Request, a \in Agent, named \in BOOLEAN :
                  DispatchDies(t, given, a, named)
      BY <2>3, RoundMoves DEF DispatchDies, RowsDie
    <2>4. CASE \E force, named \in BOOLEAN, a \in Agent : AutoDispatchDies(t, force, a, named)
      BY <2>4, RoundMoves DEF AutoDispatchDies, RowsDie, AutoReady
    <2>5. ASSUME NEW a \in Agent, NEW failed \in BOOLEAN, InfraFailDies(t, a, failed)
          PROVE  \A u \in Task : MovesOn(u)
      <3>1. CASE failed /\ MayBecome(t, "failed")
        BY <2>5, <3>1, SetStatusMoves, NoWayOut DEF InfraFailDies, work
      <3>2. CASE ~(failed /\ MayBecome(t, "failed"))
        BY <2>5, <3>2 DEF InfraFailDies, MovesOn, work
      <3>3. QED
        BY <3>1, <3>2
    <2>6. QED
      BY <1>5, <2>1, <2>2, <2>3, <2>4, <2>5 DEF Crash
  <1>6. CASE Restart \/ UNCHANGED vars
    BY <1>6 DEF Restart, MovesOn, work, vars
  <1>7. QED
    BY <1>1, <1>2, <1>3, <1>4, <1>5, <1>6 DEF Next

\* A task that was completed or cancelled stays so.
THEOREM FinalCorrect == Spec => FinalStaysFinal
  <1>1. TasksInv /\ [Next]_vars =>
            [\A t \in Task : status[t] \in {"completed", "cancelled"} => status'[t] = status[t]]_vars
    BY NextMoves DEF TasksInv, MovesOn
  <1>2. QED
    BY <1>1, TasksInvAlways, PTL DEF Spec, FinalStaysFinal

\* A round of rows follows a decision of the publisher, or is that of an
\* automatic task under evaluation.
THEOREM DecisionCorrect == Spec => RowsFollowDecision
  <1>1. TasksInv /\ [Next]_vars =>
            [\A t \in Task :
                rounds'[t] > rounds[t] =>
                    status[t] = "confirmed" \/ (autoExecute[t] /\ status[t] = "evaluating")]_vars
    <2>1. ASSUME TasksInv, [Next]_vars, NEW t \in Task, rounds'[t] > rounds[t]
          PROVE  rounds'[t] # rounds[t]
      BY <2>1, TasksInvStep, TasksAssumption DEF TasksInv, TypeOK
    <2>2. QED
      BY <2>1, NextMoves DEF TasksInv, MovesOn
  <1>2. QED
    BY <1>1, TasksInvAlways, PTL DEF Spec, RowsFollowDecision
=============================================================================
