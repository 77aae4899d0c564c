------------------------------- MODULE Tasks --------------------------------
(***************************************************************************)
(* The task life cycle of one room: the tables of tasks, evaluation        *)
(* reports and assignments (db-tasks.ts), the engine (task-engine.ts) and  *)
(* the two channels that drive it, each with automatic-dispatch timers of  *)
(* its own: WebSocket messages (ws-task-handler.ts) and the encrypted HTTP *)
(* API (routes/hub-api.ts).                                                *)
(*                                                                         *)
(* A handler is synchronous, so it is one action; its statements commit    *)
(* one by one, so an action of its own is the process dying between two of *)
(* them.  Agents are remote: their messages come in any order, at any      *)
(* time, and more than once.                                               *)
(*                                                                         *)
(* Left out, because nothing here reads them: texts, priorities, results,  *)
(* error texts, the reviewer's verdict on a report, the event log but for  *)
(* the number of dispatches.                                               *)
(***************************************************************************)
EXTENDS Naturals, FiniteSets, Sequences

CONSTANTS Task,        \* the ids of the tasks that may be created
          Agent,       \* the agents of the room
          NoAgent,     \* assigned_to is null
          Subtask,     \* the subtasks a task may have, in their order
          Concurrency, \* the limits a claim may carry
          MaxRetries,  \* max_retries, 3 in the code
          MaxReports,  \* bound: reports of one agent on one task
          MaxRounds,   \* bound: dispatches of one task
          Named,       \* bound: the sets of subtasks a publisher names in a dispatch
          Crashing     \* bound: whether the process may die

ASSUME TasksAssumption ==
    /\ NoAgent \notin Agent
    /\ Subtask \subseteq Nat
    /\ Concurrency \subseteq Nat
    /\ MaxRetries \in Nat \ {0}
    /\ MaxReports \in Nat
    /\ MaxRounds \in Nat
    /\ Named \subseteq SUBSET Subtask
    /\ Crashing \in BOOLEAN

VARIABLES status,      \* tasks.status, "none" before the row exists
          autoExecute, \* tasks.auto_execute
          subtasks,    \* tasks.subtasks
          assignee,    \* tasks.assigned_to
          retries,     \* tasks.retry_count
          reports,     \* evaluation_reports by task, in order of arrival
          rows,        \* task_assignments by task
          rounds,      \* how often createAssignments ran for the task
          timers,      \* the entries of the two autoDispatchTimers maps
          present,     \* agents whose row names this room (getRoomAgents)
          stopAsked,   \* history: tasks asked to stop since they became active
          disturbed    \* history: an agent left the room or the process died

history == <<stopAsked, disturbed>>
record == <<autoExecute, subtasks>>
work == <<assignee, rows, rounds>>
vars == <<status, record, retries, reports, work, timers, present, history>>
-----------------------------------------------------------------------------
Status == {"draft", "evaluating", "confirmed", "rejected", "dispatched", "running",
           "stopping", "completed", "failed", "cancelled", "queued"}

Active == {"dispatched", "running"}

\* VALID_TRANSITIONS
Successors ==
    [draft      |-> {"evaluating", "cancelled"},
     evaluating |-> {"confirmed", "rejected", "cancelled"},
     confirmed  |-> {"dispatched", "cancelled"},
     rejected   |-> {"draft", "cancelled"},
     dispatched |-> {"running", "cancelled", "failed", "stopping"},
     running    |-> {"completed", "failed", "cancelled", "stopping"},
     stopping   |-> {"cancelled", "failed"},
     completed  |-> {},
     failed     |-> {"evaluating"},
     cancelled  |-> {},
     queued     |-> {"dispatched", "cancelled"}]

Exists(t) == status[t] # "none"

\* transitionStatus finds the task and its table allows the change.
MayBecome(t, s) == Exists(t) /\ s \in Successors[status[t]]

Channel == {"ws", "hub"}

Report == [agent : Agent, claimed : SUBSET Subtask]

\* What a dispatch gives one agent.
Assignment == [agent : Agent, covers : SUBSET Subtask]

\* auto is history: whether the engine made the row or the publisher named it.
Row == [round : Nat, auto : BOOLEAN, agent : Agent, covers : SUBSET Subtask,
        state : {"assigned", "failed"}]

Init ==
    /\ status = [t \in Task |-> "none"]
    /\ autoExecute = [t \in Task |-> FALSE]
    /\ subtasks = [t \in Task |-> {}]
    /\ assignee = [t \in Task |-> NoAgent]
    /\ retries = [t \in Task |-> 0]
    /\ reports = [t \in Task |-> <<>>]
    /\ rows = [t \in Task |-> {}]
    /\ rounds = [t \in Task |-> 0]
    /\ timers = {}
    /\ present = {}
    /\ stopAsked = {}
    /\ disturbed = FALSE
-----------------------------------------------------------------------------
(* Creation *)

\* The row, and for an automatic task the channel's fallback timer.
Create(t, ch, auto, subs) ==
    /\ status[t] = "none"
    /\ status' = [status EXCEPT ![t] = "evaluating"]
    /\ autoExecute' = [autoExecute EXCEPT ![t] = auto]
    /\ subtasks' = [subtasks EXCEPT ![t] = subs]
    /\ timers' = IF auto THEN timers \cup {<<ch, t>>} ELSE timers
    /\ UNCHANGED <<retries, reports, work, present, history>>

\* The dashboard's task is automatic by default and no timer is set for it.
AdminCreate(t) ==
    /\ status[t] = "none"
    /\ status' = [status EXCEPT ![t] = "evaluating"]
    /\ autoExecute' = [autoExecute EXCEPT ![t] = TRUE]
    /\ UNCHANGED <<subtasks, retries, reports, work, timers, present, history>>
-----------------------------------------------------------------------------
(* Dispatch *)

\* createAssignments: one row for each assignment given.
CreateAssignments(t, given, auto) ==
    /\ rounds[t] < MaxRounds
    /\ rounds' = [rounds EXCEPT ![t] = @ + 1]
    /\ rows' = [rows EXCEPT ![t] = @ \cup
                   {[round |-> rounds[t], auto |-> auto, agent |-> g.agent,
                     covers |-> g.covers, state |-> "assigned"] : g \in given}]

\* Mutation: the primary assignee is forgotten.
DispatchedUnowned(t, given, auto, primary) ==
    /\ CreateAssignments(t, given, auto)
    /\ status' = [status EXCEPT ![t] = "dispatched"]
    /\ UNCHANGED assignee

\* The rows, assignTask for the agent of the first row, and the transition.
Dispatched(t, given, auto, primary) ==
    /\ CreateAssignments(t, given, auto)
    /\ assignee' = [assignee EXCEPT ![t] = primary]
    /\ status' = [status EXCEPT ![t] = "dispatched"]

\* What a publisher may ask for: any agents, each with any subtasks, the same
\* subtask or the same agent more than once.
Request == SUBSET [agent : Agent, covers : Named]

\* The publisher dispatches a confirmed task to the agents it names.
Dispatch(t, given, primary) ==
    /\ status[t] = "confirmed"
    /\ \E g \in given : g.agent = primary
    /\ Dispatched(t, given, FALSE, primary)
    /\ UNCHANGED <<record, retries, reports, timers, present, history>>

\* tryAutoConfirmAndDispatch, on the reports rs of task t.
Reporters(rs) == {rs[i].agent : i \in DOMAIN rs}

\* All that an agent claimed.
ClaimsOf(rs, a) == UNION {rs[i].claimed : i \in {j \in DOMAIN rs : rs[j].agent = a}}

\* Mutation: no break at the first report that claims the subtask.
ClaimantsAll(rs, s) == {rs[i].agent : i \in {j \in DOMAIN rs : s \in rs[j].claimed}}

\* The agent of the first report that claims the subtask.
Claimants(rs, s) ==
    {rs[i].agent : i \in {j \in DOMAIN rs :
                             /\ s \in rs[j].claimed
                             /\ \A k \in 1..(j - 1) : s \notin rs[k].claimed}}

Claimed(t, rs) == {s \in subtasks[t] : Claimants(rs, s) # {}}

\* The agents that get a row and what each covers; with no subtasks the whole
\* task goes to the first reporter.
AutoCovers(t, rs) ==
    IF subtasks[t] = {}
    THEN [a \in {rs[i].agent : i \in DOMAIN rs \cap {1}} |-> {}]
    ELSE [a \in UNION {Claimants(rs, s) : s \in Claimed(t, rs)} |->
             {s \in Claimed(t, rs) : a \in Claimants(rs, s)}]

\* The rows of an automatic dispatch.
AutoGiven(t, rs) ==
    {[agent |-> a, covers |-> AutoCovers(t, rs)[a]] : a \in DOMAIN AutoCovers(t, rs)}

\* The first row is that of the agent of the first claimed subtask.
IsPrimary(t, rs, a) ==
    /\ a \in DOMAIN AutoCovers(t, rs)
    /\ Claimed(t, rs) # {} =>
          \E s \in AutoCovers(t, rs)[a] : \A r \in Claimed(t, rs) : s <= r

\* Mutation: "<=" for "<" in the comparison with the number of agents.
AllReportedStrictly(rs) == Cardinality(Reporters(rs)) > Cardinality(present)

AllReported(rs) == Cardinality(Reporters(rs)) >= Cardinality(present)

\* Mutation: the status is not looked at.
AutoReadyAnyStatus(t, rs, force) ==
    /\ autoExecute[t]
    /\ Exists(t)
    /\ force \/ AllReported(rs)
    /\ DOMAIN AutoCovers(t, rs) # {}

AutoReady(t, rs, force) ==
    /\ autoExecute[t]
    /\ status[t] = "evaluating"
    /\ force \/ AllReported(rs)
    /\ DOMAIN AutoCovers(t, rs) # {}

AutoDispatch(t, rs, force) ==
    IF AutoReady(t, rs, force)
    THEN \E a \in Agent : IsPrimary(t, rs, a) /\ Dispatched(t, AutoGiven(t, rs), TRUE, a)
    ELSE UNCHANGED <<status, work>>
-----------------------------------------------------------------------------
(* Evaluation *)

ReportsBy(t, a) == {i \in DOMAIN reports[t] : reports[t][i].agent = a}

\* The row of evaluation_reports.  Any agent may report, present or not, again
\* and whatever the task's status.
AddReport(t, a, claimed) ==
    /\ Exists(t)
    /\ Cardinality(ReportsBy(t, a)) < MaxReports
    /\ reports' = [reports EXCEPT ![t] = Append(@, [agent |-> a, claimed |-> claimed])]

\* Mutation: a report does not attempt the dispatch.
SubmitOnly(t, ch, a, claimed) ==
    /\ AddReport(t, a, claimed)
    /\ timers' = timers \ {<<ch, t>>}
    /\ UNCHANGED <<status, record, work, retries, present, history>>

\* The report, the channel's own timer cleared, and an attempt to dispatch.
Submit(t, ch, a, claimed) ==
    /\ AddReport(t, a, claimed)
    /\ timers' = timers \ {<<ch, t>>}
    /\ AutoDispatch(t, reports'[t], FALSE)
    /\ UNCHANGED <<record, retries, present, history>>

\* The fallback, 30 s after the creation, whatever became of the task.
TimerFires(t, ch) ==
    /\ <<ch, t>> \in timers
    /\ timers' = timers \ {<<ch, t>>}
    /\ AutoDispatch(t, reports[t], TRUE)
    /\ UNCHANGED <<record, retries, reports, present, history>>
-----------------------------------------------------------------------------
(* The publisher's decisions.  None of them touches the timers. *)

Become(t, s) ==
    /\ MayBecome(t, s)
    /\ status' = [status EXCEPT ![t] = s]
    /\ stopAsked' = IF s \in Active THEN stopAsked ELSE stopAsked \ {t}
    /\ UNCHANGED <<record, retries, reports, work, timers, present, disturbed>>

Confirm(t) == Become(t, "confirmed")

Reject(t) == Become(t, "rejected")

Cancel(t) == Become(t, "cancelled")

\* The dashboard cancels less.
AdminCancel(t) == status[t] \in {"queued", "dispatched"} /\ Become(t, "cancelled")

\* The engine asks for "stopping", a status that the CHECK of the tasks table
\* does not list: the UPDATE throws.  Express answers 500.
HubStop(t) ==
    /\ status[t] \in Active
    /\ stopAsked' = stopAsked \cup {t}
    /\ UNCHANGED <<status, record, retries, reports, work, timers, present, disturbed>>

\* Nothing catches what a WebSocket message's listener throws: the process dies.
WsStop(t) ==
    /\ Crashing
    /\ status[t] \in Active
    /\ stopAsked' = stopAsked \cup {t}
    /\ timers' = {}
    /\ disturbed' = TRUE
    /\ UNCHANGED <<status, record, retries, reports, work, present>>
-----------------------------------------------------------------------------
(* The agents *)

ActiveTasks(a) == {t \in Task : assignee[t] = a /\ status[t] \in Active}

\* Mutation: the claim does not look at the status.
ClaimAnything(t, a, limit) ==
    /\ Cardinality(ActiveTasks(a)) < limit
    /\ Exists(t)
    /\ assignee' = [assignee EXCEPT ![t] = a]
    /\ status' = [status EXCEPT ![t] = "dispatched"]
    /\ UNCHANGED <<record, retries, reports, rows, rounds, timers, present, history>>

\* A claim sets the status itself, past the table of transitions.
Claim(t, a, limit) ==
    /\ Cardinality(ActiveTasks(a)) < limit
    /\ status[t] \in {"queued", "evaluating"}
    /\ assignee' = [assignee EXCEPT ![t] = a]
    /\ status' = [status EXCEPT ![t] = "dispatched"]
    /\ UNCHANGED <<record, retries, reports, rows, rounds, timers, present, history>>

Start(t, a) == assignee[t] = a /\ Become(t, "running")

\* The result is written even when the transition is refused.
Complete(t, a) == assignee[t] = a /\ Become(t, "completed")

\* Mutation: "<=" for "<" in the comparison with the retry budget.
InfraFailOnceMore(t, a) ==
    /\ assignee[t] = a
    /\ retries[t] <= MaxRetries
    /\ retries' = [retries EXCEPT ![t] = @ + 1]
    /\ status' = [status EXCEPT ![t] = IF MayBecome(t, "failed") THEN "evaluating" ELSE @]
    /\ stopAsked' = IF MayBecome(t, "failed") THEN stopAsked \ {t} ELSE stopAsked
    /\ UNCHANGED <<record, reports, work, timers, present, disturbed>>

\* An infrastructure failure within the budget: the retry is counted, whether
\* or not the task is in a state that can fail.
InfraFail(t, a) ==
    /\ assignee[t] = a
    /\ retries[t] < MaxRetries
    /\ retries' = [retries EXCEPT ![t] = @ + 1]
    /\ status' = [status EXCEPT ![t] = IF MayBecome(t, "failed") THEN "evaluating" ELSE @]
    /\ stopAsked' = IF MayBecome(t, "failed") THEN stopAsked \ {t} ELSE stopAsked
    /\ UNCHANGED <<record, reports, work, timers, present, disturbed>>

\* Any other failure, or the budget is spent.
Fail(t, a) == assignee[t] = a /\ Become(t, "failed")

\* The first row of the agent is marked, whichever round it is of.
StopAck(t, a) ==
    /\ \E r \in rows[t] :
          /\ r.agent = a
          /\ \A q \in rows[t] : q.agent = a => r.round <= q.round
          /\ rows' = [rows EXCEPT ![t] = (@ \ {r}) \cup {[r EXCEPT !.state = "failed"]}]
    /\ UNCHANGED <<status, record, retries, reports, assignee, rounds, timers, present, history>>

Register(a) ==
    /\ present' = present \cup {a}
    /\ UNCHANGED <<status, record, retries, reports, work, timers, history>>

\* An agent's row moves with it when it registers in another room; one that
\* deregisters or goes offline keeps its row.
MoveAway(a) ==
    /\ a \in present
    /\ present' = present \ {a}
    /\ disturbed' = TRUE
    /\ UNCHANGED <<status, record, retries, reports, work, timers, stopAsked>>
-----------------------------------------------------------------------------
(* The process dying: between two handlers, or between two statements of one. *)

Dies == Crashing /\ timers' = {} /\ disturbed' = TRUE /\ UNCHANGED <<record, present>>

Restart ==
    /\ Dies
    /\ UNCHANGED <<status, retries, reports, work, stopAsked>>

\* After the report, before the attempt to dispatch.
SubmitDies(t, a, claimed) ==
    /\ Dies
    /\ AddReport(t, a, claimed)
    /\ UNCHANGED <<status, retries, work, stopAsked>>

\* What sets off an automatic dispatch: a timer, or one more report.
Attempt(t, force) ==
    \/ force /\ (\E ch \in Channel : <<ch, t>> \in timers) /\ UNCHANGED reports
    \/ ~force /\ \E a \in Agent, claimed \in SUBSET Subtask : AddReport(t, a, claimed)

\* After the confirmation, before the rows.
ConfirmedDies(t, force) ==
    /\ Dies
    /\ Attempt(t, force)
    /\ AutoReady(t, reports'[t], force)
    /\ status' = [status EXCEPT ![t] = "confirmed"]
    /\ UNCHANGED <<retries, work, stopAsked>>

\* After the rows, before or after the primary assignee.
RowsDie(t, given, auto, primary, named) ==
    /\ Dies
    /\ CreateAssignments(t, given, auto)
    /\ assignee' = IF named THEN [assignee EXCEPT ![t] = primary] ELSE assignee
    /\ status' = [status EXCEPT ![t] = "confirmed"]
    /\ UNCHANGED <<retries, stopAsked>>

DispatchDies(t, given, primary, named) ==
    /\ status[t] = "confirmed"
    /\ \E g \in given : g.agent = primary
    /\ RowsDie(t, given, FALSE, primary, named)
    /\ UNCHANGED reports

AutoDispatchDies(t, force, primary, named) ==
    /\ Attempt(t, force)
    /\ AutoReady(t, reports'[t], force)
    /\ IsPrimary(t, reports'[t], primary)
    /\ RowsDie(t, AutoGiven(t, reports'[t]), TRUE, primary, named)

\* After the retry is counted, before or after the task fails.
InfraFailDies(t, a, failed) ==
    /\ Dies
    /\ assignee[t] = a
    /\ retries[t] < MaxRetries
    /\ retries' = [retries EXCEPT ![t] = @ + 1]
    /\ IF failed /\ MayBecome(t, "failed")
       THEN status' = [status EXCEPT ![t] = "failed"] /\ stopAsked' = stopAsked \ {t}
       ELSE UNCHANGED <<status, stopAsked>>
    /\ UNCHANGED <<reports, work>>
-----------------------------------------------------------------------------
Publisher(t) ==
    \/ \E ch \in Channel, auto \in BOOLEAN, subs \in SUBSET Subtask : Create(t, ch, auto, subs)
    \/ AdminCreate(t)
    \/ \E given \in Request, a \in Agent : Dispatch(t, given, a)
    \/ Confirm(t)
    \/ Reject(t)
    \/ Cancel(t)
    \/ AdminCancel(t)
    \/ HubStop(t)
    \/ WsStop(t)

Worker(t, a) ==
    \/ \E ch \in Channel, claimed \in SUBSET Subtask : Submit(t, ch, a, claimed)
    \/ \E limit \in Concurrency : Claim(t, a, limit)
    \/ Start(t, a)
    \/ Complete(t, a)
    \/ InfraFail(t, a)
    \/ Fail(t, a)
    \/ StopAck(t, a)

Crash(t) ==
    \/ \E a \in Agent, claimed \in SUBSET Subtask : SubmitDies(t, a, claimed)
    \/ \E force \in BOOLEAN : ConfirmedDies(t, force)
    \/ \E given \in Request, a \in Agent, named \in BOOLEAN :
          DispatchDies(t, given, a, named)
    \/ \E force, named \in BOOLEAN, a \in Agent : AutoDispatchDies(t, force, a, named)
    \/ \E a \in Agent, failed \in BOOLEAN : InfraFailDies(t, a, failed)

Next ==
    \/ \E t \in Task : Publisher(t)
    \/ \E t \in Task, a \in Agent : Worker(t, a)
    \/ \E t \in Task, ch \in Channel : TimerFires(t, ch)
    \/ \E a \in Agent : Register(a)
    \/ \E a \in Agent : MoveAway(a)
    \/ \E t \in Task : Crash(t)
    \/ Restart

Spec == Init /\ [][Next]_vars

\* Timers and agents that do what they owe: the event loop runs a timer that is
\* due, and an agent of the room eventually sends its evaluation.
FirstReport(t, a) ==
    /\ a \in present /\ ReportsBy(t, a) = {}
    /\ \E ch \in Channel, claimed \in SUBSET Subtask : Submit(t, ch, a, claimed)

TimersRun == \A t \in Task, ch \in Channel : WF_vars(TimerFires(t, ch))

AgentsReport == \A t \in Task, a \in Agent : WF_vars(FirstReport(t, a))

TimedSpec == Spec /\ TimersRun

FairSpec == Spec /\ TimersRun /\ AgentsReport
-----------------------------------------------------------------------------
(* Properties *)

\* Every table and map is well typed, the retry counter within its budget.
TypeOK ==
    /\ status \in [Task -> Status \cup {"none"}]
    /\ autoExecute \in [Task -> BOOLEAN]
    /\ subtasks \in [Task -> SUBSET Subtask]
    /\ assignee \in [Task -> Agent \cup {NoAgent}]
    /\ retries \in [Task -> 0..MaxRetries]
    /\ reports \in [Task -> Seq(Report)]
    /\ rows \in [Task -> SUBSET Row]
    /\ rounds \in [Task -> 0..MaxRounds]
    /\ timers \subseteq Channel \X Task
    /\ present \subseteq Agent
    /\ stopAsked \subseteq Task
    /\ disturbed \in BOOLEAN

\* A task that is dispatched, running or done names an agent that did or does
\* it, also when the process died within a dispatch and whichever of claim,
\* dispatch and automatic dispatch came last.
WorkHasOwner == \A t \in Task : status[t] \in Active \cup {"completed"} => assignee[t] # NoAgent

\* A task that was completed or cancelled stays so: claims, which set the
\* status past the table of transitions, late messages of agents and timers
\* that are never cleared on a cancellation do not wake it.
FinalStaysFinal ==
    [][\A t \in Task : status[t] \in {"completed", "cancelled"} => status'[t] = status[t]]_vars

\* Agents get rows only for a task its publisher confirmed or one that is
\* automatic and still under evaluation: a timer or a report that comes after
\* the task was rejected, cancelled, claimed or dispatched assigns nobody.
RowsFollowDecision ==
    [][\A t \in Task :
          rounds'[t] > rounds[t] =>
              status[t] = "confirmed" \/ (autoExecute[t] /\ status[t] = "evaluating")]_vars

\* An automatic round never gives a subtask to two agents, and gives an agent
\* that has reported only what it claimed in one of its reports: re-evaluations,
\* repeated reports and reports with overlapping claims included.  A publisher's
\* round gives what the request says: nothing checks it.
SubtasksSplit ==
    \A t \in Task : \A p, q \in rows[t] :
        p.auto =>
            /\ p.round = q.round /\ p.covers \cap q.covers # {} => p = q
            /\ p.agent \in Reporters(reports[t])
            /\ p.covers \subseteq ClaimsOf(reports[t], p.agent)

\* An automatic task on which somebody's claim could be dispatched does not
\* wait once every agent of the room has reported, unless an agent left the
\* room or the process died in between, or the task is being re-evaluated.
NoMissedDispatch ==
    \A t \in Task :
        autoExecute[t] /\ status[t] = "evaluating" /\ retries[t] = 0 /\ ~disturbed
        /\ DOMAIN AutoCovers(t, reports[t]) # {}
            => \E a \in present : a \notin Reporters(reports[t])

\* If the agents of the room report, an automatic task leaves its evaluation
\* (or nobody claimed a subtask of it): agents joining meanwhile, timers and
\* the publisher's decisions cannot leave it waiting.
EvaluationEnds ==
    \A t \in Task :
        autoExecute[t] /\ status[t] = "evaluating" /\ retries[t] = 0
        /\ DOMAIN AutoCovers(t, reports[t]) # {}
            ~> status[t] # "evaluating" \/ disturbed

-----------------------------------------------------------------------------
(* What comments of the code say and the code does not do. *)

\* ws-task-handler.ts: "Schedule auto-dispatch fallback for auto_execute tasks":
\* once somebody has reported, the fallback dispatches the task although the
\* others stay silent.
FallbackDispatches ==
    \A t \in Task :
        autoExecute[t] /\ status[t] = "evaluating" /\ retries[t] = 0
        /\ subtasks[t] = {} /\ reports[t] # <<>>
            ~> status[t] # "evaluating" \/ disturbed

\* hub-api.ts: "Cannot dissolve: room has active tasks. Stop them first.": a
\* task that was asked to stop is not active any more.
StopIsHonoured == \A t \in stopAsked : status[t] \notin Active
=============================================================================
