--------------------------- MODULE SkillScheduler ---------------------------
(***************************************************************************)
(* The skill auto-updater (skill-scheduler.ts): once a day the server      *)
(* queues, for every workspace somebody uses, one command for one client,  *)
(* which fetches it with its next report (routes/report.ts).               *)
(*                                                                         *)
(* Time is counted in slots, the minutes the scheduler can be told to run  *)
(* at.  A tick of setInterval usually falls into every minute, but not     *)
(* when the event loop is late: it may miss a slot, and the first tick     *)
(* comes a minute after the start.                                         *)
(*                                                                         *)
(* Whether the answer with the commands arrives changes nothing here: the  *)
(* server has already forgotten them.  The dispatch log, which is for the  *)
(* dashboard only, is left out.                                            *)
(***************************************************************************)
EXTENDS Integers

CONSTANTS Client,      \* the desktop clients, by client id
          Hostname,    \* the host name of each client, a number: they are sorted
          Workspace,   \* the workspaces clients report
          ReportChoice,\* the sets of workspaces a report may list
          SlotsPerDay,
          OffsetChoice,\* local time less UTC, in slots, as the time zone has it
          Recent,      \* RECENT_THRESHOLD_MS, in slots
          Fractional,  \* a time of day that is no whole minute, hour 3.5
          ScheduleChoice, \* what an administrator may enter as the slot
          EnvSchedule, \* what SKILL_SCHEDULE_HOUR and _MINUTE may hold
          MaxTime      \* bound: the clock stops here

ASSUME SchedulerAssumption ==
    /\ Hostname \in [Client -> Nat]
    /\ ReportChoice \subseteq SUBSET Workspace
    /\ SlotsPerDay \in Nat \ {0}
    /\ OffsetChoice \subseteq Nat
    /\ Recent \in Nat
    /\ Fractional \notin Int
    /\ ScheduleChoice \subseteq Int \cup {Fractional}
    /\ EnvSchedule \subseteq Int
    /\ MaxTime \in Nat

VARIABLES now,         \* the slot, counted from a midnight UTC
          offset,      \* the one of OffsetChoice in force
          due,         \* the tick of this slot is still to come
          age,         \* slots since clients.last_seen, Recent + 1 and more alike
          workspaces,  \* client_workspaces
          pending,     \* pendingCommands, in memory like the four below
          enabled,
          schedule,    \* scheduleHour and scheduleMinute
          lastRunDate,
          rounds,      \* history: when scheduled rounds ran since the start
          steadySince  \* history: since when nothing disturbed the schedule

clientTables == <<age, workspaces>>
timetable == <<now, offset, due, enabled, schedule, lastRunDate, rounds, steadySince>>
schedulerVars == <<clientTables, timetable, pending>>
-----------------------------------------------------------------------------
LocalSlot(t) == (t + offset) % SlotsPerDay
UtcDate(t) == t \div SlotsPerDay

NoDate == -1

SchedulerInit ==
    /\ now = 0
    /\ offset \in OffsetChoice
    /\ due = FALSE
    /\ age = [c \in Client |-> Recent + 1]
    /\ workspaces = [c \in Client |-> {}]
    /\ pending = [c \in Client |-> {}]
    /\ enabled = FALSE
    /\ schedule \in EnvSchedule
    /\ lastRunDate = NoDate
    /\ rounds = {}
    /\ steadySince = 0
-----------------------------------------------------------------------------
\* getActiveWorkspaces: the clients seen lately that use the workspace.
ActiveClients(w) == {c \in Client : age[c] <= Recent /\ w \in workspaces[c]}

ActiveWorkspaces == {w \in Workspace : ActiveClients(w) # {}}

\* Mutation: the clients of a workspace are not limited to those seen lately.
SelectableEver(w, c) ==
    /\ w \in workspaces[c]
    /\ \A d \in Client : w \in workspaces[d] => Hostname[c] <= Hostname[d]

\* clients[0]: the first by host name, any of them when names are equal.
Selectable(w, c) ==
    /\ c \in ActiveClients(w)
    /\ \A d \in ActiveClients(w) : Hostname[c] <= Hostname[d]

\* dispatchToAllWorkspaces: one selected client for each active workspace.
Dispatch ==
    \E selected \in [ActiveWorkspaces -> Client] :
        /\ \A w \in ActiveWorkspaces : Selectable(w, selected[w])
        /\ pending' = [c \in Client |->
                          pending[c] \cup {w \in ActiveWorkspaces : selected[w] = c}]

\* Mutation: the check of the date is missing.
StartsRoundEachTime ==
    enabled /\ LocalSlot(now) = schedule

StartsRound ==
    /\ enabled
    /\ LocalSlot(now) = schedule
    /\ lastRunDate # UtcDate(now)

\* Mutation: the date is noted before the time of day is looked at.
NotedDateEarly == IF enabled THEN UtcDate(now) ELSE lastRunDate

\* lastRunDate after a tick.
NotedDate == IF StartsRound THEN UtcDate(now) ELSE lastRunDate

\* The date is noted first: a dispatch that fails is not tried again that day.
Tick ==
    /\ due
    /\ due' = FALSE
    /\ lastRunDate' = NotedDate
    /\ IF StartsRound
       THEN /\ rounds' = rounds \cup {now}
            /\ Dispatch \/ UNCHANGED pending
       ELSE UNCHANGED <<rounds, pending>>
    /\ UNCHANGED <<now, offset, enabled, schedule, steadySince, clientTables>>

\* POST /admin/skill-scheduler/trigger
TriggerNow ==
    /\ Dispatch
    /\ UNCHANGED <<clientTables, timetable>>

\* PUT /admin/skill-scheduler/enabled
SetEnabled(v) ==
    /\ enabled' = v
    /\ steadySince' = IF v = enabled THEN steadySince ELSE now
    /\ UNCHANGED <<now, offset, due, schedule, lastRunDate, rounds, pending, clientTables>>

\* Mutation: midnight is entered as the end of the day.
ValidScheduleTo24(s) == s \in {Fractional} \cup 0..SlotsPerDay

\* The check of the route, and once more of setSchedule: two numbers within
\* their ranges, whole or not.
ValidSchedule(s) == s \in {Fractional} \cup 0..SlotsPerDay - 1

\* PUT /admin/skill-scheduler/schedule
SetSchedule(s) ==
    /\ ValidSchedule(s)
    /\ schedule' = s
    /\ steadySince' = IF s = schedule THEN steadySince ELSE now
    /\ UNCHANGED <<now, offset, due, enabled, lastRunDate, rounds, pending, clientTables>>

\* POST /api/report: the client's row and workspaces, then its commands, which
\* are forgotten.  A report without a list of workspaces keeps the old one.
Report(c) ==
    /\ \E W \in ReportChoice \cup {workspaces[c]} : workspaces' = [workspaces EXCEPT ![c] = W]
    /\ age' = [age EXCEPT ![c] = 0]
    /\ pending' = [pending EXCEPT ![c] = {}]
    /\ UNCHANGED timetable

\* A report that names a workspace twice: the client's row is written, the list
\* is rolled back, and the commands stay for the next report.
ReportFails(c) ==
    /\ age' = [age EXCEPT ![c] = 0]
    /\ UNCHANGED <<workspaces, pending, timetable>>

\* The clock goes on; a slot without its tick is a disturbance.
Advance ==
    /\ now < MaxTime
    /\ now' = now + 1
    /\ due' = TRUE
    /\ age' = [c \in Client |-> IF age[c] <= Recent THEN age[c] + 1 ELSE age[c]]
    /\ steadySince' = IF due THEN now + 1 ELSE steadySince
    /\ UNCHANGED <<workspaces, pending, offset, enabled, schedule, lastRunDate, rounds>>

\* The time zone's rules move the local time: summer time begins or ends.
ShiftClock ==
    /\ offset' \in OffsetChoice \ {offset}
    /\ steadySince' = now
    /\ UNCHANGED <<now, due, enabled, schedule, lastRunDate, rounds, pending, clientTables>>

\* The process ends and starts again: the scheduler is off until somebody
\* enables it, the administrator's schedule and all queued commands are gone.
\* parseInt of the environment is not checked: an integer outside the day stands
\* for every hour or minute that does not exist, NaN among them.
SchedulerRestart ==
    /\ due' = FALSE
    /\ pending' = [c \in Client |-> {}]
    /\ enabled' = FALSE
    /\ schedule' \in EnvSchedule
    /\ lastRunDate' = NoDate
    /\ rounds' = {}
    /\ steadySince' = now
    /\ UNCHANGED <<now, offset, clientTables>>

SchedulerNext ==
    \/ Tick
    \/ TriggerNow
    \/ \E v \in BOOLEAN : SetEnabled(v)
    \/ \E s \in ScheduleChoice : SetSchedule(s)
    \/ \E c \in Client : Report(c) \/ ReportFails(c)
    \/ Advance
    \/ ShiftClock
    \/ SchedulerRestart

SchedulerSpec == SchedulerInit /\ [][SchedulerNext]_schedulerVars
-----------------------------------------------------------------------------
(* Properties *)

\* Every variable keeps its type; what the schedule holds need not be a slot of
\* the day, and such a schedule never comes up.
SchedulerTypeOK ==
    /\ now \in 0..MaxTime
    /\ offset \in OffsetChoice
    /\ due \in BOOLEAN
    /\ age \in [Client -> 0..Recent + 1]
    /\ workspaces \in [Client -> SUBSET Workspace]
    /\ pending \in [Client -> SUBSET Workspace]
    /\ enabled \in BOOLEAN
    /\ schedule \in EnvSchedule \cup {Fractional} \cup 0..SlotsPerDay - 1
    /\ lastRunDate \in {NoDate} \cup 0..UtcDate(MaxTime)
    /\ rounds \subseteq 0..MaxTime
    /\ steadySince \in 0..MaxTime

\* Between two starts of the process no UTC date sees two scheduled rounds,
\* although the slot is compared with the local time, an administrator may move
\* the schedule to a later slot of the same day, and a round may fail.
OncePerDate == \A s, t \in rounds : UtcDate(s) = UtcDate(t) => s = t

\* Once the schedule and the local time have stood undisturbed for a day, no
\* scheduled slot passes without a round: the date of the guard is UTC and the
\* slot is local, and still one day's round never keeps the next day's from
\* running, in any time zone.  Within a day of a change it may: a schedule moved
\* to a later slot of the same UTC date is skipped, and so is the slot that
\* summer time brings forward into the UTC date of the round before.
SteadyRounds ==
    \A t \in steadySince + SlotsPerDay .. now - 1 :
        enabled /\ LocalSlot(t) = schedule => t \in rounds

\* A round or a manual trigger that queues anything leaves no active workspace
\* out: each one is pending at a client that was seen lately and uses it, also
\* when one client is selected for several workspaces.
DispatchReachesAll ==
    [][pending' # pending /\ (Tick \/ TriggerNow) =>
          \A w \in ActiveWorkspaces : \E c \in ActiveClients(w) : w \in pending'[c]]_schedulerVars
=============================================================================
