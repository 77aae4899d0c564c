# A formal model of sman-server

sman-server is one Node process: an Express application, a WebSocket server and
several SQLite files reached through a synchronous driver. Clients (desktop
applications) report usage, form collaboration rooms, register agents, hand
tasks to them, exchange instant messages and pay each other from a ledger. A
web dashboard administers all of it.

This directory models the parts with a protocol of their own. Paths of the code
below are relative to `src/src/`.

## How the code runs, and what that means for the models

* **A handler is one step.** Every handler (HTTP route, message listener, timer
  callback) is synchronous and SQLite calls do not yield, so a handler runs to
  its end before another one starts. Interleaving happens *between* handlers:
  messages of several clients, timers, close events, HTTP requests.
* **The process may die between two statements.** Only what is inside
  `db.transaction` is atomic on disk. Where a handler writes in several
  statements, the prefixes that matter are actions of their own (`...Dies`, or
  the state between `EscrowConfirm` and `ChargeFee`).
* **Tables survive, maps do not.** Sockets, subscriptions, timers, the circuit
  breaker and the memberships of instant-message rooms are in memory.
* **Clients are remote.** Their messages come in any order, repeated, or never.

## Inventory

| Component | State | Operations | Interacts with | What makes it correct |
|---|---|---|---|---|
| Ledger (`ledger-engine.ts`, `db-accounts.ts`, `account-engine.ts`, `routes/accounts.ts`, `routes/admin-accounts.ts`) | accounts, transaction rows | record an entry; transfer, grant, escrow lock, confirm, dispute; freeze, unfreeze, close, control | circuit breaker, limits, control configurations | rows and balances agree, nothing overdrawn, each event id once, frozen funds stay |
| Circuit breaker (`circuit-breaker.ts`) | state, two counters, time of the last failure | canExecute, recordSuccess, recordFailure | called by the ledger | opens after the threshold, closes after a streak |
| Limits and control configurations (`limit-engine.ts`, `control-engine.ts`) | limits, configurations | check | read by the ledger | a limit is not exceeded |
| Task engine (`task-engine.ts`, `db-tasks.ts`, `ws-task-handler.ts`, `routes/hub-api.ts`, `routes/tasks.ts`) | tasks, evaluation reports, assignments; two maps of timers | create, evaluate, confirm, reject, dispatch, claim, start, complete, fail, retry, stop, cancel | reads the agents of the room, broadcasts through the hub | decisions are respected, subtasks are split, nothing waits for ever |
| Hub (`ws-server.ts`, `db-rooms.ts`, `routes/rooms.ts`, `routes/hub-api.ts`) | maps of sockets; rooms, members, agents | connect, authenticate, close; create, join, leave, dissolve; register, heartbeat, stale check | task handler, instant messages, HTTP routes on the same tables | indexes and broadcast sets are sound, presence is truthful |
| Instant messages (`ws-server.ts`, `db-im.ts`) | in-memory membership; messages, rooms | send, sync, room updated, dissolved, retention | the hub's index of clients | members are reached, a sync leaves no gap |
| Skill scheduler (`skill-scheduler.ts`, `routes/report.ts`) | pending commands, schedule, last run date | tick, dispatch, trigger, hand out commands | active workspaces of the reports | one round a day, no workspace left out |
| Achievement leaderboard (`db.ts`, `routes/report.ts`, `routes/admin.ts`, `../web/src/components/LeaderboardTab.tsx`) | a row per agent, a log of changes | report a score, read a page | the dashboard asks for pages | the log tells the row, pages show everybody once |
| Application updates (`routes/admin.ts`, `index.ts`) | installers, redirections and feeds, all files | upload, publish, download | clients follow a feed to an installer | a feed leads to what it describes |
| Certificates (`ca.ts`, `routes/auth.ts`, `db-certs.ts`) | key and certificate files, certificates issued | start-up, enrol, renew | the hub reads a status at connection | key and certificate match, the CA stays |
| Reports, broadcasts, feedback (`db.ts`, `routes/report.ts`, `routes/broadcast.ts`, `routes/admin.ts`) | one table each | single upserts and queries | scheduler | not modelled, see below |
| Encryption, process set-up, dashboard (`crypto.ts`, `im-crypto.ts`, `index.ts`, `../web/`) | none | | | not modelled |

Hard behaviours, by component, are the `hazards` of `PROJECT.json`: each one
names the line where it bites and the properties that would catch it.

## Modules

| Module | Models | Notes |
|---|---|---|
| `CircuitBreaker` | `circuit-breaker.ts` | operators on the breaker's record; no behaviour of its own |
| `Ledger` | the ledger, its account life cycle and its routes | EXTENDS `CircuitBreaker` |
| `LedgerPolicy` | limits and control configurations | EXTENDS `Ledger`: each entry is a step of `Ledger` that the policy allows |
| `Books` | what a ledger promises | abstract; `Ledger` implements it |
| `LedgerProofs`, `PolicyProofs` | | theorems about `Ledger`, and about `LedgerPolicy` on top of them |
| `Tasks` | the task engine and its two channels | |
| `TasksProofs` | | theorems about `Tasks` |
| `Connections` | the connections of the WebSocket server and its two maps of them | actions on `link`, `clients`, `who`, `index` alone |
| `Hub` | rooms and agents | EXTENDS `Connections` |
| `Messaging` | instant messages of one room, and the clients that fetch them | EXTENDS `Connections` |
| `ConnectionsProofs` | the connections by themselves, `ConnectionsSpec` | its maps are sound; `Hub` and `Messaging` implement it |
| `HubProofs`, `MessagingProofs` | | theorems about `Hub` and `Messaging`; EXTEND `ConnectionsProofs` |
| `SkillScheduler` | the daily rounds of the skill scheduler and the reports that fetch commands | |
| `SchedulerProofs` | | theorems about `SkillScheduler` |
| `Leaderboard` | the leaderboard, its log and its pages | |
| `Releases` | uploads, publications and downloads of installers | |
| `Tls` | the files of the CA and of the server, enrolment and renewal | |
| `ServicesProofs` | | theorems about `Leaderboard`, `Releases` and `Tls` |
| `MCLedger`, `MCLedgerPolicy`, `MCTasks`, `MCHub`, `MCMessaging` | | small instances |
| `MCServices` | the four small services side by side | small instance |

### Ledger

`balance`, `flags` and `status` are columns of `accounts`. An account row that
does not exist is a row with the column defaults, because
`getOrCreateAccount` inserts exactly that. `transaction_details` is kept as
`settled` (the event ids callers chose) and the totals `debited` and `credited`
of each account: the properties do not tell more apart. `RecordEntry` follows
the numbered comments of `recordEntry`, [0] to [8]; its answers are grouped by
what they do to the state (`ReplyCode`). A control configuration or a limit may
refuse any entry of an account subject to one (`PolicyApplies`), so what holds of
`Ledger` holds under any policy.

No route checks the ids in a request: the system account `System` may pay, be paid, be
frozen and be deprived of credit like a user's (`Party`). `Payer`, `Payee` and
`Administered` are the parties that do so in an instance; the theorems hold for any.

`EscrowConfirm` and `ChargeFee` are the two transactions of one handler: while
`fee` is set no other handler starts (`Idle`), but `Restart` may come between.
Failures of the database are the two disjuncts `Failed(ev, "storage", ...)`: at
any statement, or at the commit. `recordSuccess` runs inside the transaction, so a
failing commit has already reset the breaker's counter, and may have closed it,
when `recordFailure` runs. Failures the code provokes itself are `Throws`.

The platform fee is `Math.round(amount * 0.15)`; on the integers the routes
produce, the floating-point result equals `(15 n + 50) \div 100`.

### LedgerPolicy

`limits` and `configs` are the active rows of their tables, `recent` the rows of
`transaction_details` within the interval, oldest first, each with the limits it
was checked against; `Used` adds up over a set of places in it. Every action is the action of `Ledger` of the same handler
conjoined with `Policy`, which says which answers the tables allow; no behaviour
is added, so the properties of `Ledger` hold of it too. Two configurations of the
same priority are ordered by nothing in the query: either may decide.

### Tasks

One room. `timers` is the union of the two `autoDispatchTimers` maps (one in the
WebSocket handler, one in the HTTP router): a pair of channel and task.
`rows` are the `task_assignments`, with the round that created them and whether the
engine or a publisher did (`auto`). A publisher's request is any set of agents and
subtasks (`Request`; `Named` bounds the sets of subtasks in an instance): nothing checks it.
`present` are the agents `getRoomAgents` returns: those whose row names the
room, offline ones included. `Claim` bypasses the table of transitions as the
code does. The crash actions are the prefixes of a handler's writes.
`stopAsked` and `disturbed` are history variables.

### Connections and Hub

What a connection event does to the server's maps of connections is said once, in
`Connections`; `Hub` and `Messaging` compose with it and each add what the same
event does to their own state. A `Socket` is one connection. `clients` and `who` are the map `clients`; `index`
is `clientIdToWs`; `subscribers` is the map `rooms` and `subscribed` the field
`subscribedRooms`. HTTP routes change the tables and not the maps: they are
separate actions. The close event of a connection (`Close`) comes at any time
after the client opened another one. A connection authenticated by its
certificate is `"certified"`: no listener is registered for it, so none of the
handlers below ever runs for it and its close (`CloseUnheard`) changes no map.
`CreateRoom` is two INSERTs without a transaction: `CreateRoomDies` stops after the first,
and `halfMade`, a history variable, remembers the room until its owner joins. A room's
`limit` is whatever the request says, zero and negative numbers included.
`survivors` is a history variable: agents not heard of since the process died.

### Messaging

`reach` is the room's set in `imRoomMembers`, `listed` the members column of its
row, `store` the timestamps of its messages. Handlers go
by `reach` and `index` when they send, by `reach` and `listed` when they answer a
sync. `lost` are the connections whose client is gone before the server knows.
Sending to a client is one step with its arrival: a connection delivers in order
or is lost.

The clients are external: a client goes by the connection it opened last (`using`), keeps
what it receives (`held` are the messages whose latest contents it has), asks for
pages starting from timestamp 0, continues with the last timestamp of a page, and
starts again when the connection it uses is gone. The close event of another,
replaced connection of it is nothing it can notice, although the server then neither
finds it nor counts it as a member: what is sent meanwhile is remembered in the
history variable `missed`. `synced` is a history variable too.

### SkillScheduler

Time is counted in slots, the minutes a schedule can name, from a midnight UTC;
`due` says that the tick of the current slot has not come. `setInterval` promises
no tick in any particular minute, so `Advance` may skip one, which the history
variable `steadySince` records. The guard of a round compares the *local* slot and
the *UTC* date, as the code does (`LocalSlot`, `UtcDate`); `offset` relates the two and
`ShiftClock` changes it when summer time begins or ends, which is a disturbance too. A
schedule need not be a slot of the day: the route takes fractions (`Fractional`) and the
environment anything (`EnvSchedule`); such a schedule never comes up. A round notes its date
before it dispatches: in `Tick` the dispatch may fail and the date stays. `age` is
the time since a client was seen; all ages above `Recent` are alike. `Report` is
the handler of a report with its three effects (the client's row, its workspaces, its
commands); `ReportFails` is one whose list of workspaces is rolled back.

### Leaderboard

`ReportScore` reads the current row, writes the new one, and logs it if a field
differs; `ReportScoreDies` stops after the row. `reportedAt` is `updated_at`, a
millisecond that several reports may share. `Orders` are the lists the ORDER BY of
`getLeaderboardPage` allows, of which each query takes one; `Page` cuts one, and
`PageCount` is what the dashboard computes.

### Releases

`disk` is the updates directory. A request is a sequence of writes
(`UploadWrites`, `PublishWrites`, `FeedWrites`); it is done (`WriteAll`) or the process dies after
any prefix, the next file being damaged or not (`WriteSome`). `cut` is a history
variable. `Download` is what a name leads to.

### Tls

A start goes through the phases `down`, `ca`, `serving`, and may die wherever
OpenSSL has written one file and not the next; the next start finds what is there,
a damaged file included. `HasCA` and `Reusable` look at exactly what the code looks at,
existence and the last day. Certificates are key, issuer and last day; enrolment and
renewal issue one, and the answer may be lost after the row is written. A renewal looks at
the name of the old certificate's issuer, which is the same for every CA the hub makes, and
drops the answer of `verify`; so it issues a certificate to any key. The calendar
never goes back: a clock that does is outside the model.

### MCServices

The four services share the process and no state: no action of one reads or
writes a variable of another. `part` picks the one that moves and the others stay as they
started, so the run explores the sum of the four state spaces rather than their
product, and a property of one part holds of the product exactly if it holds here.

## Runs

Every run is exhaustive for its bounds. Bounds are CONSTANTS, named in the
modules, and set in the `.cfg`; deadlock is not checked because every component
may legitimately come to rest (all ids used, all retries spent).

| Run | Bounds | What it shows |
|---|---|---|
| `ledger_books` | 2 users and the system, of which one user and the system pay and are administered and the other user is paid, 1 event id, amounts 0 and 4, turnover 4 per account | The balances agree with the rows (`DoubleEntry`), nothing is overdrawn, money is only issued by the system, a retried event id is never told it failed, frozen and closed accounts keep their funds, the rows implement the abstract book (`RefinesBooks`), and nothing on the payee's side stops the fee entry of a confirmation (`FeeCovered`). One payer, one payee and the system are enough for every pair of roles an entry has; turnover 4 lets an account be filled, emptied and refused. 4 is the least amount with a fee of 1 milli-credit; 0 is the refused one. |
| `ledger_policy` | 1 user with its three accounts, amount 4, turnover 8, 2 limits, a blacklist, thresholds 2 and 2 | `LimitHolds`: a limit is exceeded by one entry at most, whichever of the two units and dimensions it has. Three accounts are a payer with two counterparties; turnover 8 lets each pay twice. And the breaker opens and closes when it should (`ClosedMeansHealthy`, `ClosesAfterStreak`): two failures of a row open it, two half-open periods show that the first one's successes do not count in the second. |
| `tasks_crash` | 1 task, 1 subtask, 2 agents, 2 rounds, 1 retry, crashes | `WorkHasOwner`, `FinalStaysFinal`, `RowsFollowDecision`, and under fairness `EvaluationEnds`. |
| `tasks_rounds` | 1 task, 2 subtasks, 2 agents, 2 rounds, 1 retry, requests that name the first subtask for any agents, no crash | `SubtasksSplit`, `NoMissedDispatch`: a second round needs the retry, overlapping claims need two agents and two subtasks, and a publisher's request may give one subtask to both agents. |
| `hub_safety` | 3 clients, 3 sockets, 1 room with limit 2 or 0, 1 agent, crashes | `IndexSound`, `FeedsAreAlive`, `RoomsInOrder`, `OnlineMeansConnected`, and under fairness `GoneMeansOffline`. Three sockets are a connection, its successor, and a third party. A limit of 0 keeps everybody but the owner out. |
| `messaging` | 2 clients, 3 sockets, 2 messages with timestamps -1, 1 and 2, pages of 1 message, crashes | `MembersReached`, `NoGap`. Pages of one message make two messages a paginated fetch; the third socket is the sender's while a client replaces its connection. |
| `services` | scheduler: 2 clients, 2 workspaces, days of 3 slots, local time level with UTC or 1 slot ahead, clients recent in the slot they report, schedules 0, 1, 3 (refused) and a fraction, an environment that says 0 or 5 (no slot of the day), 6 slots; leaderboard: 3 agents, 4 entries, 2 instants, pages of 2; releases: one `.exe`, `.zip` and `.dmg` name, 2 builds, 1 URL; TLS: 1 client, 6 days, validity 4, renewal 1 day before the end, 6 keys | `OncePerDate`, `SteadyRounds`, `DispatchReachesAll`: two UTC midnights and two local ones fall into 6 slots, and the local time can shift and then stand for a day. `LogTellsRow`, `PagesPartition`: three agents on pages of two, with entries that tie in the total, in a dimension, or in nothing, and reports of one instant. `FeedLeadsSomewhere`, `FeedDescribesDownload`: each kind of file with each feed, two contents for one name. `ServesMatchingPair`, `FreshAfterStart`, `ClientsKeepTheirCA`: a first certificate, its renewal and starts that die in between. |
| `ledger_confirm_releases` | violation | see disagreements |
| `tasks_fallback` | violation | see disagreements |
| `tasks_stop` | violation | see disagreements |
| `hub_index` | violation | see disagreements |
| `tls_uptime` | violation | see disagreements |

In `tasks_rounds` agents, in `messaging` clients, sockets and messages, and in
`services` builds and agents of the leaderboard are symmetric; runs with liveness use no symmetry.

### Fairness

* `TimersRun`: a pending timer fires. `setTimeout` on a live event loop; a crash
  removes the timer, so nothing is assumed across one.
* `AgentsReport`: an agent of the room that has not evaluated the task does so.
  This is the contract of the agents, not of the server, and only
  `EvaluationEnds` uses it; `FallbackDispatches` is checked without it.
* `GoStale`, `CheckStale`: 90 s pass and `setInterval` runs its callback.

No fairness is assumed of users, administrators, close events or crashes.

## Disagreements between the code and what it says of itself

With a run that exhibits them:

* `ConfirmReleasesEscrow`: a comment in `routes/accounts.ts` says that a
  confirmation releases the escrow to the payee less 15 %. The release takes
  only `amount - fee` out of the escrow and the second entry takes the fee from
  the payee's revenue: the payee pays twice, the payer's escrow keeps the fee.
* `FallbackDispatches`: the fallback timer is cleared by the first evaluation and
  never set again, so one silent agent keeps an automatic task waiting.
* `StopIsHonoured`: `stopping` is a status of the transition table that the
  column's CHECK rejects. Every stop throws; over the WebSocket nothing catches
  it. A room with an active task cannot be dissolved as its error message says.
* `IndexCoversClients`: the close of a replaced connection deletes the index entry
  of the connection that replaced it; the client is online and not found.
* `RenewsItself`: the repository's README promises "auto-renewal" of the server
  certificate. It is renewed by a start of the process that finds 30 days or less left, and by
  nothing else; a process that runs on serves an expired one. `FreshAfterStart`
  is what does hold.

Seen while modelling, kept in the models as the code has them, without a run:

* `account-engine.ts` says of `close` "Cannot be reversed"; `Unfreeze` reverses it.
  No route calls `close`.
* `routes/admin-accounts.ts` freezes and controls any account, that of the system
  included. The fee of a confirmation then fails, its result is ignored, and the payee
  keeps the fee; `FeeCovered` says that nothing else on the way to it does.
* A publisher's dispatch is not checked against the task: one subtask may go to two agents,
  and a subtask that nobody claimed, or that does not exist, to anybody. `SubtasksSplit`
  is about automatic rounds.
* `createRoom` writes the room and its owner's membership in two statements: a crash
  between them leaves an active room whose owner is no member. And nothing checks
  `maxAgents`: with 0 or less nobody but the owner can join. `RoomsInOrder` says what is left.
* The infrastructure failures of a task count towards its retries also when it is in no
  state that can fail.
* `reject-codes.ts` names E001 a failed database write; the catch block of
  `recordEntry` answers it, and counts it towards the breaker, also for a closed
  account or an overdrawn escrow.
* `task-engine.ts` says "Check if all agents have submitted" and compares two
  numbers: reports of agents that left count for those that are there.
* `README.md` of the repository offers mTLS for WebSocket connections; such a
  connection gets no listeners.
* The sync cursor of instant messages is a timestamp, and new contents of a message
  keep its old one: a client that resumes from the cursor of an earlier connection
  misses new contents, and messages with equal timestamps on the two sides of a
  page limit are skipped. Nor does anything check the timestamps senders give: a
  negative one is never fetched, since clients start from 0. And after the late close of a
  connection that was replaced the client is neither found nor a member, and misses what is
  sent, without learning of it, until it fetches. `NoGap` says exactly when nothing is missed.
* `reject-codes.ts` words a limit as "at most" its threshold per interval; it is
  compared with what was spent before the entry (`limit-engine.ts`), so the last
  entry may exceed an amount by any amount. `LimitHolds` says what is left.
* A limit or configuration of scope `account` matches its value with the account's
  *type*: it never applies to the account it names.
* A limit or configuration may refuse the fee of a confirmation, whose result is
  ignored: the payee keeps the fee.
* A name that was published once keeps its redirection: an installer uploaded later
  under that name is described by the feed and never downloaded
  (`Redirected` in `FeedDescribesDownload`). And a publication writes
  `latest.yml`, the Windows feed, also when it publishes a `.dmg`. A redirection whose write
  was cut short is still followed, to an empty address perhaps: `FeedLeadsSomewhere`
  says that there is something, not that it is whole.
* A comment of `getLeaderboardPage` calls the rank the "position in full sorted list";
  with a filter it is the position among the matching rows. Two agents with equal scores
  that reported in the same millisecond are in no order: each page is a query of its own and
  may show one of them twice and the other never.
* `initCA` takes two files that exist for a CA: if OpenSSL died while it wrote one
  of them, every later start fails until somebody removes the files.
* The scheduler's switch and schedule are in memory: after a restart it is off, and its schedule is
  that of the environment. A round that fails is not repeated that day. A schedule moved to a later slot
  of a day that had its round is skipped that day. So is, with nobody touching the schedule,
  the slot that the beginning of summer time brings forward into the UTC date of the last round:
  in London, scheduled at 00:30, the rounds of the Sunday on which the clocks go forward
  and of the Monday after it are at 00:30 and 23:30 UTC of that Sunday, and the second is
  not made.
* The route of the schedule takes fractions and `index.ts` does not check what `parseInt`
  makes of the environment: the scheduler is then enabled and never runs.
* A report that names a workspace twice is answered 400 after the client's row was
  written; its list is rolled back and its commands stay for the next report.

## Proofs

Every safety invariant and every action property that a passing run checks is also proved,
for all values of the constants, from the named assumptions of the modules (`...Assumption`)
and nothing else; `ConservationCorrect` alone has a premise of its own, that there are
finitely many users.

| Module | Theorem | Statement |
|---|---|---|
| `LedgerProofs` | `TypeCorrect` | `Spec => []TypeOK` |
| | `BalancesCorrect`, hence `DoubleEntryCorrect`, `NoOverdraftCorrect` | `Spec => []BalanceInv`, `[]DoubleEntry`, `[]NoOverdraft` |
| | `ConservationCorrect` | `IsFiniteSet(User) => (Spec => []Conservation)` |
| | `RefinementCorrect` | `Spec => RefinesBooks` |
| | `FrozenCorrect` | `Spec => FrozenKeepsFunds` |
| | `RepliesCorrect`, `FeeCorrect` | `Spec => []ReplyMatchesBooks`, `[]FeeCovered` |
| | `HealthCorrect`, `ClosingCorrect` | `Spec => []ClosedMeansHealthy`, `Spec => ClosesAfterStreak` |
| `PolicyProofs` | `PolicyImplementsLedger` | `PolicySpec => Spec` |
| | `PolicyBreakerCorrect` | the two properties of the breaker, under the policy |
| | `PolicyTypeCorrect`, `LimitCorrect` | `PolicySpec => []PolicyTypeOK`, `[]LimitHolds` |
| `TasksProofs` | `TasksTypeCorrect`, `OwnerCorrect`, `SplitCorrect`, `DispatchCorrect` | `Spec => []TypeOK`, `[]WorkHasOwner`, `[]SubtasksSplit`, `[]NoMissedDispatch` |
| | `FinalCorrect`, `DecisionCorrect` | `Spec => FinalStaysFinal`, `RowsFollowDecision` |
| `ConnectionsProofs` | `ConnectionsCorrect` | `ConnectionsSpec => []ConnectionsInv` |
| `HubProofs` | `HubImplementsConnections` | `Spec => ConnectionsSpec` |
| | `HubTypeCorrect`, `IndexCorrect`, `FeedsCorrect`, `RoomsCorrect`, `OnlineCorrect` | `Spec => []TypeOK`, `[]IndexSound`, `[]FeedsAreAlive`, `[]RoomsInOrder`, `[]OnlineMeansConnected` |
| `MessagingProofs` | `MessagingImplementsConnections` | `Spec => ConnectionsSpec` |
| | `MessagingTypeCorrect`, `MembersCorrect`, `NoGapCorrect` | `Spec => []TypeOK`, `[]MembersReached`, `[]NoGap` |
| `SchedulerProofs` | `SchedulerTypeCorrect`, `OncePerDateCorrect`, `SteadyCorrect` | `SchedulerSpec => []SchedulerTypeOK`, `[]OncePerDate`, `[]SteadyRounds` |
| | `DispatchReachesCorrect` | `SchedulerSpec => DispatchReachesAll` |
| `ServicesProofs` | `LogCorrect`, `PagesCorrect` | `LeaderboardSpec => []LogTellsRow`, `[]PagesPartition` |
| | `FeedLeadsCorrect`, `FeedDescribesCorrect` | `ReleasesSpec => []FeedLeadsSomewhere`, `[]FeedDescribesDownload` |
| | `TlsTypeCorrect`, `PairCorrect`, `FreshCorrect`, `CAStays` | `TlsSpec => []TlsTypeOK`, `[]ServesMatchingPair`, `[]FreshAfterStart`, `[]ClientsKeepTheirCA` |

### Arguments

**Ledger.** `EntryVarsTyped` and
`GuardedCommit` reduce every handler to two cases: either the tables do not
change, or `Committed` happened under its guards (distinct accounts, enough
balance or a system source, both rows active, a fresh event id). Balances are
inductive only together: `NoOverdraft` for the debited account needs the guard,
the refinement needs `DoubleEntry` to read an account's position off its balance.
`FrozenKeepsFunds` needs no invariant beyond types: the guards exclude the
accounts that may not move. `FeeCovered` is not inductive: `FeeAtHand` keeps, between the
two transactions, that the release is still on the payee's account and the breaker
not open, and `OthersUntouched` that administrators reach main accounts only. The arithmetic is
`FeeIsTheSmallerPart`: what was released covers the fee for every amount, by rounding as
the code does. `BreakerInv` adds `ProbesCounted`, which relates the breaker's
counter of successes to `streak`, the commits that really followed one another; without it a
success counted in an earlier half-open period could count again.

**Sums.** `Conservation` needs induction over a finite set. The library's
induction theorems take an operator and are out of the provers' reach, so the
induction is stated with a set in its place: `NatSetInduction` says it of a subset of
Nat, `PickInduction` of a family of subsets of a finite set. `SumExists` and `SumIsFold` connect the
community modules' fold with a function that satisfies its recursion, and `SumOfUpdate` says what
changing one element does to a sum. An entry raises one balance by `n`, and either
lowers another by `n` or raises what the system put into circulation (`CommitConserves`).

**Limits.** `PolicyStepIsLedgerStep` gives the refinement: the policy is a conjunct, so
all that is proved of `Ledger` carries over. `LimitHolds` is inductive with the types, but
its steps compare sums over different queues of rows: `FewerRowsSpendLess` says that fewer
rows, wherever they have moved, count for no more (by `SumOfFewer`: an injection that
keeps the values). An entry that was admitted met its limits (`AdmittedHolds`);
the oldest row leaving, or another one being added, makes no place count more
(`HoldsStill`).

**Tasks.** `TasksInv` strengthens the three invariants by `RowsSound` (rows are of rounds
that were had; those of one automatic round share no subtask, and their agents reported and
claimed what they cover), `Unheard`
(no report before the task exists) and `Countable` (what the code compares by counting is
finite). `OneClaimant` and `AutoGivenFair` say why an automatic dispatch divides: a subtask
goes to the first report that claims it. The action properties
follow from it and the table of transitions, which `Claim` passes by.

**Connections.** The index is sound because of `Entries`: a socket has an entry exactly
when it names a client, so that only one index entry can name it and its close event
deletes that one. `StepOfConnections`, in each of the two modules, shows that every
handler does one operation of `Connections` or none; soundness is then proved once.

**Hub.** `HubInv` adds `Membership` (finitely many members, none before the room exists,
and `InOrder`: the owner among them unless the room is half made, others within the limit) and
`Unregistered`. `OnlineMeansConnected` holds because a close event sets *all* agents of the client
offline, whether or not another connection of it lives; `FeedsAreAlive` because a
subscription is noted on both sides.

**Instant messages.** `NoGap` needs to know what is left to fetch: `Ahead` says that
what a fetching client `Lacks` (does not hold, did not miss while it was not found) lies beyond
its cursor, or shares its timestamp with another message; `TrackedKept` that such a client
uses a connection and is a member, or is listed and will be one as soon as the index finds it
again; `UsesLive` that what a client uses is an open connection of its own; and
`LostAreOpen`. Between them a message sent meanwhile is received or remembered in `missed`.
The lemmas on minima and maxima say where a page ends.

**Scheduler.** `RoundsNoted` relates the rounds to `lastRunDate`, and `SchedulerAssumption` gives
that dates grow with the slots (`DatesGrow`): no date has two rounds. The local time has no
part in this. `RoundsSteady` adds that the
noted date is that of a round and that rounds since the schedule stands ran in its slot; `DateIsFree` is the crux: the round of
the noted date ran in today's local slot, and so a day or more ago (`SameSlot`), or before
the schedule had stood a day; either way its UTC date is another one (`NextDate`).

**Leaderboard.** An order of the query is a bijection from an interval, and an interval cut
into pages has each place on one page (`OnePage`, `PageOfPlace`) and its pages full
(`PageFills`). An agent tied with no other comes before or after each of them whatever the
order (`UntiedOrdered`), and the number of those before it is its place (`PlaceCounts`), so
its rank is the same in all of them. `OrderInv` is what of the types this needs.

**Updates.** `ReleasesInv`: files have contents of their kind, a feed's own fields say which
request wrote it (`FeedsFollow`), and what it describes is still where that request put
it unless a later one died there (`FeedsBacked`).

**Certificates.** `ServesMatchingPair` is not inductive: that the files match, or that their mismatch
will be noticed, has to be carried over the starts that died. The invariant `TlsInv` has
five parts: `TlsTypeOK`; `CAFiles`, a CA certificate that can be read is for the key next
to it; `ServerFiles`, a readable server certificate was issued by the CA, and if it may
be reused it belongs to the key next to it (a mismatch left by a start that died comes
with a certificate too near its end, which it stays, since days only go by); `Loaded`, the
served pair matches and was fresh at the start; `Holders`, what clients hold was recorded
and issued by the CA. `TlsAssumption` and `TlsNoCert` are used.

### What is only model-checked

* `EvaluationEnds` and `GoneMeansOffline`: liveness under fairness is out of the prover's reach.
* The properties of the violation runs, which do not hold.
* That the models have the behaviours they should: the theorems say what no behaviour does, the
  runs and the mutants of `PROJECT.json` show that the interesting ones are there.

Worth proving next: what the two liveness properties rest on and is itself safety (a task that
waits has a pending timer or a silent agent, as long as no process died; an agent of a client that is
gone is stale or will be); an abstract specification of the life of a task, with
`Tasks` implementing it; what the service modules promise together.

## Not modelled

* **`Hub` with `Tasks`.** The dashboard dissolves rooms without regard to their tasks, but
  `deactivateRoom` clears a flag that neither the task engine nor its timers read, so the
  composition has no behaviour that `Tasks` lacks. Departures of agents are in `Tasks` already.
* **Reports, broadcasts, feedback, analytics.** One statement on one table each, and no
  two of them interact: a property of such a model would restate the statement. The part
  of a report that another component reads is in `SkillScheduler`.
* **Status of a certificate after its issue** and the CA's own end after ten years: `Hub` takes
  a verified certificate as an input.
* **Logs that only the dashboard reads**: dispatches, downloads, audit and control records.
* **Ciphers**, pure functions over bytes; **OpenSSL**, of which `Tls` has the files it
  writes; the rest of `index.ts`, which is wiring; and the dashboard, a client that
  displays what the routes answer.
