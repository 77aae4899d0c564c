-------------------------- MODULE SchedulerProofs --------------------------
(***************************************************************************)
(* Proofs about SkillScheduler, for every number of clients and workspaces *)
(* and every length of the day: the guard on lastRunDate is enough, and it *)
(* is not too much.                                                        *)
(***************************************************************************)
EXTENDS SkillScheduler, TLAPS

\* Dates are natural numbers and grow with time.
LEMMA DatesGrow ==
  ASSUME NEW s \in Nat, NEW t \in Nat, s <= t
  PROVE  UtcDate(s) \in Nat /\ UtcDate(t) \in Nat /\ UtcDate(s) <= UtcDate(t)
  BY SchedulerAssumption DEF UtcDate

\* The inductive invariant: no round lies in the future or on a later date than
\* the one noted last, which is not in the future either.
RoundsNoted ==
    /\ now \in Nat
    /\ rounds \subseteq Nat
    /\ lastRunDate \in Int
    /\ lastRunDate <= UtcDate(now)
    /\ \A t \in rounds : t <= now /\ UtcDate(t) <= lastRunDate
    /\ OncePerDate

\* A new process knows of no round.
LEMMA RoundsNotedInit == SchedulerInit => RoundsNoted
<1> SUFFICES ASSUME SchedulerInit PROVE RoundsNoted
  OBVIOUS
<1>1. UtcDate(now) \in Nat
  BY DatesGrow DEF SchedulerInit
<1> QED
  BY <1>1 DEF SchedulerInit, RoundsNoted, OncePerDate, NoDate

\* A tick starts a round only on a date without one.
LEMMA TickKeepsRounds ==
  ASSUME RoundsNoted, Tick
  PROVE  RoundsNoted'
<1>1. UtcDate(now) \in Nat
  BY DatesGrow DEF RoundsNoted
<1>2. CASE StartsRound
  <2>1. rounds' = rounds \cup {now} /\ lastRunDate' = UtcDate(now) /\ now' = now
    BY <1>2 DEF Tick, NotedDate
  <2>2. \A t \in rounds : UtcDate(t) # UtcDate(now)
    <3> SUFFICES ASSUME NEW t \in rounds, UtcDate(t) = UtcDate(now) PROVE FALSE
      OBVIOUS
    <3>1. UtcDate(now) <= lastRunDate /\ lastRunDate <= UtcDate(now)
      BY DEF RoundsNoted
    <3> QED
      BY <1>1, <1>2, <3>1 DEF RoundsNoted, StartsRound
  <2>3. \A t \in rounds' : t <= now /\ UtcDate(t) <= UtcDate(now)
    BY <1>1, <2>1, DatesGrow DEF RoundsNoted
  <2>4. OncePerDate'
    BY <2>1, <2>2 DEF RoundsNoted, OncePerDate, UtcDate
  <2> QED
    BY <1>1, <2>1, <2>3, <2>4 DEF RoundsNoted, UtcDate
<1>3. CASE ~StartsRound
  BY <1>3 DEF Tick, NotedDate, RoundsNoted, OncePerDate, UtcDate
<1> QED
  BY <1>2, <1>3

\* No other step of the program starts a round.
LEMMA RoundsNotedNext == RoundsNoted /\ [SchedulerNext]_schedulerVars => RoundsNoted'
<1> SUFFICES ASSUME RoundsNoted, [SchedulerNext]_schedulerVars PROVE RoundsNoted'
  OBVIOUS
<1>1. ASSUME UNCHANGED <<now, lastRunDate, rounds>> PROVE RoundsNoted'
  BY <1>1 DEF RoundsNoted, OncePerDate, UtcDate
<1>2. CASE Tick
  BY <1>2, TickKeepsRounds
<1>3. CASE TriggerNow
  BY <1>1, <1>3 DEF TriggerNow, timetable
<1>4. CASE \E v \in BOOLEAN : SetEnabled(v)
  BY <1>1, <1>4 DEF SetEnabled
<1>5. CASE \E s \in ScheduleChoice : SetSchedule(s)
  BY <1>1, <1>5 DEF SetSchedule
<1>6. CASE \E c \in Client : Report(c) \/ ReportFails(c)
  BY <1>1, <1>6 DEF Report, ReportFails, timetable
<1>7. CASE Advance
  <2>1. now' = now + 1 /\ UNCHANGED <<lastRunDate, rounds>>
    BY <1>7 DEF Advance
  <2>2. UtcDate(now) \in Nat /\ UtcDate(now') \in Nat /\ UtcDate(now) <= UtcDate(now')
    BY <2>1, DatesGrow DEF RoundsNoted
  <2> QED
    BY <2>1, <2>2 DEF RoundsNoted, OncePerDate, UtcDate
<1>8. CASE SchedulerRestart
  <2>1. UtcDate(now) \in Nat
    BY DatesGrow DEF RoundsNoted
  <2> QED
    BY <1>8, <2>1 DEF SchedulerRestart, RoundsNoted, OncePerDate, NoDate, UtcDate
<1>9. CASE ShiftClock
  BY <1>1, <1>9 DEF ShiftClock
<1>10. CASE UNCHANGED schedulerVars
  BY <1>1, <1>10 DEF schedulerVars, timetable
<1> QED
  BY <1>2, <1>3, <1>4, <1>5, <1>6, <1>7, <1>8, <1>9, <1>10 DEF SchedulerNext

\* Between two starts of the process no UTC date sees two scheduled rounds.
THEOREM OncePerDateCorrect == SchedulerSpec => []OncePerDate
<1>1. RoundsNoted => OncePerDate
  BY DEF RoundsNoted
<1> QED
  BY <1>1, RoundsNotedInit, RoundsNotedNext, PTL DEF SchedulerSpec
-----------------------------------------------------------------------------
(* Types, and what a dispatch reaches *)

\* A dispatch queues workspaces.
LEMMA DispatchTyped ==
  ASSUME SchedulerTypeOK, Dispatch
  PROVE  pending' \in [Client -> SUBSET Workspace]
  BY DEF SchedulerTypeOK, Dispatch, ActiveWorkspaces

\* Every step keeps the types.
LEMMA SchedulerTypeNext ==
  SchedulerTypeOK /\ [SchedulerNext]_schedulerVars => SchedulerTypeOK'
<1> SUFFICES ASSUME SchedulerTypeOK, [SchedulerNext]_schedulerVars PROVE SchedulerTypeOK'
  OBVIOUS
<1> USE SchedulerAssumption
<1>1. CASE Tick
  <2>1. UNCHANGED <<now, offset, enabled, schedule, steadySince, age, workspaces>> /\ due' = FALSE
    BY <1>1 DEF Tick, clientTables
  <2>2. UtcDate(now) \in 0..UtcDate(MaxTime)
    BY DatesGrow DEF SchedulerTypeOK
  <2>3. lastRunDate' \in {NoDate} \cup 0..UtcDate(MaxTime)
    BY <1>1, <2>2 DEF Tick, NotedDate, SchedulerTypeOK
  <2>4. rounds' \subseteq 0..MaxTime
    BY <1>1 DEF Tick, SchedulerTypeOK
  <2>5. pending' \in [Client -> SUBSET Workspace]
    BY <1>1, DispatchTyped DEF Tick, SchedulerTypeOK
  <2> QED
    BY <2>1, <2>3, <2>4, <2>5 DEF SchedulerTypeOK
<1>2. CASE TriggerNow
  BY <1>2, DispatchTyped DEF TriggerNow, clientTables, timetable, SchedulerTypeOK
<1>3. ASSUME NEW v \in BOOLEAN, SetEnabled(v) PROVE SchedulerTypeOK'
  BY <1>3 DEF SetEnabled, clientTables, SchedulerTypeOK
<1>4. ASSUME NEW s \in ScheduleChoice, SetSchedule(s) PROVE SchedulerTypeOK'
  BY <1>4 DEF SetSchedule, ValidSchedule, clientTables, SchedulerTypeOK
<1>5. ASSUME NEW c \in Client, Report(c) PROVE SchedulerTypeOK'
  BY <1>5 DEF Report, timetable, SchedulerTypeOK
<1>6. ASSUME NEW c \in Client, ReportFails(c) PROVE SchedulerTypeOK'
  BY <1>6 DEF ReportFails, timetable, SchedulerTypeOK
<1>7. CASE Advance
  BY <1>7 DEF Advance, SchedulerTypeOK
<1>8. CASE SchedulerRestart
  BY <1>8 DEF SchedulerRestart, clientTables, SchedulerTypeOK
<1>9. CASE ShiftClock
  BY <1>9 DEF ShiftClock, clientTables, SchedulerTypeOK
<1>10. CASE UNCHANGED schedulerVars
  BY <1>10 DEF schedulerVars, timetable, clientTables, SchedulerTypeOK
<1> QED
  BY <1>1, <1>2, <1>3, <1>4, <1>5, <1>6, <1>7, <1>8, <1>9, <1>10 DEF SchedulerNext

\* The scheduler's tables are well typed; the schedule need not be a slot of the
\* day, whatever the environment holds and an administrator enters.
THEOREM SchedulerTypeCorrect == SchedulerSpec => []SchedulerTypeOK
<1>1. SchedulerInit => SchedulerTypeOK
  <2>1. UtcDate(MaxTime) \in Nat
    BY SchedulerAssumption, DatesGrow
  <2> SUFFICES ASSUME SchedulerInit PROVE SchedulerTypeOK
    OBVIOUS
  <2>2. now \in 0..MaxTime /\ rounds \subseteq 0..MaxTime /\ steadySince \in 0..MaxTime
    BY SchedulerAssumption DEF SchedulerInit
  <2>3. /\ age \in [Client -> 0..Recent + 1]
        /\ workspaces \in [Client -> SUBSET Workspace]
        /\ pending \in [Client -> SUBSET Workspace]
    BY SchedulerAssumption DEF SchedulerInit
  <2>4. due \in BOOLEAN /\ enabled \in BOOLEAN /\ offset \in OffsetChoice
    BY DEF SchedulerInit
  <2>5. schedule \in EnvSchedule /\ lastRunDate \in {NoDate} \cup 0..UtcDate(MaxTime)
    BY DEF SchedulerInit
  <2> QED
    BY <2>2, <2>3, <2>4, <2>5 DEF SchedulerTypeOK
<1> QED
  BY <1>1, SchedulerTypeNext, PTL DEF SchedulerSpec

\* The client that is selected for a workspace gets it queued.
LEMMA DispatchReaches ==
  ASSUME Dispatch, NEW w \in ActiveWorkspaces
  PROVE  \E c \in ActiveClients(w) : w \in pending'[c]
<1>1. PICK selected \in [ActiveWorkspaces -> Client] :
          /\ \A v \in ActiveWorkspaces : Selectable(v, selected[v])
          /\ pending' = [c \in Client |->
                            pending[c] \cup {v \in ActiveWorkspaces : selected[v] = c}]
  BY DEF Dispatch
<1>2. selected[w] \in ActiveClients(w)
  BY <1>1 DEF Selectable
<1>3. w \in pending'[selected[w]]
  BY <1>1
<1> QED
  BY <1>2, <1>3

\* A round or a manual trigger that queues anything leaves no active workspace
\* out.
THEOREM DispatchReachesCorrect == SchedulerSpec => DispatchReachesAll
<1>1. ASSUME pending' # pending, Tick \/ TriggerNow
      PROVE  \A w \in ActiveWorkspaces : \E c \in ActiveClients(w) : w \in pending'[c]
  <2>1. Dispatch
    BY <1>1 DEF Tick, TriggerNow
  <2> QED
    BY <2>1, DispatchReaches
<1> QED
  BY <1>1, PTL DEF SchedulerSpec, DispatchReachesAll
-----------------------------------------------------------------------------
(* No scheduled slot passes without a round *)

\* Two times of one slot lie a day apart, as long as the local time is not moved.
LEMMA SameSlot ==
  ASSUME offset \in Nat, NEW s \in Nat, NEW t \in Nat, s < t, LocalSlot(s) = LocalSlot(t)
  PROVE  s + SlotsPerDay <= t
<1> DEFINE D == SlotsPerDay
           a == s + offset
           b == t + offset
           p == a \div D
           q == b \div D
<1>1. D \in Nat /\ D > 0 /\ a \in Nat /\ b \in Nat /\ a < b /\ b - a = t - s
  BY SchedulerAssumption
<1>2. a % D = b % D
  BY DEF LocalSlot
<1> HIDE DEF D, a, b
<1>3. p \in Int /\ q \in Int /\ a = D * p + (a % D) /\ b = D * q + (b % D)
  BY <1>1
<1> HIDE DEF p, q
<1>4. b - a = D * (q - p)
  <2>1. b - a = D * q - D * p
    BY <1>1, <1>2, <1>3
  <2>2. D * (q - p) = D * q - D * p
    BY <1>1, <1>3
  <2> QED
    BY <2>1, <2>2
<1>5. q - p >= 1
  BY <1>1, <1>3, <1>4
<1>6. D * (q - p) >= D
  BY <1>1, <1>3, <1>5
<1>7. b - a >= D
  BY <1>4, <1>6
<1> QED
  BY <1>1, <1>7 DEF D

\* ... and times a day apart have different dates.
LEMMA NextDate ==
  ASSUME NEW s \in Nat, NEW t \in Nat, s + SlotsPerDay <= t
  PROVE  UtcDate(s) # UtcDate(t)
<1> DEFINE D == SlotsPerDay
           p == s \div D
           q == t \div D
<1>1. D \in Nat /\ D > 0 /\ s + D <= t
  BY SchedulerAssumption
<1> HIDE DEF D
<1>2. /\ p \in Int /\ s % D \in 0..D - 1 /\ s = D * p + (s % D)
      /\ q \in Int /\ t % D \in 0..D - 1 /\ t = D * q + (t % D)
  BY <1>1
<1> HIDE DEF p, q
<1>3. ASSUME p = q PROVE FALSE
  <2>1. t - s = (t % D) - (s % D)
    BY <1>1, <1>2, <1>3
  <2> QED
    BY <1>1, <1>2, <2>1
<1> QED
  BY <1>3 DEF UtcDate, p, q, D

\* The slots whose tick has come.
Ticked(t) == t < now \/ (t = now /\ ~due)

\* The inductive invariant: the noted date is that of a round; the rounds since
\* the schedule and the local time stand ran in its slot; and a day after either
\* was changed every slot of it that ticked had its round.
RoundsSteady ==
    /\ now \in Nat
    /\ offset \in Nat
    /\ steadySince \in Nat
    /\ steadySince <= now
    /\ rounds \subseteq Nat
    /\ \A r \in rounds : Ticked(r) /\ (r > steadySince => LocalSlot(r) = schedule)
    /\ lastRunDate # NoDate => \E r \in rounds : UtcDate(r) = lastRunDate
    /\ \A t \in Nat :
           /\ steadySince + SlotsPerDay <= t
           /\ Ticked(t)
           /\ enabled
           /\ LocalSlot(t) = schedule
           => t \in rounds

\* The date of the last round does not keep the next one from running, whenever
\* the schedule stood for a day: that round was a day ago, or before that day.
LEMMA DateIsFree ==
  ASSUME RoundsSteady, due, steadySince + SlotsPerDay <= now, LocalSlot(now) = schedule
  PROVE  lastRunDate # UtcDate(now)
<1> SUFFICES ASSUME lastRunDate = UtcDate(now) PROVE FALSE
  OBVIOUS
<1>1. UtcDate(now) \in Nat
  BY DatesGrow DEF RoundsSteady
<1>2. PICK r \in rounds : UtcDate(r) = UtcDate(now)
  BY <1>1 DEF RoundsSteady, NoDate
<1>3. r \in Nat /\ r < now /\ (r > steadySince => LocalSlot(r) = LocalSlot(now))
  BY DEF RoundsSteady, Ticked
<1>4. r + SlotsPerDay <= now
  <2>1. CASE r > steadySince
    BY <1>3, <2>1, SameSlot DEF RoundsSteady
  <2>2. CASE ~(r > steadySince)
    BY <1>3, <2>2, SchedulerAssumption DEF RoundsSteady
  <2> QED
    BY <2>1, <2>2
<1> QED
  BY <1>2, <1>3, <1>4, NextDate DEF RoundsSteady

\* A tick runs the round of its slot.
LEMMA TickSteady ==
  ASSUME RoundsSteady, Tick
  PROVE  RoundsSteady'
<1>1. due /\ ~due' /\ UNCHANGED <<now, offset, enabled, schedule, steadySince>>
  BY DEF Tick
<1>2. rounds' = IF StartsRound THEN rounds \cup {now} ELSE rounds
  BY DEF Tick
<1>3. ASSUME NEW t \in Nat PROVE Ticked(t)' <=> Ticked(t) \/ t = now
  BY <1>1 DEF Ticked
<1>4. rounds' \subseteq Nat
  BY <1>2 DEF RoundsSteady
<1>5. ASSUME NEW r \in rounds'
      PROVE  Ticked(r)' /\ (r > steadySince => LocalSlot(r) = schedule)
  <2>1. CASE r \in rounds
    BY <1>3, <2>1 DEF RoundsSteady
  <2>2. CASE r \notin rounds
    <3>1. StartsRound /\ r = now
      BY <1>2, <1>5, <2>2
    <3> QED
      BY <1>3, <3>1 DEF StartsRound, RoundsSteady
  <2> QED
    BY <2>1, <2>2
<1>6. lastRunDate' # NoDate => \E r \in rounds' : UtcDate(r) = lastRunDate'
  <2>1. CASE StartsRound
    BY <1>2, <2>1 DEF Tick, NotedDate
  <2>2. CASE ~StartsRound
    BY <1>2, <2>2 DEF Tick, NotedDate, RoundsSteady
  <2> QED
    BY <2>1, <2>2
<1>7. ASSUME NEW t \in Nat, steadySince + SlotsPerDay <= t, Ticked(t)', enabled,
             LocalSlot(t) = schedule
      PROVE  t \in rounds'
  <2>1. CASE Ticked(t)
    BY <1>2, <1>7, <2>1 DEF RoundsSteady
  <2>2. CASE t = now
    <3>1. lastRunDate # UtcDate(now)
      BY <1>1, <1>7, <2>2, DateIsFree
    <3> QED
      BY <1>2, <1>7, <2>2, <3>1 DEF StartsRound
  <2> QED
    BY <1>3, <1>7, <2>1, <2>2
<1> QED
  BY <1>1, <1>4, <1>5, <1>6, <1>7 DEF RoundsSteady, LocalSlot, UtcDate

\* After a change of the schedule or the local time nothing is promised for a day.
LEMMA Disturbed ==
  ASSUME RoundsSteady, UNCHANGED <<now, due, lastRunDate, rounds>>, steadySince' = now,
         offset' \in Nat
  PROVE  RoundsSteady'
<1>1. ~\E t \in Nat : steadySince' + SlotsPerDay <= t /\ Ticked(t)'
  BY SchedulerAssumption DEF RoundsSteady, Ticked
<1>2. \A r \in rounds' : Ticked(r)' /\ ~(r > steadySince')
  BY DEF RoundsSteady, Ticked
<1> QED
  BY <1>1, <1>2 DEF RoundsSteady, UtcDate

\* Every step keeps the schedule.
LEMMA RoundsSteadyNext == RoundsSteady /\ [SchedulerNext]_schedulerVars => RoundsSteady'
<1> SUFFICES ASSUME RoundsSteady, [SchedulerNext]_schedulerVars PROVE RoundsSteady'
  OBVIOUS
<1>1. ASSUME UNCHANGED <<now, offset, due, enabled, schedule, lastRunDate, rounds,
                         steadySince>>
      PROVE  RoundsSteady'
  BY <1>1 DEF RoundsSteady, Ticked, LocalSlot, UtcDate
<1>2. CASE Tick
  BY <1>2, TickSteady
<1>3. CASE TriggerNow
  BY <1>1, <1>3 DEF TriggerNow, timetable
<1>4. ASSUME NEW v \in BOOLEAN, SetEnabled(v) PROVE RoundsSteady'
  <2>1. CASE v = enabled
    BY <1>1, <1>4, <2>1 DEF SetEnabled
  <2>2. CASE v # enabled
    BY <1>4, <2>2, Disturbed DEF SetEnabled, RoundsSteady
  <2> QED
    BY <2>1, <2>2
<1>5. ASSUME NEW s \in ScheduleChoice, SetSchedule(s) PROVE RoundsSteady'
  <2>1. CASE s = schedule
    BY <1>1, <1>5, <2>1 DEF SetSchedule
  <2>2. CASE s # schedule
    BY <1>5, <2>2, Disturbed DEF SetSchedule, RoundsSteady
  <2> QED
    BY <2>1, <2>2
<1>6. CASE \E c \in Client : Report(c) \/ ReportFails(c)
  BY <1>1, <1>6 DEF Report, ReportFails, timetable
<1>7. CASE Advance
  <2>1. /\ now' = now + 1 /\ due'
        /\ steadySince' = IF due THEN now + 1 ELSE steadySince
        /\ UNCHANGED <<offset, enabled, schedule, lastRunDate, rounds>>
    BY <1>7 DEF Advance
  <2>2. ASSUME NEW t \in Nat PROVE Ticked(t)' <=> t <= now
    BY <2>1 DEF Ticked, RoundsSteady
  <2>3. now' \in Nat /\ steadySince' \in Nat /\ steadySince' <= now'
    BY <2>1 DEF RoundsSteady
  <2>4. \A r \in rounds : r <= now /\ r \in Nat
    BY DEF RoundsSteady, Ticked
  <2>5. CASE due
    <3>1. ~\E t \in Nat : steadySince' + SlotsPerDay <= t /\ Ticked(t)'
      BY <2>1, <2>2, <2>5, SchedulerAssumption DEF RoundsSteady
    <3>2. \A r \in rounds' : Ticked(r)' /\ ~(r > steadySince')
      BY <2>1, <2>2, <2>4, <2>5 DEF RoundsSteady
    <3> QED
      BY <2>1, <2>3, <3>1, <3>2 DEF RoundsSteady, UtcDate
  <2>6. CASE ~due
    <3>1. \A t \in Nat : Ticked(t)' <=> Ticked(t)
      BY <2>2, <2>6 DEF Ticked, RoundsSteady
    <3> QED
      BY <2>1, <2>3, <2>6, <3>1 DEF RoundsSteady, LocalSlot, UtcDate
  <2> QED
    BY <2>5, <2>6
<1>8. CASE SchedulerRestart
  <2>1. /\ now' = now /\ ~due' /\ rounds' = {} /\ steadySince' = now
        /\ lastRunDate' = NoDate /\ offset' = offset
    BY <1>8 DEF SchedulerRestart
  <2>2. ~\E t \in Nat : steadySince' + SlotsPerDay <= t /\ Ticked(t)'
    BY <2>1, SchedulerAssumption DEF Ticked, RoundsSteady
  <2> QED
    BY <2>1, <2>2 DEF RoundsSteady
<1>9. CASE ShiftClock
  <2>1. UNCHANGED <<now, due, lastRunDate, rounds>> /\ steadySince' = now /\ offset' \in Nat
    BY <1>9, SchedulerAssumption DEF ShiftClock
  <2> QED
    BY <2>1, Disturbed
<1>10. CASE UNCHANGED schedulerVars
  BY <1>1, <1>10 DEF schedulerVars, timetable
<1> QED
  BY <1>2, <1>3, <1>4, <1>5, <1>6, <1>7, <1>8, <1>9, <1>10 DEF SchedulerNext

\* Once the schedule and the local time have stood undisturbed for a day, no
\* scheduled slot passes without a round, in any time zone.
THEOREM SteadyCorrect == SchedulerSpec => []SteadyRounds
<1>1. SchedulerInit => RoundsSteady
  <2> SUFFICES ASSUME SchedulerInit PROVE RoundsSteady
    OBVIOUS
  <2>1. ~\E t \in Nat : steadySince + SlotsPerDay <= t /\ Ticked(t)
    BY SchedulerAssumption DEF SchedulerInit, Ticked
  <2> QED
    BY <2>1, SchedulerAssumption DEF SchedulerInit, RoundsSteady
<1>2. RoundsSteady => SteadyRounds
  <2> SUFFICES ASSUME RoundsSteady, NEW t \in steadySince + SlotsPerDay .. now - 1,
                      enabled, LocalSlot(t) = schedule
               PROVE  t \in rounds
    BY DEF SteadyRounds
  <2>1. t \in Nat /\ steadySince + SlotsPerDay <= t /\ t < now
    BY SchedulerAssumption DEF RoundsSteady
  <2>2. Ticked(t)
    BY <2>1 DEF Ticked
  <2> QED
    BY <2>1, <2>2 DEF RoundsSteady
<1> QED
  BY <1>1, <1>2, RoundsSteadyNext, PTL DEF SchedulerSpec
=============================================================================
