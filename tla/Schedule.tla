------------------------------ MODULE Schedule ------------------------------
(***************************************************************************)
(* A recurring payment schedule: routes/schedules.ts keeps it, the hourly  *)
(* job runDueSchedules of scheduler.ts pays it as one batch, and           *)
(* lib/scheduling.ts says when it is due next.  Every instance of the      *)
(* service ticks; the job's cluster-wide lock lets one of them work.       *)
(*                                                                         *)
(* Time is counted in hours of the server's clock (the containers run in   *)
(* UTC) from a Sunday's midnight; a zone is its distance from it. A tick's *)
(* work is done within its hour.                                           *)
(***************************************************************************)
EXTENDS Integers, FiniteSets, FiniteSetsExt, Bags

CONSTANTS
  Instances,    \* the instances of the payment service
  Zones,        \* timezones, as hours ahead of the server's clock
  Rules,        \* what a schedule may ask for: [frequency, day]
  MonthStarts,  \* the days on which a month begins
  Late,         \* whether an hour may pass without its tick (nothing was up)
  FaultsUntil,  \* the hour from which instances neither crash nor lose a query
  CreateUntil,  \* bound: the schedule is created before this hour
  Horizon       \* bound: the hour at which time stops

DayHours == 24
RunHour  == 9
First    == 2 * DayHours

DayOf(hour) == hour \div DayHours

ASSUME ScheduleAssumption ==
  /\ Zones \subseteq Int /\ MonthStarts \subseteq Int
  /\ Rules \subseteq [frequency : {"weekly", "biweekly"}, day : 0..6]
                \cup [frequency : {"monthly"}, day : 1..28]
  /\ Late \in BOOLEAN
  /\ FaultsUntil \in Nat /\ CreateUntil \in Nat /\ Horizon \in Nat /\ First <= Horizon

\* The calendar: a month has 28 days at least, and one is under way on every day.
ASSUME CalendarAssumption ==
  /\ \A m, n \in MonthStarts : m < n => m + 28 <= n
  /\ \A zone \in Zones, hour \in First..Horizon :
       \E m, n \in MonthStarts :
         /\ m <= DayOf(hour + zone) /\ DayOf(hour + zone) < n
         /\ \A o \in MonthStarts : o <= m \/ n <= o

VARIABLES
  now,       \* the hour
  schedule,  \* payment_schedules with its items
  ticked,    \* the instances whose cron job has fired this hour
  job,       \* what runDueSchedules is doing on each instance
  paid       \* the runs for which a batch moved money, once for every such batch

scheduleVars == <<now, schedule, ticked, job, paid>>

None == [status |-> "none"]
Gone == [status : {"deleted"}, zone : Zones]
AtRest == [pc |-> "idle"]

RunResults == {"success", "partial", "failed"}

Stored == [status : {"active", "paused"}, zone : Zones, rule : Rules, items : BOOLEAN,
           next : Int]

ScheduleTypeOK ==
  /\ now \in First..Horizon
  /\ schedule \in {None} \cup Gone \cup Stored
  /\ ticked \subseteq Instances
  /\ job \in [Instances -> {AtRest} \cup [pc : {"items", "post"}, due : Int]
                 \cup [pc : {"advance"}, due : Int, result : RunResults]]
  /\ IsABag(paid) /\ BagToSet(paid) \subseteq Int

ScheduleInit ==
  /\ now = First
  /\ schedule = None
  /\ ticked = {}
  /\ job = [i \in Instances |-> AtRest]
  /\ paid = EmptyBag

Exists == schedule.status \in {"active", "paused"}

-----------------------------------------------------------------------------
(* nextRunDate. *)

\* Faulty: two weeks are one when the run falls on its own weekday.
DaysUntilShort(rule, today) ==
  LET ahead == (rule.day - today) % 7
      days  == IF ahead = 0 THEN 7 ELSE ahead
  IN  IF rule.frequency = "biweekly" /\ days < 7 THEN days + 7 ELSE days

DaysUntil(rule, today) ==
  LET ahead == (rule.day - today) % 7
      days  == IF ahead = 0 THEN 7 ELSE ahead
  IN  IF rule.frequency = "biweekly" THEN days + 7 ELSE days

DayOfMonth(rule, today) ==
  LET thisMonth == Max({m \in MonthStarts : m <= today})
      nextMonth == Min({m \in MonthStarts : m > today})
  IN  IF thisMonth + rule.day - 1 > today
      THEN thisMonth + rule.day - 1 ELSE nextMonth + rule.day - 1

\* The day is found on the enterprise's calendar; the hour is set on a Date, and
\* so is an hour of the server's clock.
NextRun(rule, zone, hour) ==
  LET today == DayOf(hour + zone)
      day   == IF rule.frequency = "monthly" THEN DayOfMonth(rule, today)
               ELSE today + DaysUntil(rule, today)
  IN  day * DayHours + RunHour

-----------------------------------------------------------------------------
(* routes/schedules.ts. *)

\* Two INSERTs: when the second fails the schedule stays, without items.
Create ==
  /\ schedule = None
  /\ now < CreateUntil
  /\ \E zone \in Zones, rule \in Rules, items \in BOOLEAN :
        /\ items \/ now < FaultsUntil
        /\ schedule' = [status |-> "active", zone |-> zone, rule |-> rule, items |-> items,
                        next |-> NextRun(rule, zone, now)]
  /\ UNCHANGED <<now, ticked, job, paid>>

SetStatus(status) ==
  /\ Exists /\ schedule.status # status
  /\ now < Horizon
  /\ schedule' = [schedule EXCEPT !.status = status]
  /\ UNCHANGED <<now, ticked, job, paid>>

Delete ==
  /\ Exists
  /\ schedule' = [status |-> "deleted", zone |-> schedule.zone]
  /\ UNCHANGED <<now, ticked, job, paid>>

-----------------------------------------------------------------------------
(* runDueSchedules, once an hour on every instance. *)

\* Faulty: a run that was not finished in its hour is not due any more.
DueExactly == Exists /\ schedule.status = "active" /\ schedule.next = now

Due == Exists /\ schedule.status = "active" /\ schedule.next <= now

\* UPDATE ... SET last_run_at = NOW() ... RETURNING: next_run_at stays as it is until
\* the run is over. The batch's idempotency key is made of last_run_at, new with
\* every claim, so that no batch is ever taken for an earlier one.
Claim(i) ==
  IF Due
  THEN job' = [job EXCEPT ![i] = [pc |-> "items", due |-> schedule.next]]
  ELSE UNCHANGED job

Fires(i) ==
  /\ i \notin ticked /\ job[i] = AtRest
  /\ ticked' = ticked \cup {i}
  /\ UNCHANGED <<now, schedule, paid>>

\* Faulty: no lock.
TickWithoutLock(i) == Fires(i) /\ Claim(i)

\* An instance that does not get the lock skips the tick.
Tick(i) ==
  /\ Fires(i)
  /\ IF \A j \in Instances : job[j] = AtRest THEN Claim(i) ELSE UNCHANGED job

AdvanceTo(i, result) ==
  job' = [job EXCEPT ![i] = [pc |-> "advance", due |-> job[i].due, result |-> result]]

\* A schedule without items, or whose items were deleted with it, is not paid.
ReadItems(i) ==
  /\ job[i].pc = "items"
  /\ IF Exists /\ schedule.items
     THEN job' = [job EXCEPT ![i].pc = "post"] ELSE AdvanceTo(i, "failed")
  /\ UNCHANGED <<now, schedule, ticked, paid>>

\* Faulty: the batch's status is recorded as it is.
RunStatusRaw(status) == status

\* What is recorded for the batch's status.
RunStatus(status) ==
  IF status = "completed" THEN "success"
  ELSE IF status \in {"partial", "processing"} THEN "partial" ELSE "failed"

Records(i) == paid' = paid (+) SetToBag({job[i].due})

\* POST /payouts/batch answers within two minutes.
BatchAnswered(i) ==
  /\ job[i].pc = "post"
  /\ \E status \in {"completed", "partial", "processing", "failed"}, moved \in BOOLEAN :
        /\ status \in {"completed", "partial"} => moved
        /\ status = "failed" => ~moved
        /\ IF moved THEN Records(i) ELSE UNCHANGED paid
        /\ AdvanceTo(i, RunStatus(status))
  /\ UNCHANGED <<now, schedule, ticked>>

\* It does not (a hundred payments, one after the other): the payments go on, the
\* run counts as failed.
TimedOut(i) ==
  /\ job[i].pc = "post"
  /\ Records(i)
  /\ AdvanceTo(i, "failed")
  /\ UNCHANGED <<now, schedule, ticked>>

\* updateScheduleAfterRun: an error is logged and the job goes on. last_run_status
\* is only shown, and is not kept here.
Advance(i) ==
  /\ job[i].pc = "advance"
  /\ IF Exists
     THEN schedule' = [schedule EXCEPT !.next = NextRun(schedule.rule, schedule.zone, now)]
     ELSE UNCHANGED schedule
  /\ job' = [job EXCEPT ![i] = AtRest]
  /\ UNCHANGED <<now, ticked, paid>>

AdvanceFails(i) ==
  /\ job[i].pc = "advance"
  /\ now < FaultsUntil
  /\ job' = [job EXCEPT ![i] = AtRest]
  /\ UNCHANGED <<now, schedule, ticked, paid>>

\* The process dies, or the query for the items fails, and the lock is free again.
Crash(i) ==
  /\ job[i] # AtRest
  /\ now < FaultsUntil
  /\ job' = [job EXCEPT ![i] = AtRest]
  /\ UNCHANGED <<now, schedule, ticked, paid>>

Hour ==
  /\ now < Horizon
  /\ \A i \in Instances : job[i] = AtRest
  /\ Late \/ ~Due \/ ticked # {}
  /\ now' = now + 1
  /\ ticked' = {}
  /\ UNCHANGED <<schedule, job, paid>>

Work(i) == ReadItems(i) \/ BatchAnswered(i) \/ TimedOut(i) \/ Advance(i)

ScheduleNext ==
  \/ Create \/ Delete \/ Hour
  \/ \E status \in {"active", "paused"} : SetStatus(status)
  \/ \E i \in Instances : Tick(i) \/ Work(i) \/ AdvanceFails(i) \/ Crash(i)

ScheduleSpec == ScheduleInit /\ [][ScheduleNext]_scheduleVars

\* The clock runs and so does the job it starts.
ScheduleFairness ==
  /\ WF_scheduleVars(Hour)
  /\ \A i \in Instances : WF_scheduleVars(Tick(i)) /\ WF_scheduleVars(Work(i))

-----------------------------------------------------------------------------
(* Properties. *)

\* No due run is paid by two batches, whichever instances tick and however late:
\* "a concurrent run (e.g. after a restart) won't pick the same schedule again"
\* (scheduler.ts:36-37), "stable if this exact run is retried" (scheduler.ts:106).
RunPaidOnce == \A due \in BagToSet(paid) : paid[due] = 1

\* Where nine o'clock on the server falls on the enterprise's calendar day, that is
\* from nine hours west of the server to fourteen east of it.  Further west
\* nextRunDate, asked at nine, takes the present hour for the next run.
InStep(zone) == zone + RunHour \in 0..(DayHours - 1)

\* In those zones that much is true of the runs no crash and no failed query can have
\* touched: whichever instances tick, however late, and whatever was left by earlier
\* runs.  (Elsewhere a run is paid again with no fault at all: RunPaidOnce.)
UndisturbedPaidOnce ==
  (schedule # None /\ InStep(schedule.zone)) =>
    \A due \in BagToSet(paid) : due >= FaultsUntil => paid[due] = 1

\* The run at the rule's rhythm after the one due at an hour.
RunAfter(rule, due) ==
  LET day == due \div DayHours
  IN  RunHour + DayHours *
        (IF rule.frequency = "weekly" THEN day + 7
         ELSE IF rule.frequency = "biweekly" THEN day + 14
         ELSE rule.day - 1 + Min({m \in MonthStarts : m > day}))

\* A run done on its day or a little later does not move the rhythm of a schedule in
\* one of those zones: the run after it is one week, two weeks or one month after the
\* one that was due.
Cadence ==
  [][\A i \in Instances :
       (/\ Exists /\ InStep(schedule.zone)
        /\ Advance(i) /\ now - schedule.next \in 0..(6 * DayHours)) =>
         schedule'.next = RunAfter(schedule.rule, schedule.next)]_scheduleVars

\* A due run is not forgotten because the process that claimed it has died: some
\* later tick finishes it ("the next hourly tick sees it still due",
\* scheduler.ts:107-108).
DueIsRun ==
  LET waiting == schedule.status = "active" /\ schedule.next <= now
  IN  waiting ~> ~waiting

=============================================================================
