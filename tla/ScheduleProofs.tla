--------------------------- MODULE ScheduleProofs ---------------------------
(***************************************************************************)
(* Proofs about Schedule, for any number of instances and every set of     *)
(* rules: the next run is later than the hour it is computed in, at its    *)
(* rhythm, and no run that no fault has touched is paid twice.             *)
(*                                                                         *)
(* nextRunDate finds the day on the enterprise's calendar and the hour on  *)
(* the server's.  The rhythm and the single payment hold of a schedule in  *)
(* whose zone the two agree (InStep), whatever other zones there are, and  *)
(* types are kept in every zone.                                           *)
(***************************************************************************)
EXTENDS Schedule, FiniteSetTheorems, TLAPS

-----------------------------------------------------------------------------
(* The calendar. *)

\* A run's place in its rhythm: nine o'clock, on the rule's weekday or on the
\* rule's day of some month.
Fits(rule, next) ==
  \E day \in Int :
    /\ next = day * DayHours + RunHour
    /\ IF rule.frequency = "monthly" THEN day - rule.day + 1 \in MonthStarts
       ELSE \E weeks \in Int : day = rule.day + 7 * weeks

\* An hour lies in its day.
LEMMA HourInDay ==
  ASSUME NEW hour \in Int
  PROVE  /\ DayOf(hour) \in Int
         /\ DayOf(hour) * 24 <= hour /\ hour < DayOf(hour) * 24 + 24
  BY DEF DayOf, DayHours

\* The hours of a day have it as their day.
LEMMA DayOfHour ==
  ASSUME NEW day \in Int, NEW hour \in Int, day * 24 <= hour, hour < day * 24 + 24
  PROVE  DayOf(hour) = day
<1>1. /\ DayOf(hour) \in Int
      /\ DayOf(hour) * 24 <= hour /\ hour < DayOf(hour) * 24 + 24
  BY HourInDay
<1> QED
  BY <1>1

\* Division by seven.
LEMMA Mod7 ==
  ASSUME NEW d \in Int
  PROVE  d % 7 \in 0..6 /\ d \div 7 \in Int /\ d = 7 * (d \div 7) + (d % 7)
<1> DEFINE q == d \div 7
<1>1. q \in Int /\ 7 * q <= d /\ d <= 7 * q + 6
  OBVIOUS
<1> HIDE DEF q
<1>2. PICK r \in 0..6 : d = 7 * q + r
  <2>1. d - 7 * q \in 0..6 /\ d = 7 * q + (d - 7 * q)
    BY <1>1
  <2> QED
    BY <2>1
<1>3. d % 7 = r
  BY <1>1, <1>2
<1> QED
  BY <1>1, <1>2, <1>3, Zenon DEF q

\* The next such weekday is one to seven days ahead.
LEMMA WeekdayAhead ==
  ASSUME NEW day \in 0..6, NEW today \in Int
  PROVE  /\ (day - today) % 7 \in 0..6
         /\ \E weeks \in Int : today + ((day - today) % 7) = day + 7 * weeks
<1> DEFINE d == day - today
           q == d \div 7
           r == d % 7
<1>1. d \in Int /\ d = day - today
  OBVIOUS
<1> HIDE DEF d
<1>2. r \in 0..6 /\ q \in Int /\ d = 7 * q + r
  BY <1>1, Mod7
<1> HIDE DEF q, r
<1>3. today + r = day + 7 * (-q) /\ -q \in Int
  BY <1>1, <1>2
<1> QED
  BY <1>2, <1>3 DEF d, r

\* What a schedule may ask for.
LEMMA RuleType ==
  ASSUME NEW rule \in Rules
  PROVE  \/ rule.frequency \in {"weekly", "biweekly"} /\ rule.day \in 0..6
         \/ rule.frequency = "monthly" /\ rule.day \in 1..28
  BY ScheduleAssumption DEF ScheduleAssumption

\* The day of a weekly or biweekly run.
LEMMA DaysUntilFits ==
  ASSUME NEW rule \in Rules, rule.frequency # "monthly", NEW today \in Int
  PROVE  /\ DaysUntil(rule, today) \in 1..14
         /\ \E weeks \in Int : today + DaysUntil(rule, today) = rule.day + 7 * weeks
<1> DEFINE ahead == (rule.day - today) % 7
           days  == IF ahead = 0 THEN 7 ELSE ahead
<1>1. rule.day \in 0..6
  BY RuleType
<1>2. PICK w \in Int : today + ahead = rule.day + 7 * w
  <2>1. \E w \in Int : today + ((rule.day - today) % 7) = rule.day + 7 * w
    BY <1>1, WeekdayAhead
  <2> QED
    BY <2>1, Zenon
<1>3. ahead \in 0..6
  BY <1>1, WeekdayAhead
<1>4. DaysUntil(rule, today) = IF rule.frequency = "biweekly" THEN days + 7 ELSE days
  BY DEF DaysUntil
<1> HIDE DEF ahead
<1>5. \E v \in Int : today + days = rule.day + 7 * v
  <2>1. CASE ahead = 0
    <3>1. today + days = rule.day + 7 * (w + 1) /\ w + 1 \in Int
      BY <1>1, <1>2, <1>3, <2>1
    <3> QED
      BY <3>1
  <2>2. CASE ahead # 0
    BY <1>2, <2>2
  <2> QED
    BY <2>1, <2>2
<1>6. days \in 1..7
  BY <1>3
<1>7. PICK v \in Int : today + days = rule.day + 7 * v
  BY <1>5
<1> HIDE DEF days
<1>8. today + (days + 7) = rule.day + 7 * (v + 1) /\ v + 1 \in Int
  BY <1>1, <1>6, <1>7
<1>9. CASE rule.frequency = "biweekly"
  <2>1. DaysUntil(rule, today) = days + 7 /\ days + 7 \in 1..14
    BY <1>4, <1>6, <1>9
  <2> QED
    BY <1>8, <2>1, Zenon
<1>10. CASE rule.frequency # "biweekly"
  BY <1>4, <1>6, <1>7, <1>10
<1> QED
  BY <1>9, <1>10

\* The month under way on a day, and the next one.
Around(today, m, n) ==
  /\ m <= today /\ today < n
  /\ \A o \in MonthStarts : o <= m \/ n <= o
  /\ Max({o \in MonthStarts : o <= today}) = m
  /\ Min({o \in MonthStarts : o > today}) = n

\* The months around a day: Max and Min find the one under way and the next one.
LEMMA MonthUnderWay ==
  ASSUME NEW zone \in Zones, NEW hour \in First..Horizon, NEW today, today = DayOf(hour + zone)
  PROVE  \E m, n \in MonthStarts : Around(today, m, n)
<1>1. PICK m \in MonthStarts, n \in MonthStarts :
        /\ m <= today /\ today < n
        /\ \A o \in MonthStarts : o <= m \/ n <= o
  BY CalendarAssumption DEF CalendarAssumption
<1>2. MonthStarts \subseteq Int /\ today \in Int
  <2>1. hour + zone \in Int
    BY ScheduleAssumption DEF ScheduleAssumption, First, DayHours
  <2> QED
    BY <2>1, HourInDay, ScheduleAssumption DEF ScheduleAssumption
<1>3. Max({o \in MonthStarts : o <= today}) = m
  <2> DEFINE S == {o \in MonthStarts : o <= today}
  <2>1. m \in S /\ \A y \in S : m >= y
    BY <1>1, <1>2
  <2>2. \A x \in S : (\A y \in S : x >= y) => x = m
    BY <1>2, <2>1
  <2> HIDE DEF S
  <2>3. Max(S) \in S /\ \A y \in S : Max(S) >= y
    BY <2>1 DEF Max
  <2> QED
    BY <2>2, <2>3 DEF S
<1>4. Min({o \in MonthStarts : o > today}) = n
  <2> DEFINE S == {o \in MonthStarts : o > today}
  <2>1. n \in S /\ \A y \in S : n <= y
    BY <1>1, <1>2
  <2>2. \A x \in S : (\A y \in S : x <= y) => x = n
    BY <1>2, <2>1
  <2> HIDE DEF S
  <2>3. Min(S) \in S /\ \A y \in S : Min(S) <= y
    BY <2>1 DEF Min
  <2> QED
    BY <2>2, <2>3 DEF S
<1> QED
  BY <1>1, <1>3, <1>4 DEF Around

\* The day of a monthly run is ahead, and the rule's day of its month.
LEMMA DayOfMonthFits ==
  ASSUME NEW rule \in Rules, rule.frequency = "monthly",
         NEW zone \in Zones, NEW hour \in First..Horizon, NEW today, today = DayOf(hour + zone)
  PROVE  /\ today \in Int /\ DayOfMonth(rule, today) \in Int
         /\ DayOfMonth(rule, today) > today
         /\ DayOfMonth(rule, today) - rule.day + 1 \in MonthStarts
<1>1. PICK m \in MonthStarts, n \in MonthStarts :
        /\ m <= today /\ today < n
        /\ Max({o \in MonthStarts : o <= today}) = m
        /\ Min({o \in MonthStarts : o > today}) = n
  BY MonthUnderWay DEF Around
<1>2. rule.day \in 1..28 /\ m \in Int /\ n \in Int
  BY RuleType, ScheduleAssumption DEF ScheduleAssumption
<1>3. today \in Int
  <2>1. hour + zone \in Int
    BY ScheduleAssumption DEF ScheduleAssumption, First, DayHours
  <2> QED
    BY <2>1, HourInDay
<1>4. DayOfMonth(rule, today) = IF m + rule.day - 1 > today THEN m + rule.day - 1
                                ELSE n + rule.day - 1
  BY <1>1, Zenon DEF DayOfMonth
<1>5. CASE m + rule.day - 1 > today
  <2>1. DayOfMonth(rule, today) = m + rule.day - 1
    BY <1>4, <1>5
  <2>2. m + rule.day - 1 - rule.day + 1 = m /\ m + rule.day - 1 \in Int
    BY <1>2
  <2>3. DayOfMonth(rule, today) - rule.day + 1 = m
    BY <1>2, <2>1
  <2> QED
    BY <1>1, <1>3, <1>5, <2>1, <2>2, <2>3, Zenon
<1>6. CASE ~(m + rule.day - 1 > today)
  <2>1. DayOfMonth(rule, today) = n + rule.day - 1
    BY <1>4, <1>6
  <2>2. /\ n + rule.day - 1 - rule.day + 1 = n /\ n + rule.day - 1 \in Int
        /\ n + rule.day - 1 > today
    BY <1>1, <1>2, <1>3
  <2>3. DayOfMonth(rule, today) - rule.day + 1 = n
    BY <1>2, <2>1
  <2> QED
    BY <1>1, <1>3, <2>1, <2>2, <2>3, Zenon
<1> QED
  BY <1>5, <1>6

\* The day that NextRun finds for a rule, from a day of the enterprise's calendar.
RunDay(rule, today) ==
  IF rule.frequency = "monthly" THEN DayOfMonth(rule, today)
  ELSE today + DaysUntil(rule, today)

\* nextRunDate finds a time of the rule's rhythm, on a later day of the
\* enterprise's calendar, and one still to come where the two clocks are in step.
LEMMA NextRunFits ==
  ASSUME NEW rule \in Rules, NEW zone \in Zones, NEW hour \in First..Horizon
  PROVE  /\ NextRun(rule, zone, hour) \in Int
         /\ Fits(rule, NextRun(rule, zone, hour))
         /\ zone >= -9 => NextRun(rule, zone, hour) > hour
<1> DEFINE today == DayOf(hour + zone)
           day   == RunDay(rule, today)
<1>1. zone \in Int /\ hour \in Int
  BY ScheduleAssumption DEF ScheduleAssumption, First, DayHours
<1>2. today \in Int /\ today * 24 <= hour + zone /\ hour + zone < today * 24 + 24
  <2>1. hour + zone \in Int
    BY <1>1
  <2> QED
    BY <2>1, HourInDay
<1>3. NextRun(rule, zone, hour) = day * 24 + 9
  BY DEF NextRun, RunDay, DayHours, RunHour
<1> HIDE DEF today
<1>4. day \in Int /\ day > today
      /\ IF rule.frequency = "monthly" THEN day - rule.day + 1 \in MonthStarts
         ELSE \E weeks \in Int : day = rule.day + 7 * weeks
  <2>1. CASE rule.frequency = "monthly"
    <3>1. day = DayOfMonth(rule, today)
      BY <2>1 DEF RunDay
    <3> QED
      BY <2>1, <3>1, DayOfMonthFits DEF today
  <2>2. CASE rule.frequency # "monthly"
    <3>1. day = today + DaysUntil(rule, today)
      BY <2>2 DEF RunDay
    <3>2. DaysUntil(rule, today) \in 1..14
          /\ \E weeks \in Int : today + DaysUntil(rule, today) = rule.day + 7 * weeks
      BY <1>2, <2>2, DaysUntilFits
    <3> QED
      BY <1>2, <2>2, <3>1, <3>2
  <2> QED
    BY <2>1, <2>2
<1> HIDE DEF day
<1>5. Fits(rule, NextRun(rule, zone, hour))
  BY <1>3, <1>4 DEF Fits, DayHours, RunHour
<1> QED
  BY <1>1, <1>2, <1>3, <1>4, <1>5

\* A weekday's next occurrence, seen from the six days after it.
LEMMA DaysUntilAgain ==
  ASSUME NEW rule \in Rules, rule.frequency # "monthly",
         NEW weeks \in Int, NEW late \in 0..6
  PROVE  rule.day + 7 * weeks + late + DaysUntil(rule, rule.day + 7 * weeks + late) =
           rule.day + 7 * weeks + (IF rule.frequency = "weekly" THEN 7 ELSE 14)
<1> DEFINE today == rule.day + 7 * weeks + late
           ahead == (rule.day - today) % 7
           d     == rule.day - today
<1>1. rule.day \in 0..6 /\ rule.frequency \in {"weekly", "biweekly"}
  BY RuleType
<1>2. ahead = IF late = 0 THEN 0 ELSE 7 - late
  <2>1. d = 7 * (-weeks) + (-late) /\ d = 7 * (-weeks - 1) + (7 - late)
    BY <1>1
  <2>2. d \in Int /\ ahead = d % 7
    BY <1>1
  <2> HIDE DEF d, ahead
  <2>3. CASE late = 0
    BY <2>1, <2>2, <2>3
  <2>4. CASE late # 0
    BY <2>1, <2>2, <2>4
  <2> QED
    BY <2>3, <2>4
<1>3. DaysUntil(rule, today) =
        LET days == IF ahead = 0 THEN 7 ELSE ahead
        IN  IF rule.frequency = "biweekly" THEN days + 7 ELSE days
  BY DEF DaysUntil
<1> HIDE DEF ahead
<1>4. DaysUntil(rule, today) = IF rule.frequency = "biweekly" THEN 14 - late ELSE 7 - late
  BY <1>2, <1>3
<1> HIDE DEF today
<1>5. today + DaysUntil(rule, today) =
        rule.day + 7 * weeks + (IF rule.frequency = "weekly" THEN 7 ELSE 14)
  BY <1>1, <1>4 DEF today
<1> QED
  BY <1>5 DEF today

\* A day of the month again, seen from the six days after it.
LEMMA DayOfMonthAgain ==
  ASSUME NEW rule \in Rules, rule.frequency = "monthly",
         NEW zone \in Zones, NEW hour \in First..Horizon, NEW today, today = DayOf(hour + zone),
         NEW day \in Int, day - rule.day + 1 \in MonthStarts,
         day <= today, today <= day + 6
  PROVE  DayOfMonth(rule, today) = rule.day - 1 + Min({o \in MonthStarts : o > day})
<1> DEFINE start == day - rule.day + 1
<1>0. PICK m \in MonthStarts, n \in MonthStarts : Around(today, m, n)
  BY MonthUnderWay, Zenon
<1>1. /\ m <= today /\ today < n
      /\ \A o \in MonthStarts : o <= m \/ n <= o
      /\ Max({o \in MonthStarts : o <= today}) = m
      /\ Min({o \in MonthStarts : o > today}) = n
  BY <1>0, Zenon DEF Around
<1>2. rule.day \in 1..28 /\ MonthStarts \subseteq Int /\ m \in Int /\ n \in Int
  BY RuleType, ScheduleAssumption DEF ScheduleAssumption
<1>3. today \in Int
  BY DayOfMonthFits
<1>4. \A o, v \in MonthStarts : o < v => o + 28 <= v
  BY CalendarAssumption DEF CalendarAssumption
<1>5. DayOfMonth(rule, today) = IF m + rule.day - 1 > today THEN m + rule.day - 1
                                ELSE n + rule.day - 1
  BY <1>1, Zenon DEF DayOfMonth
<1>6. start \in MonthStarts /\ start \in Int /\ day = start + rule.day - 1
  BY <1>2
<1> HIDE DEF start
<1>7. CASE start = m
  <2>1. {o \in MonthStarts : o > day} = {o \in MonthStarts : o > today}
    <3>1. ASSUME NEW o \in MonthStarts
          PROVE  o > day <=> o > today
      <4>1. o \in Int /\ (o <= m \/ n <= o)
        BY <1>1, <1>2
      <4> QED
        BY <1>1, <1>2, <1>3, <1>6, <1>7, <4>1
    <3> QED
      BY <3>1
  <2>2. Min({o \in MonthStarts : o > day}) = n
    BY <1>1, <2>1, Zenon
  <2> QED
    BY <1>2, <1>3, <1>5, <1>6, <1>7, <2>2
<1>8. CASE start # m
  <2>1. start + 28 <= m
    BY <1>1, <1>2, <1>3, <1>4, <1>6, <1>8
  <2>2. \A o \in MonthStarts : o <= day => o < m
    BY <1>2, <1>6, <2>1
  <2>3. m > day /\ \A o \in MonthStarts : o > day => m <= o
    <3>1. m > day
      BY <1>2, <1>6, <2>1
    <3>2. ASSUME NEW o \in MonthStarts, o > day, o < m
          PROVE  FALSE
      <4>1. o + 28 <= m
        BY <1>4, <3>2
      <4>2. start + 28 <= o
        BY <1>2, <1>4, <1>6, <3>2
      <4> QED
        BY <1>1, <1>2, <1>3, <1>6, <3>2, <4>1, <4>2
    <3> QED
      BY <1>2, <3>1, <3>2
  <2>4. Min({o \in MonthStarts : o > day}) = m
    <3> DEFINE S == {o \in MonthStarts : o > day}
    <3>1. m \in S /\ \A y \in S : m <= y
      BY <2>3
    <3>2. \A x \in S : (\A y \in S : x <= y) => x = m
      BY <1>2, <3>1
    <3> HIDE DEF S
    <3>3. Min(S) \in S /\ \A y \in S : Min(S) <= y
      BY <3>1 DEF Min
    <3> QED
      BY <3>2, <3>3 DEF S
  <2>5. m + rule.day - 1 > today
    BY <1>1, <1>2, <1>3, <1>6, <2>1
  <2> QED
    BY <1>2, <1>5, <2>4, <2>5
<1> QED
  BY <1>7, <1>8

\* The run after a run done on its day or in the six days that follow.
LEMMA NextRunRhythm ==
  ASSUME NEW rule \in Rules, NEW zone \in Zones, InStep(zone), NEW hour \in First..Horizon,
         NEW next, Fits(rule, next), hour - next \in 0..(6 * DayHours)
  PROVE  NextRun(rule, zone, hour) = RunAfter(rule, next)
<1> DEFINE day == next \div DayHours
<1>1. PICK d \in Int :
        /\ next = d * 24 + 9
        /\ IF rule.frequency = "monthly" THEN d - rule.day + 1 \in MonthStarts
           ELSE \E weeks \in Int : d = rule.day + 7 * weeks
  BY DEF Fits, DayHours, RunHour
<1>2. DayOf(next) = d
  <2>1. next \in Int /\ d * 24 <= next /\ next < d * 24 + 24
    BY <1>1
  <2> QED
    BY <2>1, DayOfHour
<1>3. day = d
  BY <1>2, Zenon DEF DayOf
<1> HIDE DEF day
<1> DEFINE today == DayOf(hour + zone)
           end   == RunDay(rule, today)
<1>4. hour \in Int /\ zone \in (-9)..14 /\ hour - next \in 0..144
  <2>1. zone \in Int
    BY ScheduleAssumption DEF ScheduleAssumption
  <2> QED
    BY <2>1 DEF First, DayHours, RunHour, InStep
<1>5. today \in Int /\ today * 24 <= hour + zone /\ hour + zone < today * 24 + 24
  <2>1. hour + zone \in Int
    BY <1>4
  <2> QED
    BY <2>1, HourInDay
<1>6. NextRun(rule, zone, hour) = end * 24 + 9
  BY DEF NextRun, RunDay, DayHours, RunHour
<1>7. today \in Int /\ d <= today /\ today <= d + 6 /\ today = DayOf(hour + zone)
  <2> HIDE DEF today
  <2>1. d <= today /\ today <= d + 6
    BY <1>1, <1>4, <1>5
  <2> QED
    BY <1>5, <2>1 DEF today
<1> HIDE DEF today
<1>8. RunAfter(rule, next) = 9 + 24 *
        (IF rule.frequency = "weekly" THEN d + 7
         ELSE IF rule.frequency = "biweekly" THEN d + 14
         ELSE rule.day - 1 + Min({m \in MonthStarts : m > d}))
  <2>1. RunAfter(rule, next) = 9 + 24 *
        (IF rule.frequency = "weekly" THEN day + 7
         ELSE IF rule.frequency = "biweekly" THEN day + 14
         ELSE rule.day - 1 + Min({m \in MonthStarts : m > day}))
    BY DEF RunAfter, RunHour, DayHours, day
  <2> QED
    BY <1>3, <2>1, Zenon
<1>9. CASE rule.frequency = "monthly"
  <2> DEFINE month == Min({m \in MonthStarts : m > d})
  <2>1. d - rule.day + 1 \in MonthStarts
    BY <1>1, <1>9
  <2>2. end = rule.day - 1 + month
    <3>1. DayOfMonth(rule, today) = rule.day - 1 + month
      BY <1>7, <1>9, <2>1, DayOfMonthAgain
    <3> QED
      BY <1>9, <3>1 DEF RunDay
  <2>3. RunAfter(rule, next) = 9 + 24 * (rule.day - 1 + month)
    BY <1>8, <1>9
  <2>4. RunAfter(rule, next) = 9 + 24 * end
    BY <2>2, <2>3, Zenon
  <2>5. end \in Int
    <3>1. DayOfMonth(rule, today) \in Int
      BY <1>7, <1>9, DayOfMonthFits
    <3> QED
      BY <1>9, <3>1 DEF RunDay
  <2> HIDE DEF end
  <2> QED
    BY <1>6, <2>4, <2>5
<1>10. CASE rule.frequency # "monthly"
  <2>1. rule.day \in Int /\ rule.frequency \in {"weekly", "biweekly"}
    BY <1>10, RuleType
  <2>2. PICK weeks \in Int : d = rule.day + 7 * weeks
    BY <1>1, <1>10
  <2>3. PICK late \in 0..6 : today = rule.day + 7 * weeks + late
    <3>1. today - d \in 0..6 /\ today = d + (today - d)
      BY <1>7
    <3>2. today = rule.day + 7 * weeks + (today - d)
      BY <2>2, <3>1, Zenon
    <3> QED
      BY <3>1, <3>2
  <2>4. today + DaysUntil(rule, today) =
          rule.day + 7 * weeks + (IF rule.frequency = "weekly" THEN 7 ELSE 14)
    BY <1>10, <2>3, DaysUntilAgain
  <2>5. end = d + (IF rule.frequency = "weekly" THEN 7 ELSE 14)
    BY <1>10, <2>2, <2>4 DEF RunDay
  <2>6. RunAfter(rule, next) = 9 + 24 * (d + (IF rule.frequency = "weekly" THEN 7 ELSE 14))
    BY <1>8, <2>1
  <2> HIDE DEF end
  <2> QED
    BY <1>6, <2>5, <2>6
<1> QED
  BY <1>9, <1>10

-----------------------------------------------------------------------------
(* Types, and the rhythm of what is stored. *)

\* The schedule is due at a time of its rule's rhythm, always.
Rhythm == Exists => Fits(schedule.rule, schedule.next)

\* What is known of a schedule that is stored.
LEMMA StoredFacts ==
  ASSUME ScheduleTypeOK, Exists
  PROVE  /\ schedule \in Stored
         /\ schedule.rule \in Rules /\ schedule.zone \in Zones /\ schedule.next \in Int
         /\ now \in First..Horizon
  BY DEF ScheduleTypeOK, Exists, Stored, Gone, None

\* What is known of the job at work.
LEMMA JobFacts ==
  ASSUME ScheduleTypeOK, NEW i \in Instances, job[i] # AtRest
  PROVE  /\ job[i].due \in Int /\ job[i].pc \in {"items", "post", "advance"}
         /\ \/ job[i] \in [pc : {"items", "post"}, due : Int]
            \/ job[i] \in [pc : {"advance"}, due : Int, result : RunResults]
  BY DEF ScheduleTypeOK, AtRest

\* The shape of a job, by its place.
LEMMA JobAt ==
  ASSUME ScheduleTypeOK, NEW i \in Instances, job[i].pc \in {"items", "post", "advance"}
  PROVE  /\ job[i] # AtRest /\ job[i].due \in Int
         /\ job[i].pc \in {"items", "post"} => job[i] \in [pc : {"items", "post"}, due : Int]
  BY DEF ScheduleTypeOK, AtRest

\* One more batch paid.
LEMMA OneMorePaid ==
  ASSUME NEW b, IsABag(b), NEW due
  PROVE  /\ IsABag(b (+) SetToBag({due}))
         /\ BagToSet(b (+) SetToBag({due})) = BagToSet(b) \cup {due}
         /\ \A d \in BagToSet(b) : d # due => (b (+) SetToBag({due}))[d] = b[d]
         /\ due \notin BagToSet(b) => (b (+) SetToBag({due}))[due] = 1
  BY DEF IsABag, SetToBag, (+), BagToSet

\* Jobs are jobs, whichever step an instance takes.
Job == {AtRest} \cup [pc : {"items", "post"}, due : Int]
         \cup [pc : {"advance"}, due : Int, result : RunResults]

\* In the initial state the types are right.
LEMMA TypeStarts == ScheduleInit => ScheduleTypeOK /\ Rhythm
<1> SUFFICES ASSUME ScheduleInit PROVE ScheduleTypeOK /\ Rhythm
  OBVIOUS
<1>1. now \in First..Horizon
  BY ScheduleAssumption DEF ScheduleInit, ScheduleAssumption, First, DayHours
<1>2. IsABag(paid) /\ BagToSet(paid) = {}
  BY DEF ScheduleInit, EmptyBag, SetToBag, IsABag, BagToSet
<1> QED
  BY <1>1, <1>2 DEF ScheduleInit, ScheduleTypeOK, Rhythm, Exists, None

\* The types, and the rhythm, are kept by every step.
LEMMA TypeKept ==
  ASSUME ScheduleTypeOK, Rhythm, [ScheduleNext]_scheduleVars
  PROVE  ScheduleTypeOK' /\ Rhythm'
<1>1. ASSUME Create PROVE ScheduleTypeOK' /\ Rhythm'
  <2>1. PICK zone \in Zones, rule \in Rules, items \in BOOLEAN :
          schedule' = [status |-> "active", zone |-> zone, rule |-> rule, items |-> items,
                       next |-> NextRun(rule, zone, now)]
    BY <1>1 DEF Create
  <2>2. NextRun(rule, zone, now) \in Int /\ Fits(rule, NextRun(rule, zone, now))
    BY NextRunFits DEF ScheduleTypeOK
  <2>3. schedule' \in Stored
    BY <2>1, <2>2 DEF Stored
  <2>4. schedule'.rule = rule /\ schedule'.next = NextRun(rule, zone, now)
    BY <2>1
  <2>5. Rhythm'
    BY <2>2, <2>4, Zenon DEF Rhythm
  <2> QED
    BY <1>1, <2>3, <2>5 DEF Create, ScheduleTypeOK
<1>2. ASSUME Delete PROVE ScheduleTypeOK' /\ Rhythm'
  <2>1. schedule \in Stored /\ schedule.zone \in Zones
    BY <1>2, StoredFacts DEF Delete
  <2>2. schedule' \in Gone /\ ~Exists' /\ UNCHANGED <<now, ticked, job, paid>>
    BY <1>2, <2>1 DEF Delete, Gone, Exists
  <2> QED
    BY <2>2 DEF ScheduleTypeOK, Rhythm
<1>3. ASSUME Hour PROVE ScheduleTypeOK' /\ Rhythm'
  <2>1. (now + 1) \in First..Horizon
    BY <1>3, ScheduleAssumption DEF Hour, ScheduleTypeOK, First, DayHours, ScheduleAssumption
  <2> QED
    BY <1>3, <2>1 DEF Hour, ScheduleTypeOK, Rhythm, Exists
<1>4. ASSUME NEW status \in {"active", "paused"}, SetStatus(status) PROVE ScheduleTypeOK' /\ Rhythm'
  <2>1. schedule \in Stored /\ schedule' = [schedule EXCEPT !.status = status]
    BY <1>4, StoredFacts DEF SetStatus
  <2>2. schedule' \in Stored /\ schedule'.rule = schedule.rule /\ schedule'.next = schedule.next
    BY <2>1 DEF Stored
  <2>3. Fits(schedule.rule, schedule.next)
    BY <1>4 DEF SetStatus, Rhythm
  <2>4. Rhythm'
    BY <2>2, <2>3, Zenon DEF Rhythm
  <2> QED
    BY <1>4, <2>2, <2>4 DEF SetStatus, ScheduleTypeOK
<1>5. ASSUME NEW i \in Instances, Tick(i) PROVE ScheduleTypeOK' /\ Rhythm'
  <2>1. ticked' \subseteq Instances /\ UNCHANGED <<now, schedule, paid>>
    BY <1>5 DEF Tick, Fires, ScheduleTypeOK
  <2>2. job' \in [Instances -> Job]
    <3>1. job \in [Instances -> Job]
      BY DEF ScheduleTypeOK, Job
    <3>2. CASE UNCHANGED job
      BY <3>1, <3>2
    <3>3. CASE Due /\ job' = [job EXCEPT ![i] = [pc |-> "items", due |-> schedule.next]]
      <4>1. [pc |-> "items", due |-> schedule.next] \in Job
        BY <3>3, StoredFacts DEF Due, Job
      <4> HIDE DEF Job
      <4> QED
        BY <3>1, <3>3, <4>1
    <3> QED
      BY <1>5, <3>2, <3>3 DEF Tick, Claim
  <2> QED
    BY <2>1, <2>2 DEF ScheduleTypeOK, Job, Rhythm, Exists
<1>6. ASSUME NEW i \in Instances, ReadItems(i) PROVE ScheduleTypeOK' /\ Rhythm'
  <2>1. job[i] \in [pc : {"items", "post"}, due : Int]
    BY <1>6, JobAt DEF ReadItems
  <2>2. job' \in [Instances -> Job]
    BY <1>6, <2>1 DEF ReadItems, AdvanceTo, ScheduleTypeOK, Job, RunResults
  <2> QED
    BY <1>6, <2>2 DEF ReadItems, ScheduleTypeOK, Job, Rhythm, Exists
<1>7. ASSUME NEW i \in Instances, BatchAnswered(i) \/ TimedOut(i) PROVE ScheduleTypeOK' /\ Rhythm'
  <2>1. job[i].due \in Int
    BY <1>7, JobAt DEF BatchAnswered, TimedOut
  <2>2. UNCHANGED <<now, schedule, ticked>>
    BY <1>7 DEF BatchAnswered, TimedOut
  <2>3. IsABag(paid') /\ BagToSet(paid') \subseteq Int
    <3>1. CASE UNCHANGED paid
      BY <3>1 DEF ScheduleTypeOK
    <3>2. CASE Records(i)
      <4>1. /\ IsABag(paid (+) SetToBag({job[i].due}))
            /\ BagToSet(paid (+) SetToBag({job[i].due})) = BagToSet(paid) \cup {job[i].due}
        <5>1. IsABag(paid)
          BY DEF ScheduleTypeOK
        <5> QED
          BY <5>1, OneMorePaid
      <4>2. BagToSet(paid) \cup {job[i].due} \subseteq Int
        BY <2>1 DEF ScheduleTypeOK
      <4> QED
        BY <3>2, <4>1, <4>2, Zenon DEF Records
    <3> QED
      BY <1>7, <3>1, <3>2 DEF BatchAnswered, TimedOut
  <2>4. PICK result \in RunResults : AdvanceTo(i, result)
    BY <1>7 DEF BatchAnswered, TimedOut, RunStatus, RunResults
  <2>5. job' \in [Instances -> Job]
    BY <2>1, <2>4 DEF AdvanceTo, ScheduleTypeOK, Job
  <2> QED
    BY <2>2, <2>3, <2>5 DEF ScheduleTypeOK, Job, Rhythm, Exists
<1>8. ASSUME NEW i \in Instances, Advance(i) PROVE ScheduleTypeOK' /\ Rhythm'
  <2>1. job' \in [Instances -> Job] /\ UNCHANGED <<now, ticked, paid>>
    BY <1>8 DEF Advance, ScheduleTypeOK, Job
  <2>2. CASE ~Exists
    BY <1>8, <2>1, <2>2 DEF Advance, ScheduleTypeOK, Job, Rhythm, Exists
  <2>3. CASE Exists
    <3> DEFINE next == NextRun(schedule.rule, schedule.zone, now)
    <3>1. schedule \in Stored /\ next \in Int /\ Fits(schedule.rule, next)
      BY <2>3, StoredFacts, NextRunFits
    <3>2. schedule' = [schedule EXCEPT !.next = next]
      BY <1>8, <2>3 DEF Advance
    <3> HIDE DEF next
    <3>3. schedule' \in Stored /\ schedule'.rule = schedule.rule /\ schedule'.next = next
      BY <3>1, <3>2 DEF Stored
    <3>4. Rhythm'
      BY <3>1, <3>3, Zenon DEF Rhythm
    <3> QED
      BY <2>1, <3>3, <3>4 DEF ScheduleTypeOK, Job
  <2> QED
    BY <2>2, <2>3
<1>9. ASSUME NEW i \in Instances, AdvanceFails(i) \/ Crash(i) PROVE ScheduleTypeOK' /\ Rhythm'
  <2>1. job' \in [Instances -> Job] /\ UNCHANGED <<now, schedule, ticked, paid>>
    BY <1>9 DEF AdvanceFails, Crash, ScheduleTypeOK, Job
  <2> QED
    BY <2>1 DEF ScheduleTypeOK, Job, Rhythm, Exists
<1>10. ASSUME UNCHANGED scheduleVars PROVE ScheduleTypeOK' /\ Rhythm'
  BY <1>10 DEF scheduleVars, ScheduleTypeOK, Rhythm, Exists
<1> QED
  BY <1>1, <1>2, <1>3, <1>4, <1>5, <1>6, <1>7, <1>8, <1>9, <1>10 DEF ScheduleNext, Work

\* The records are what they seem, in every zone: among them the time of the next run,
\* which the calendar gives for every rule and hour.
THEOREM TypeCorrect == ScheduleSpec => []ScheduleTypeOK
<1>1. ScheduleTypeOK /\ Rhythm /\ [ScheduleNext]_scheduleVars => (ScheduleTypeOK /\ Rhythm)'
  BY TypeKept
<1> QED
  BY <1>1, TypeStarts, PTL DEF ScheduleSpec

-----------------------------------------------------------------------------
(* One payment for a run that no fault has touched. *)

\* The lock: one instance is at work at a time.
OneAtWork ==
  \A i, j \in Instances : job[i] # AtRest /\ job[j] # AtRest => i = j

\* What is being worked on is due, and is still what the schedule says is next.
WorksOnDue ==
  \A i \in Instances : job[i] # AtRest =>
    /\ job[i].due <= now
    /\ schedule # None
    /\ Exists => schedule.next = job[i].due

\* A run that was paid when nothing failed any more was paid once, and either the
\* schedule has gone past it or the job that paid it is about to take it there.
Settled ==
  \A due \in BagToSet(paid) :
    /\ due <= now
    /\ due >= FaultsUntil =>
         /\ paid[due] = 1
         /\ Exists => \/ schedule.next > due
                      \/ \E i \in Instances : job[i].pc = "advance" /\ job[i].due = due

\* A job on its way to the payment is on its way to the first one.
NotYetPaid ==
  \A i \in Instances :
    job[i].pc \in {"items", "post"} /\ job[i].due >= FaultsUntil => job[i].due \notin BagToSet(paid)

ScheduleIInv == OneAtWork /\ WorksOnDue /\ Settled /\ NotYetPaid

\* The schedule, when there is one, is in a zone where the clocks agree.
AgreesWithServer == schedule # None => InStep(schedule.zone)

\* A schedule never changes its zone.
LEMMA ZoneStays ==
  ASSUME ScheduleTypeOK, [ScheduleNext]_scheduleVars, AgreesWithServer'
  PROVE  AgreesWithServer
<1>1. CASE schedule = None
  BY <1>1 DEF AgreesWithServer
<1>2. CASE schedule # None /\ UNCHANGED schedule
  BY <1>2 DEF AgreesWithServer
<1>3. CASE Delete
  BY <1>3 DEF Delete, AgreesWithServer, None
<1>4. CASE \E status \in {"active", "paused"} : SetStatus(status)
  BY <1>4, StoredFacts DEF SetStatus, AgreesWithServer, Stored, None
<1>5. CASE \E i \in Instances : Advance(i) /\ Exists
  BY <1>5, StoredFacts DEF Advance, AgreesWithServer, Stored, None
<1>6. \/ schedule = None \/ UNCHANGED schedule \/ Delete
      \/ \E status \in {"active", "paused"} : SetStatus(status)
      \/ \E i \in Instances : Advance(i) /\ Exists
  BY DEF ScheduleNext, Create, Hour, Tick, Fires, Work, ReadItems, BatchAnswered, TimedOut,
         Advance, AdvanceFails, Crash, scheduleVars
<1> QED
  BY <1>1, <1>2, <1>3, <1>4, <1>5, <1>6

\* Initially nothing is at work and nothing is paid.
LEMMA ScheduleStarts == ScheduleInit => ScheduleIInv
<1> SUFFICES ASSUME ScheduleInit PROVE ScheduleIInv
  OBVIOUS
<1>1. BagToSet(paid) = {}
  BY DEF ScheduleInit, EmptyBag, SetToBag, BagToSet
<1>2. \A i \in Instances : job[i] = AtRest
  BY DEF ScheduleInit
<1>3. AtRest.pc = "idle"
  BY DEF AtRest
<1> QED
  BY <1>1, <1>2, <1>3 DEF ScheduleIInv, OneAtWork, WorksOnDue, Settled, NotYetPaid

\* A step that changes neither the schedule nor what is paid, and may stop jobs that
\* are due before the faults end, keeps the invariant.
LEMMA StopKeeps ==
  ASSUME ScheduleTypeOK, ScheduleIInv, NEW i \in Instances, now < FaultsUntil, job[i] # AtRest,
         job' = [job EXCEPT ![i] = AtRest], UNCHANGED <<now, schedule, ticked, paid>>
  PROVE  ScheduleIInv'
<1>1. \A j \in Instances : job'[j] = AtRest \/ job'[j] = job[j]
  BY DEF ScheduleTypeOK
<1>2. AtRest.pc = "idle" /\ now \in Int /\ FaultsUntil \in Int /\ BagToSet(paid) \subseteq Int
  BY ScheduleAssumption DEF AtRest, ScheduleTypeOK, ScheduleAssumption, First, DayHours
<1>3. OneAtWork' /\ WorksOnDue' /\ NotYetPaid'
  BY <1>1, <1>2 DEF ScheduleIInv, OneAtWork, WorksOnDue, NotYetPaid, Exists
<1>4. Settled'
  BY <1>2 DEF ScheduleIInv, Settled
<1> QED
  BY <1>3, <1>4 DEF ScheduleIInv

\* The invariant is kept by every step, where the two clocks are in step.
LEMMA ScheduleKeeps ==
  ASSUME AgreesWithServer', ScheduleTypeOK, ScheduleTypeOK', ScheduleIInv, [ScheduleNext]_scheduleVars
  PROVE  ScheduleIInv'
<1>0. /\ now \in Int /\ FaultsUntil \in Int /\ BagToSet(paid) \subseteq Int /\ IsABag(paid)
      /\ AtRest.pc = "idle"
  BY ScheduleAssumption DEF AtRest, ScheduleTypeOK, ScheduleAssumption, First, DayHours
<1>00. \A zone \in Zones : InStep(zone) => zone >= -9
  BY ScheduleAssumption DEF ScheduleAssumption, InStep, RunHour, DayHours
<1> USE DEF ScheduleIInv
<1>1. ASSUME Create PROVE ScheduleIInv'
  <2>1. PICK zone \in Zones, rule \in Rules, items \in BOOLEAN :
          schedule' = [status |-> "active", zone |-> zone, rule |-> rule, items |-> items,
                       next |-> NextRun(rule, zone, now)]
    BY <1>1 DEF Create
  <2>2. schedule'.next > now /\ schedule'.next \in Int
    <3>1. schedule'.zone = zone /\ schedule' # None
      BY <2>1 DEF None
    <3>2. zone >= -9
      BY <1>00, <3>1, Zenon DEF AgreesWithServer
    <3> QED
      BY <1>0, <2>1, <3>2, NextRunFits DEF ScheduleTypeOK
  <2>3. \A i \in Instances : job[i] = AtRest
    BY <1>1 DEF Create, WorksOnDue
  <2>4. UNCHANGED <<now, job, paid>>
    BY <1>1 DEF Create
  <2>5. Settled'
    BY <1>0, <2>2, <2>4 DEF Settled
  <2> QED
    BY <1>0, <2>3, <2>4, <2>5 DEF OneAtWork, WorksOnDue, NotYetPaid
<1>2. ASSUME Delete PROVE ScheduleIInv'
  <2>1. ~Exists' /\ schedule' # None /\ UNCHANGED <<now, job, paid>>
    BY <1>2 DEF Delete, Exists, None
  <2> QED
    BY <2>1 DEF OneAtWork, WorksOnDue, Settled, NotYetPaid
<1>3. ASSUME Hour PROVE ScheduleIInv'
  <2>1. now' = now + 1 /\ UNCHANGED <<schedule, job, paid>> /\ \A i \in Instances : job[i] = AtRest
    BY <1>3 DEF Hour
  <2>2. Settled'
    BY <1>0, <2>1 DEF Settled, Exists
  <2> QED
    BY <1>0, <2>1, <2>2 DEF OneAtWork, WorksOnDue, NotYetPaid
<1>4. ASSUME NEW status \in {"active", "paused"}, SetStatus(status) PROVE ScheduleIInv'
  <2>1. schedule \in Stored /\ schedule' = [schedule EXCEPT !.status = status] /\ Exists
    BY <1>4, StoredFacts DEF SetStatus
  <2>2. schedule'.next = schedule.next /\ schedule' # None
    BY <2>1 DEF Stored, None
  <2>3. UNCHANGED <<now, job, paid>>
    BY <1>4 DEF SetStatus
  <2> QED
    BY <2>1, <2>2, <2>3 DEF OneAtWork, WorksOnDue, Settled, NotYetPaid
<1>5. ASSUME NEW i \in Instances, Tick(i) PROVE ScheduleIInv'
  <2>1. UNCHANGED <<now, schedule, paid>>
    BY <1>5 DEF Tick, Fires
  <2>2. CASE UNCHANGED job
    BY <2>1, <2>2 DEF OneAtWork, WorksOnDue, Settled, NotYetPaid, Exists
  <2>3. CASE ~UNCHANGED job
    <3>1. /\ \A j \in Instances : job[j] = AtRest
          /\ Due
          /\ job' = [job EXCEPT ![i] = [pc |-> "items", due |-> schedule.next]]
      BY <1>5, <2>3 DEF Tick, Claim
    <3>2. schedule.next \in Int /\ schedule.next <= now /\ Exists /\ schedule # None
      BY <3>1, StoredFacts DEF Due, Exists, None
    <3>3. /\ job'[i] = [pc |-> "items", due |-> schedule.next]
          /\ \A j \in Instances : j # i => job'[j] = AtRest
      BY <3>1 DEF ScheduleTypeOK
    <3>4. OneAtWork' /\ WorksOnDue'
      BY <2>1, <3>2, <3>3 DEF OneAtWork, WorksOnDue, Exists
    <3>5. \A due \in BagToSet(paid) : due >= FaultsUntil => schedule.next > due
      BY <1>0, <3>1, <3>2 DEF Settled
    <3>6. Settled'
      BY <2>1, <3>5 DEF Settled, Exists
    <3>7. NotYetPaid'
      BY <1>0, <2>1, <3>2, <3>3, <3>5 DEF NotYetPaid
    <3> QED
      BY <3>4, <3>6, <3>7
  <2> QED
    BY <2>2, <2>3
<1>6. ASSUME NEW i \in Instances, ReadItems(i) PROVE ScheduleIInv'
  <2>1. job[i].pc = "items" /\ job[i] # AtRest /\ UNCHANGED <<now, schedule, paid>>
    BY <1>6, JobAt DEF ReadItems
  <2>2. /\ job'[i].pc \in {"post", "advance"} /\ job'[i].due = job[i].due
        /\ \A j \in Instances : j # i => job'[j] = job[j]
    BY <1>6, <2>1, JobAt DEF ReadItems, AdvanceTo, ScheduleTypeOK
  <2>3. OneAtWork' /\ WorksOnDue'
    BY <2>1, <2>2 DEF OneAtWork, WorksOnDue, Exists
  <2>4. Settled'
    BY <2>1, <2>2 DEF Settled, Exists
  <2>5. NotYetPaid'
    BY <2>1, <2>2 DEF NotYetPaid
  <2> QED
    BY <2>3, <2>4, <2>5
<1>7. ASSUME NEW i \in Instances, BatchAnswered(i) \/ TimedOut(i) PROVE ScheduleIInv'
  <2>1. /\ job[i].pc = "post" /\ job[i] # AtRest /\ job[i].due \in Int
        /\ UNCHANGED <<now, schedule>>
    BY <1>7, JobAt DEF BatchAnswered, TimedOut
  <2>2. PICK result : AdvanceTo(i, result)
    BY <1>7 DEF BatchAnswered, TimedOut
  <2>3. /\ job'[i].pc = "advance" /\ job'[i].due = job[i].due
        /\ \A j \in Instances : j # i => job'[j] = job[j]
    BY <2>2 DEF AdvanceTo, ScheduleTypeOK
  <2>4. OneAtWork' /\ WorksOnDue'
    BY <2>1, <2>3 DEF OneAtWork, WorksOnDue, Exists
  <2>5. \A j \in Instances : j # i => job[j] = AtRest
    BY <2>1 DEF OneAtWork
  <2>6. NotYetPaid'
    BY <1>0, <2>3, <2>5 DEF NotYetPaid
  <2>7. CASE UNCHANGED paid
    BY <2>1, <2>3, <2>6, <2>4, <2>7 DEF Settled, Exists
  <2>8. CASE Records(i)
    <3> DEFINE d == job[i].due
    <3>1. /\ BagToSet(paid') = BagToSet(paid) \cup {d}
          /\ \A e \in BagToSet(paid) : e # d => paid'[e] = paid[e]
          /\ d \notin BagToSet(paid) => paid'[d] = 1
      <4>1. paid' = paid (+) SetToBag({d})
        BY <2>8 DEF Records
      <4> HIDE DEF d
      <4>2. /\ BagToSet(paid (+) SetToBag({d})) = BagToSet(paid) \cup {d}
            /\ \A e \in BagToSet(paid) : e # d => (paid (+) SetToBag({d}))[e] = paid[e]
            /\ d \notin BagToSet(paid) => (paid (+) SetToBag({d}))[d] = 1
        BY <1>0, OneMorePaid, Zenon
      <4> QED
        BY <4>1, <4>2, Zenon
    <3>2. d >= FaultsUntil => d \notin BagToSet(paid)
      BY <2>1 DEF NotYetPaid
    <3>3. d <= now
      BY <2>1 DEF WorksOnDue
    <3>4. job'[i].pc = "advance" /\ job'[i].due = d
      BY <2>3
    <3> HIDE DEF d
    <3>5. ASSUME NEW due \in BagToSet(paid'), due >= FaultsUntil
          PROVE  /\ paid'[due] = 1
                 /\ Exists' => \/ schedule'.next > due
                               \/ \E j \in Instances : job'[j].pc = "advance" /\ job'[j].due = due
      <4>1. CASE due = d
        BY <3>1, <3>2, <3>4, <3>5, <4>1
      <4>2. CASE due # d
        <5>1. due \in BagToSet(paid) /\ paid'[due] = paid[due]
          BY <3>1, <4>2
        <5>2. paid[due] = 1 /\ (Exists => schedule.next > due)
          BY <1>0, <2>1, <2>5, <3>5, <5>1 DEF Settled
        <5> QED
          BY <2>1, <5>1, <5>2 DEF Exists
      <4> QED
        BY <4>1, <4>2
    <3>6. \A due \in BagToSet(paid') : due <= now'
      BY <2>1, <3>1, <3>3 DEF Settled
    <3>7. Settled'
      BY <3>5, <3>6 DEF Settled
    <3> QED
      BY <2>4, <2>6, <3>7
  <2> QED
    BY <1>7, <2>7, <2>8 DEF BatchAnswered, TimedOut
<1>8. ASSUME NEW i \in Instances, Advance(i) PROVE ScheduleIInv'
  <2>1. /\ job[i] # AtRest /\ UNCHANGED <<now, paid>>
        /\ job' = [job EXCEPT ![i] = AtRest]
    BY <1>8, JobAt DEF Advance
  <2>2. \A j \in Instances : job'[j] = AtRest
    BY <2>1 DEF OneAtWork, ScheduleTypeOK
  <2>3. CASE ~Exists
    <3>1. UNCHANGED schedule
      BY <1>8, <2>3 DEF Advance
    <3> QED
      BY <1>0, <2>1, <2>2, <2>3, <3>1 DEF OneAtWork, WorksOnDue, Settled, NotYetPaid, Exists
  <2>4. CASE Exists
    <3> DEFINE next == NextRun(schedule.rule, schedule.zone, now)
    <3>0. schedule.zone \in Zones /\ schedule.zone >= -9
      <4>1. schedule \in Stored /\ schedule.zone \in Zones /\ schedule # None
        BY <2>4, StoredFacts DEF Exists, None
      <4>2. AgreesWithServer
        BY ZoneStays
      <4> QED
        BY <1>00, <4>1, <4>2, Zenon DEF AgreesWithServer
    <3>1. schedule \in Stored /\ next \in Int /\ next > now
      BY <1>0, <2>4, <3>0, StoredFacts, NextRunFits
    <3>2. schedule' = [schedule EXCEPT !.next = next]
      BY <1>8, <2>4 DEF Advance
    <3> HIDE DEF next
    <3>3. schedule'.next = next
      BY <3>1, <3>2 DEF Stored
    <3>4. Settled'
      BY <1>0, <2>1, <3>1, <3>3 DEF Settled, Exists
    <3> QED
      BY <1>0, <2>1, <2>2, <3>4 DEF OneAtWork, WorksOnDue, NotYetPaid
  <2> QED
    BY <2>3, <2>4
<1>9. ASSUME NEW i \in Instances, AdvanceFails(i) \/ Crash(i) PROVE ScheduleIInv'
  <2>1. job[i] # AtRest
    BY <1>9, JobAt DEF AdvanceFails, Crash
  <2>2. /\ now < FaultsUntil /\ job' = [job EXCEPT ![i] = AtRest]
        /\ UNCHANGED <<now, schedule, ticked, paid>>
    BY <1>9 DEF AdvanceFails, Crash
  <2> QED
    BY <2>1, <2>2, StopKeeps
<1>10. ASSUME UNCHANGED scheduleVars PROVE ScheduleIInv'
  BY <1>10 DEF scheduleVars, OneAtWork, WorksOnDue, Settled, NotYetPaid, Exists
<1> QED
  BY <1>1, <1>2, <1>3, <1>4, <1>5, <1>6, <1>7, <1>8, <1>9, <1>10 DEF ScheduleNext, Work

\* No run of a schedule in whose zone the two clocks agree, that no fault has touched,
\* is paid by two batches, whichever instances tick and however late.
THEOREM PaidOnceUndisturbed == ScheduleSpec => []UndisturbedPaidOnce
<1> DEFINE IInv == ScheduleTypeOK /\ Rhythm /\ (AgreesWithServer => ScheduleIInv)
<1>1. ScheduleInit => IInv
  BY TypeStarts, ScheduleStarts
<1>2. IInv /\ [ScheduleNext]_scheduleVars => IInv'
  <2> SUFFICES ASSUME IInv, [ScheduleNext]_scheduleVars PROVE IInv'
    OBVIOUS
  <2>1. (ScheduleTypeOK /\ Rhythm)'
    BY TypeKept
  <2>2. ASSUME AgreesWithServer' PROVE ScheduleIInv'
    <3>1. ScheduleIInv
      BY <2>2, ZoneStays
    <3> QED
      BY <2>1, <2>2, <3>1, ScheduleKeeps
  <2> QED
    BY <2>1, <2>2
<1>3. IInv => UndisturbedPaidOnce
  BY DEF AgreesWithServer, ScheduleIInv, Settled, UndisturbedPaidOnce
<1> QED
  BY <1>1, <1>2, <1>3, PTL DEF ScheduleSpec

\* A run done on its day or in the six days that follow does not move the rhythm of a
\* schedule in whose zone the two clocks agree.
THEOREM CadenceHolds == ScheduleSpec => Cadence
<1>1. ScheduleTypeOK /\ Rhythm /\ [ScheduleNext]_scheduleVars => (ScheduleTypeOK /\ Rhythm)'
  BY TypeKept
<1>2. ASSUME ScheduleTypeOK, Rhythm, NEW i \in Instances, Exists, InStep(schedule.zone), Advance(i),
             now - schedule.next \in 0..(6 * DayHours)
      PROVE  schedule'.next = RunAfter(schedule.rule, schedule.next)
  <2>1. /\ schedule \in Stored /\ schedule.rule \in Rules /\ now \in First..Horizon
        /\ schedule.zone \in Zones /\ InStep(schedule.zone)
    BY <1>2, StoredFacts
  <2>2. schedule'.next = NextRun(schedule.rule, schedule.zone, now)
    BY <1>2, <2>1 DEF Advance, Stored
  <2>3. Fits(schedule.rule, schedule.next)
    BY <1>2 DEF Rhythm
  <2>4. \A rule \in Rules, zone \in Zones, hour \in First..Horizon, next \in Int :
          /\ InStep(zone) /\ Fits(rule, next) /\ hour - next \in 0..(6 * DayHours)
          => NextRun(rule, zone, hour) = RunAfter(rule, next)
    BY NextRunRhythm
  <2>5. schedule.next \in Int
    BY <1>2, StoredFacts
  <2>6. NextRun(schedule.rule, schedule.zone, now) = RunAfter(schedule.rule, schedule.next)
    BY <1>2, <2>1, <2>3, <2>4, <2>5
  <2> QED
    BY <2>2, <2>6
<1>3. ScheduleTypeOK /\ Rhythm =>
        [\A i \in Instances :
           (/\ Exists /\ InStep(schedule.zone)
            /\ Advance(i) /\ now - schedule.next \in 0..(6 * DayHours)) =>
             schedule'.next = RunAfter(schedule.rule, schedule.next)]_scheduleVars
  BY <1>2, Zenon
<1> QED
  BY <1>1, <1>3, TypeStarts, PTL DEF ScheduleSpec, Cadence

=============================================================================
