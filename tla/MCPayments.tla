----------------------------- MODULE MCPayments -----------------------------
(* Small instances of Payout and Schedule for TLC.  They share no state: a   *)
(* behaviour is one of the part in focus, the other stays where nothing that *)
(* is fair can happen: no payout has begun, or the schedule's time is over.  *)
(* Zones reach from Honolulu to Kiritimati; the calendar begins in a         *)
(* February of 28 days.                                                      *)
EXTENDS Payout, Schedule

CONSTANTS k1, r1, r2, i1, i2

VARIABLE focus

allVars == <<focus, vars, scheduleVars>>

ScheduleOver ==
  /\ now = Horizon /\ ticked = Instances
  /\ schedule = None /\ job = [i \in Instances |-> AtRest] /\ paid = EmptyBag

AllInit ==
  /\ Init
  /\ \/ focus = "schedule" /\ ScheduleInit
     \/ focus = "payout" /\ ScheduleOver

AllNext ==
  /\ UNCHANGED focus
  /\ \/ focus = "payout" /\ Next /\ UNCHANGED scheduleVars
     \/ focus = "schedule" /\ ScheduleNext /\ UNCHANGED vars

AllSpec == AllInit /\ [][AllNext]_allVars /\ PayoutFairness /\ ScheduleFairness

On(frequency, day) == [frequency |-> frequency, day |-> day]

ZonesAll == {-10, -9, 14}
RulesAll == {On("weekly", 3), On("biweekly", 3), On("monthly", 3)}

MonthsInSpring == {-31, 0, 28, 59}
=============================================================================
