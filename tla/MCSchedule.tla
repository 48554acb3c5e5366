----------------------------- MODULE MCSchedule -----------------------------
(* A weekly schedule in one zone, for TLC. *)
EXTENDS Schedule

CONSTANTS i1, i2

ZonesUTC    == {0}
ZonesWest   == {-11}
RulesWeekly == {[frequency |-> "weekly", day |-> 3]}

MonthsInSpring == {-31, 0, 28, 59}
=============================================================================
