SPECIFICATION ScheduleSpec
CONSTANTS
  i1 = i1
  i2 = i2
  Instances = {i1, i2}
  Zones <- ZonesUTC
  Rules <- RulesWeekly
  MonthStarts <- MonthsInSpring
  Late = FALSE
  FaultsUntil = 100
  CreateUntil = 60
  Horizon = 100
CHECK_DEADLOCK FALSE
INVARIANTS
  RunPaidOnce
