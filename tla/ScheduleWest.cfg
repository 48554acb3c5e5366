SPECIFICATION ScheduleSpec
CONSTANTS
  i1 = i1
  i2 = i2
  Instances = {i1}
  Zones <- ZonesWest
  Rules <- RulesWeekly
  MonthStarts <- MonthsInSpring
  Late = FALSE
  FaultsUntil = 0
  CreateUntil = 60
  Horizon = 100
CHECK_DEADLOCK FALSE
INVARIANTS
  RunPaidOnce
