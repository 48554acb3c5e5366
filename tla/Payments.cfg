SPECIFICATION AllSpec
CONSTANTS
  k1 = k1
  r1 = r1
  r2 = r2
  i1 = i1
  i2 = i2
  Keys = {k1}
  Requests = {r1, r2}
  StaleAfter = 5
  MaxTx = 2
  Instances = {i1, i2}
  Zones <- ZonesAll
  Rules <- RulesAll
  MonthStarts <- MonthsInSpring
  Late = TRUE
  FaultsUntil = 58
  CreateUntil = 56
  Horizon = 252
INVARIANTS TypeOK FailedIsOver ScheduleTypeOK 
PROPERTIES KeepsPromise EveryRowSettles  DueIsRun
CHECK_DEADLOCK FALSE
