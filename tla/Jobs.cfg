CONSTANTS
  Items = 3
  StaleBeat = 2
  t1 = t1  r1 = r1  r2 = r2
  Txs = {t1}
  Requests = {r1, r2}
  Silent = FALSE
  MaxPayments = 3
  p1 = p1  p2 = p2  j1 = j1  i1 = i1  i2 = i2
  Calls = {p1, p2, j1}
  Jobs = {j1}
  Home <- MCHome
  PoolSize = 2
  MaxFaults = 2
  n1 = n1  n2 = n2
  Servers = {i1, i2}
  Names = {n1, n2}
  MaxEvents = 2
SPECIFICATION Spec
INVARIANTS TypeOK CompletedIsPaid CompletedWasPaid
INVARIANTS NoCollision NotEveryoneWaits
PROPERTIES CashoutKeepsPromise RuledByTruth BatchSettles AcknowledgedSettles
PROPERTIES AllGivenBack ListedIsFlagged EmployerClearsNoFlag
CHECK_DEADLOCK FALSE
