CONSTANTS
  k1 = k1  r1 = r1  r2 = r2
  Keys = {k1}
  Requests = {r1}
  StaleAfter = 5
  MaxTx = 4
SPECIFICATION SpecWithLostWrites
INVARIANT PaidOnce
