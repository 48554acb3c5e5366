CONSTANTS
  k1 = k1  r1 = r1  r2 = r2
  Keys = {k1}
  Requests = {r1, r2}
  StaleAfter = 5
  MaxTx = 2
SPECIFICATION Spec
INVARIANT PaidOnce
