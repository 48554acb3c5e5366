CONSTANTS
  t1 = t1  t2 = t2  r1 = r1  r2 = r2
  Txs = {t1}
  Requests = {r1}
  Silent = TRUE
  MaxPayments = 2
SPECIFICATION CashoutSpec
INVARIANT PaidOnce
CHECK_DEADLOCK FALSE
