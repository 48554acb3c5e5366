CONSTANTS
  x = x  r1 = r1  r2 = r2
  Forms = {x}
  Wires = {r1, r2}
  Rates = {1}
  MaxKeys = 2
SPECIFICATION PayClientSpec
INVARIANT DoubleClickPaysOnce
CHECK_DEADLOCK FALSE
