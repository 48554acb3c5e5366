CONSTANTS
  i1 = i1  i2 = i2  n1 = n1  n2 = n2
  Servers = {i1, i2}
  Names = {n1, n2}
  MaxEvents = 1
SPECIFICATION ScreeningSpec
INVARIANT WholeList
