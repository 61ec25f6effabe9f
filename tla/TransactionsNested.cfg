SPECIFICATION Spec
CONSTANTS
  c1 = c1
  c2 = c2
  k1 = k1
  k2 = k2
  Conns = {c1}
  Keys = {k1, k2}
  UniqueKeys = {k1}
  Programs <- MCNested
  Throwables = {"exception"}
  None = None
  MaxWrites = 1
  MaxDepth = 2
  MaxThrows = 1
  MaxFaults = 0
INVARIANTS AllOrNothing
CHECK_DEADLOCK FALSE
