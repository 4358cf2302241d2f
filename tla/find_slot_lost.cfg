SPECIFICATION Spec
CONSTANTS
  Connections = {c1, c2, c3}
  c1 = c1
  c2 = c2
  c3 = c3
  NoConnection = NoConnection
  MaxConnections = 2
  PoolFaults = {"connect"}
SYMMETRY Alike
INVARIANTS
  RejectsOnlyWhenFull
CHECK_DEADLOCK FALSE
