SPECIFICATION Spec
CONSTANTS
  Connections = {c1, c2, c3}
  c1 = c1
  c2 = c2
  c3 = c3
  NoConnection = NoConnection
  MaxConnections = 2
  PoolFaults = {"removal"}
SYMMETRY Alike
INVARIANTS
  RemovalGuarded
CHECK_DEADLOCK FALSE
