SPECIFICATION Spec
CONSTANTS
  Connections = {c1, c2, c3}
  c1 = c1
  c2 = c2
  c3 = c3
  NoConnection = NoConnection
  MaxConnections = 2
  PoolFaults = {"resources"}
SYMMETRY Alike
INVARIANTS
  ServerSurvives
CHECK_DEADLOCK FALSE
