SPECIFICATION Spec
CONSTANTS
  Connections = {c1, c2, c3}
  c1 = c1
  c2 = c2
  c3 = c3
  NoConnection = NoConnection
  MaxConnections = 2
  PoolFaults = {"worker_memory", "resources", "accept", "connect", "thread", "announcement", "cleanup", "removal"}
SYMMETRY Alike
INVARIANTS
  TypeOK
  SlotOwnership
  ContextsInPlace
CHECK_DEADLOCK FALSE
