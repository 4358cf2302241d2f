SPECIFICATION SystemFairSpec
CONSTANTS
  Connections = {c1, c2}
  c1 = c1
  c2 = c2
  NoConnection = NoConnection
  MaxConnections = 1
  PoolFaults = {}
  Host = c1
  HostFaults = {"resolve_route"}
  CleansUpFailed = TRUE
  RegistersFirst = FALSE
  MaxCleanups = 1
PROPERTIES
  SetupAlwaysReturns
CHECK_DEADLOCK FALSE
