SPECIFICATION SystemSpec
CONSTANTS
  Connections = {c1, c2}
  c1 = c1
  c2 = c2
  NoConnection = NoConnection
  MaxConnections = 1
  PoolFaults = {"worker_memory", "accept", "connect"}
  Host = c1
  HostFaults = {"addr", "route", "removal", "registration", "crash", "resolve_route", "resources", "connect_call"}
  CleansUpFailed = TRUE
  RegistersFirst = FALSE
  MaxCleanups = 2
INVARIANTS
  CleanupSurvives
CHECK_DEADLOCK FALSE
