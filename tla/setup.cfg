SPECIFICATION SystemFairSpec
CONSTANTS
  Connections = {c1, c2}
  c1 = c1
  c2 = c2
  NoConnection = NoConnection
  MaxConnections = 1
  PoolFaults = {"worker_memory", "resources", "accept", "connect", "announcement"}
  Host = c1
  HostFaults = {"addr", "route", "removal", "registration", "crash", "resolve_route", "resources", "connect_call"}
  CleansUpFailed = TRUE
  RegistersFirst = TRUE
  MaxCleanups = 2
INVARIANTS
  SystemTypeOK
  SetupMeansServed
  DependenciesLive
  ReleasesLive
  CleanupComplete
  ConnectedSurvives
PROPERTIES
  SetupReturns
  SlotsComeBack
CHECK_DEADLOCK FALSE
