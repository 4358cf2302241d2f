SPECIFICATION SessionSpec
CONSTANTS
  Contexts = {h1, h2}
  h1 = h1
  h2 = h2
  Blocks = {b1, b2}
  b1 = b1
  b2 = b2
  Size <- MCSize
  Internal <- MCInternal
  UserBytes = {7}
  MaxRpcCalls = 2
  SetupFaults = {}
  Ap1Params <- MCAp1Params
  Ap1Fncodes = {5, 133}
  JobSpec <- MCJobSpec
  NoHandle = NoHandle
  MaxParams = 2
INVARIANT
  CallsWrite
CHECK_DEADLOCK FALSE
