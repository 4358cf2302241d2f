SPECIFICATION Spec
CONSTANTS
  Regions = {1, 2, 3}
  Inputs <- MCInputs
  RepeatInputs <- MCRepeatInputs
  Outputs <- MCOutputs
  Fncode = 5
  UserImm = 0
  TransferCalls = {"naa_wait"}
  MaxCalls = 2
  KernelErrors = {0}
  Faults = {}
  NaaFaults = {}
  AckFirst = TRUE
  ArmSeesPending = TRUE
INVARIANTS
  WaitReturnsResults
CHECK_DEADLOCK FALSE
