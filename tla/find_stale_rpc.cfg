SPECIFICATION Spec
CONSTANTS
  Regions = {1, 2, 3}
  Inputs <- MCInputs
  RepeatInputs <- MCRepeatInputs
  Outputs <- MCOutputs
  Fncode = 5
  UserImm = 0
  TransferCalls = {"do_data_transfer"}
  MaxCalls = 1
  KernelErrors = {0}
  Faults = {"close"}
  NaaFaults = {}
  AckFirst = TRUE
  ArmSeesPending = TRUE
INVARIANTS
  RpcOnArrivedData
CHECK_DEADLOCK FALSE
