SPECIFICATION FairSpec
CONSTANTS
  Regions = {1, 2, 3}
  Inputs <- MCInputs
  RepeatInputs <- MCRepeatInputs
  Outputs <- MCOutputs
  Fncode = 5
  UserImm = 0
  TransferCalls = {"do_data_transfer"}
  MaxCalls = 3
  KernelErrors = {3}
  Faults = {}
  NaaFaults = {}
  AckFirst = TRUE
  ArmSeesPending = TRUE
PROPERTIES
  ServesAgain
CHECK_DEADLOCK FALSE
