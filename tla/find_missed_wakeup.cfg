SPECIFICATION FairSpec
CONSTANTS
  Regions = {1, 2, 3}
  Inputs <- MCInputs
  RepeatInputs <- MCRepeatInputs
  Outputs <- MCOutputs
  Fncode = 5
  UserImm = 0
  TransferCalls = {"do_data_transfer"}
  MaxCalls = 1
  KernelErrors = {0}
  Faults = {}
  NaaFaults = {}
  AckFirst = TRUE
  ArmSeesPending = FALSE
PROPERTIES
  MrspCompletes
CHECK_DEADLOCK FALSE
