SPECIFICATION Spec
CONSTANTS
  Regions = {1, 2, 3}
  Inputs <- MCInputs
  RepeatInputs <- MCRepeatInputs
  Outputs <- MCOutputs
  Fncode = 5
  UserImm = 0
  TransferCalls = {"do_data_transfer"}
  MaxCalls = 2
  KernelErrors = {0}
  Faults = {}
  NaaFaults = {}
  AckFirst = FALSE
  ArmSeesPending = TRUE
INVARIANTS
  NobodyGivesUp
CHECK_DEADLOCK FALSE
