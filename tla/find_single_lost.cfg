SPECIFICATION Spec
CONSTANTS
  Regions = {1, 2, 3}
  Inputs <- MCInputs
  RepeatInputs <- MCRepeatInputs
  Outputs <- MCOutputs
  Fncode = 5
  UserImm = 0
  TransferCalls = {"do_data_transfer"}
  MaxCalls = 2
  KernelErrors = {0}
  Faults = {"post_send", "host_timeout", "retry"}
  NaaFaults = {}
  AckFirst = TRUE
  ArmSeesPending = TRUE
INVARIANTS
  SingleSendWritten
CHECK_DEADLOCK FALSE
