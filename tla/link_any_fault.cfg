SPECIFICATION Spec
CONSTANTS
  Regions = {1, 2, 3}
  Inputs <- MCInputs
  RepeatInputs <- MCRepeatInputs
  Outputs <- MCOutputs
  Fncode = 5
  UserImm = 0
  TransferCalls = {"do_data_transfer", "naa_wait"}
  MaxCalls = 2
  KernelErrors = {3}
  Faults = {"post_send", "host_timeout", "retry", "close"}
  NaaFaults = {"naa_timeout", "removal"}
  AckFirst = FALSE
  ArmSeesPending = FALSE
INVARIANTS
  TransferTally
CHECK_DEADLOCK FALSE
