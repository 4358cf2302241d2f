SPECIFICATION Spec
CONSTANTS
  Regions = {1, 2, 3}
  Inputs <- MCInputs
  RepeatInputs <- MCRepeatInputs
  Outputs <- MCOutputs
  Fncode = 5
  UserImm = 0
  TransferCalls = {"do_data_transfer", "poll_cq_busy"}
  MaxCalls = 3
  KernelErrors = {0}
  Faults = {"post_recv", "post_send", "host_timeout", "close"}
  NaaFaults = {"post_recv", "post_send", "mrsp", "removal", "cleanup"}
  AckFirst = FALSE
  ArmSeesPending = TRUE
INVARIANTS
  FinishedHasResults
  WritesInOrder
  HostErrorNotSuccess
PROPERTIES
  CompletionsRecorded
  RegionsQuietBetweenCalls
CHECK_DEADLOCK FALSE
