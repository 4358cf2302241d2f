SPECIFICATION FairSpec
CONSTANTS
  Regions = {1, 2, 3}
  Inputs <- MCInputs
  RepeatInputs <- MCRepeatInputs
  Outputs <- MCOutputs
  Fncode = 5
  UserImm = 7
  TransferCalls = {"do_data_transfer", "poll_cq_busy"}
  MaxCalls = 3
  KernelErrors = {0}
  Faults = {}
  NaaFaults = {}
  AckFirst = TRUE
  ArmSeesPending = TRUE
INVARIANTS
  TypeOK
  KernelSeesItsCall
  ReceivesBounded
PROPERTIES
  InputsQuietDuringRpc
  CallsReturn
  MrspCompletes
  ExactlyOnce
CHECK_DEADLOCK FALSE
