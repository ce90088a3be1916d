\* Constructor with n_source_packets = n_repair_packets = 0 (resize early return, line 81).
CONSTANTS
  ConfigSblen = 0
  ConfigRblen = 0
  EncoderInitStatuses = {"OK"}
  MaxBlockLength = 3
  SblenInputs <- MC_SblenInputs
  RblenInputs <- MC_RblenInputs
  PayloadSizes <- MC_PayloadSizes
  TsBits = 3
  SbnBits = 2
  SnBits = 2
  InitSbns = {3}
  InitSns = {3}
  StreamTimestamps = {0}
  EncoderCanFail = TRUE
  AllocCanFail = TRUE
  RepairAllocCanFail = TRUE
  NULL = NULL

SPECIFICATION Spec

INVARIANT SymbolIdsInBlock
