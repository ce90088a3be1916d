\* Block structure: sizes, resize deferral, allocation and encoder failures.
CONSTANTS
  ConfigSblen = 2
  ConfigRblen = 1
  EncoderInitStatuses = {"OK"}
  MaxBlockLength = 3
  SblenInputs <- MC_SblenInputs
  RblenInputs <- MC_RblenInputs
  PayloadSizes <- MC_PayloadSizes
  TsBits = 3
  SbnBits = 2
  SnBits = 2
  InitSbns = {3}
  InitSns = {3}
  StreamTimestamps = {0, 6}
  EncoderCanFail = TRUE
  AllocCanFail = TRUE
  RepairAllocCanFail = TRUE
  NULL = NULL

SPECIFICATION Spec

INVARIANT TypeOK
INVARIANT EncoderInSync
INVARIANT SymbolIdsInBlock
PROPERTY ImplementsFecBlockStream
PROPERTY BlockCompletes
INVARIANT MaxDurationObserved
