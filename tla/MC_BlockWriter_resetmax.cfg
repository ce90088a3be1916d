\* max_block_duration() after resize(), against the comment at block_writer.cpp:111.
CONSTANTS
  ConfigSblen = 1
  ConfigRblen = 0
  EncoderInitStatuses = {"OK"}
  MaxBlockLength = 3
  SblenInputs = {1}
  RblenInputs = {0, 1}
  PayloadSizes = {1}
  TsBits = 3
  SbnBits = 2
  SnBits = 2
  InitSbns = {0}
  InitSns = {0}
  StreamTimestamps <- MC_AllTimestamps
  EncoderCanFail = FALSE
  AllocCanFail = FALSE
  RepairAllocCanFail = FALSE
  NULL = NULL

SPECIFICATION Spec

INVARIANT MaxDurationSinceResize
