SPECIFICATION Spec
CONSTANTS
  FractBits = 8
  IntBits = 3
  ChannelsNum = 1
  FrameSize = 7
  WindowLen = 4
  WindowInterp = 2
  OutSize = 4
  Scalings <- MC_SignScalings
  InitSincSteps <- MC_SincStepSet
  ScalingFirst = TRUE
INVARIANT CurrNextReadsInFrame
