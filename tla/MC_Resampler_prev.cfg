SPECIFICATION Spec
CONSTANTS
  FractBits = 8
  IntBits = 5
  ChannelsNum = 1
  FrameSize = 6
  WindowLen = 2
  WindowInterp = 4
  OutSize = 4
  Scalings <- MC_Scalings
  InitSincSteps <- MC_SincStepSet
  ScalingFirst = TRUE
INVARIANT PrevReadsInFrame
