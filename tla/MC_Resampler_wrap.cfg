SPECIFICATION Spec
CONSTANTS
  FractBits = 8
  IntBits = 3
  ChannelsNum = 1
  FrameSize = 7
  WindowLen = 1
  WindowInterp = 4
  OutSize = 4
  Scalings <- MC_WrapScalings
  InitSincSteps <- MC_SincStepSet
  ScalingFirst = TRUE
INVARIANT PhaseContinuity
