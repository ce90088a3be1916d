SPECIFICATION FairSpec
CONSTANTS
  FractBits = 8
  IntBits = 5
  ChannelsNum = 2
  FrameSize = 12
  WindowLen = 2
  WindowInterp = 4
  OutSize = 8
  Scalings <- MC_Scalings
  InitSincSteps <- MC_SincStepSet
  ScalingFirst = TRUE
INVARIANT TypeOK
 
INVARIANT SincReadsInTable
INVARIANT OutputResumes
PROPERTY FramesKeepCompleting
