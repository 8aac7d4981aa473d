CONSTANTS
  X_RESO = 3
  Y_RESO = 2
  WORD = 8
  RE_START = 5
  RE_DELTA = 2
  IM_START = 7
  IM_DELTA = 3
SPECIFICATION FairSpec
INVARIANT EveryPixelOnce
PROPERTIES OneWordPerGrant FrameEnds
