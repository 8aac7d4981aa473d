CONSTANTS
  ADDRESSES = 2
  Point <- MCPoint
  Origin = 0
  FIFO_OUT_WORDS = 1
  Zero = Zero
  White = White
  Unknown = Unknown
SPECIFICATION FairSpec
INVARIANTS ScreenTrue LossOnlyByCut
PROPERTIES ScreenCleared
