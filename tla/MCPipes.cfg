CONSTANTS
  PIPE_SIZE = 2
  ADD_PIPEL_SIZE = 1
  MULT_PIPEL_SIZE = 1
  MAX_ITERATIONS = 1
  Point <- MCPoint
  Origin <- MCOrigin
  FIFO_NODE_WORDS = 2
  FIFO_NODE_ALMOST_FULL = 1
SPECIFICATION FairSpec
INVARIANTS NodeFifoHeadroom UnloadReadsWords
PROPERTIES NodeProtocol EveryPixelDealt EveryFifoDrained
