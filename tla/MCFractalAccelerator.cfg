CONSTANTS
  PIPE_SIZE = 1
  ADD_PIPEL_SIZE = 1
  MULT_PIPEL_SIZE = 1
  MAX_ITERATIONS = 1
  Point <- MCPoint
  Origin <- MCOrigin
  FIFO_NODE_WORDS = 2
  FIFO_NODE_ALMOST_FULL = 1
  FIFO_IN_WORDS = 2
  FIFO_IN_ALMOST_FULL = 1
  FIFO_OUT_WORDS = 3
  FIFO_OUT_ALMOST_FULL = 1
SPECIFICATION FairSpec
INVARIANTS FetchFindsPixel FifoOutNoOverflow
PROPERTIES ExactlyOnce Delivery
