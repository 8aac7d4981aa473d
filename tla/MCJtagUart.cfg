SPECIFICATION Spec
CONSTANTS
  BUF_LEN = 3
  WRITE_DEPTH = 1
  WRITE_THRESHOLD = 0
  READ_DEPTH = 1
  INT_MAX = 4
  DEFAULT_TIMEOUT = 2
  Builds = {TRUE, FALSE}
  TickRates = {0, 1}
  Sizes = {1, 3}
  MaxChars = 4
  MaxPlug = 1
INVARIANT NeverStranded
PROPERTIES StreamsInOrder CallsReturn EverythingSent
CHECK_DEADLOCK FALSE
