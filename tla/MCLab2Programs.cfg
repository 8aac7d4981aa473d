SPECIFICATION Spec
CONSTANTS
  RowWords = 8
  Params <- MCParams
  Versions = {1, 2}
  Positions = {0, 5, 11}
  Rows = 5
  Scene <- MCScene
  Leftovers = {"yellow"}
  BlockHalf = 1
  BlockTop = 1
  BlockBottom = 3
  LeftEnd = 3
  RightEnd = 9
  MeanRow = 2
  Height = 4
  Boot = 6
  MaxRuns = 3
  XRes = 4
  YRes = 3
  WiderX = 8
  ColorModes = {1, 2, 4}
  Buffers = {0, 100}
  CharXRes = 3
  CharYRes = 2
  CharRow = 4
  Xs <- MCXs
  Ys <- MCYs
  MaxText = 4
  HeapStart = 4
  HeapLimit = 20
  Increments <- MCIncrements
  StackPointers = {12, 18, 24}
  US = 12
  Rates = {3, 4, 6}
  Width32 = 64
  MaxTicks = 20
  TimesSet <- MCTimesSet
  INT_MAX = 15
  CpuMHz = 14
  cycles_per_loop = 3
  NoLine = NoLine
  LineWords = 2
  DLines = 2
  ILines = 2
  MemLines = 4
  Ranges <- MCRanges
  Sections <- MCSections
INVARIANTS NoGhosts RunsOneVersion DrawnAsAsked OwnMemory ReadsAsSet SleepsAsAsked FreshCode
PROPERTIES RunsAsTold
