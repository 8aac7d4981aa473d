CONSTANTS
  Node <- MCNode
  ADD_PIPEL_SIZE = 2
  MULT_PIPEL_SIZE = 1
  Mult_pipeline = 1
  Add_Sub_pipeline = 2
  MAX_ITERATIONS = 3
  Point <- MCPoint
  Origin <- MCOrigin
SPECIFICATION PathSpec
INVARIANTS OwnConstant
