CONSTANTS
  IntHalf = 8
  Inputs <- EmptyInputs
SPECIFICATION Spec
INVARIANT ReturnsAllMatching
CHECK_DEADLOCK FALSE
