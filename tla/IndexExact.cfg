CONSTANTS
  Files <- MCFiles
  Capacity = 3
  Half = 4
SPECIFICATION Spec
INVARIANT TypeOK
INVARIANT IndexExact
CHECK_DEADLOCK FALSE
