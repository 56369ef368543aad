CONSTANTS
  Addresses = {a, b, c}
  None = None
  MaxStarts = 2
SPECIFICATION Spec
INVARIANT ServingIsRegistered
CHECK_DEADLOCK FALSE
