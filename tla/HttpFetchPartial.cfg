SPECIFICATION Spec
CONSTANTS
  MaxRetries = 2
  MaxPages = 2
CHECK_DEADLOCK FALSE
INVARIANT AllOrNothing
