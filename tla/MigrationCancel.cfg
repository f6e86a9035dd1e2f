CONSTANTS
  Plan = {p1, p2}
  MaxConcurrent = 1
SPECIFICATION Spec
CHECK_DEADLOCK FALSE
INVARIANT CancelIsFinal
