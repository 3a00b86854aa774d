SPECIFICATION Spec
CONSTANTS
  MaxFailures = 2
CHECK_DEADLOCK FALSE
INVARIANT NoPrematureCancel
