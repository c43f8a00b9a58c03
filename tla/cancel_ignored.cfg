SPECIFICATION Spec
CONSTANTS
  MaxRuns = 2
  MaxStack = 2
CHECK_DEADLOCK FALSE
PROPERTIES CancelIgnoresLater
