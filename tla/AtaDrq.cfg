SPECIFICATION Spec
CONSTANTS
  WORDS = 2
  Counts = {0, 1, 2}
  ALL = 3
  MaxCalls = 2
INVARIANT DataOnlyWithDRQ
CHECK_DEADLOCK FALSE
