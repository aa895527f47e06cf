CONSTANTS
  MaxMsgs = 2
  MaxPresses = 3
  JobsCap = 2
SPECIFICATION Spec
CHECK_DEADLOCK FALSE
INVARIANTS TypedOnce ClosesOnce
PROPERTY AllEnd
