SPECIFICATION Spec
CONSTANTS
  Calls = {c1}
  MaxChunks = 1
  HasDeadline = TRUE
INVARIANT RefusalIsNoSuccess
CHECK_DEADLOCK FALSE
