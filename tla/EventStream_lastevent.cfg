CONSTANTS
    MaxLength = 6
    Cap = 20
SPECIFICATION Spec
INVARIANT LastEventKept
CHECK_DEADLOCK FALSE
