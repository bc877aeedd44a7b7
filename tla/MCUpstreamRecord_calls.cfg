SPECIFICATION LiveSpec
CONSTANTS
  Labels = {a, u}
  Recorded = {a}
  Calls = {c1, c2}
  MaxPassing = 0
  Fresh = 1
  ListLimit = 1
  PassLimit = 1
  MaxNow = 2
  ChangeMidRead = TRUE
INVARIANT TypeOK
PROPERTY EveryCallAnswered
CHECK_DEADLOCK FALSE
