SPECIFICATION HistorySpec
CONSTANTS
  Labels = {a, b}
  Recorded = {a, b}
  Calls = {c1}
  MaxPassing = 1
  Fresh = 2
  ListLimit = 1
  PassLimit = 1
  MaxNow = 3
  ChangeMidRead = TRUE
PROPERTY OmittedIsRefused
CHECK_DEADLOCK FALSE
