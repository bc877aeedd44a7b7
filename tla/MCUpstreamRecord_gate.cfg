SPECIFICATION Spec
CONSTANTS
  Labels = {a, b}
  Recorded = {a, b}
  Calls = {c1}
  MaxPassing = 1
  Fresh = 1
  ListLimit = 1
  PassLimit = 1
  MaxNow = 2
  ChangeMidRead = TRUE
INVARIANT TrustIsRecent
PROPERTY ImplementsGate
CHECK_DEADLOCK FALSE
SYMMETRY LabelSymmetry
