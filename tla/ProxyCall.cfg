SPECIFICATION LiveSpec
CONSTANTS
  Calls = {c1}
  MaxChunks = 3
  HasDeadline = TRUE
INVARIANTS TypeOK SuccessMeansWhole AnswerAndAuditAgree
PROPERTIES ImplementsTrail EveryAttemptEnds
CHECK_DEADLOCK FALSE
