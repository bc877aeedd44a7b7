SPECIFICATION LiveSpec
CONSTANTS
  t = t
  u = u
  Tools = {t, u}
  Listed = {t, u}
  Pinned = {t, u}
  HasRecord = TRUE
  AllowMode = TRUE
  Ids = {i1, i2}
  Kinds = {"call", "list"}
  Pages = 2
  PageOf <- TwoPages
  Repeats = {}
  MaxEvents = 1
  LateAnswers = FALSE
PROPERTIES ForwardedAsApproved HeldCallsSettle
INVARIANT RefusedNeverSent
CHECK_DEADLOCK FALSE
