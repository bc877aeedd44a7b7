SPECIFICATION Spec
CONSTANTS
  t = t
  u = u
  Tools = {t, u}
  Listed = {t}
  Pinned = {t}
  HasRecord = TRUE
  AllowMode = TRUE
  Ids = {i1, i2}
  Kinds = {"call", "list", "discover"}
  Pages = 1
  PageOf <- OnePage
  Repeats <- ChangedBefore
  MaxEvents = 2
  LateAnswers = TRUE
INVARIANTS TypeOK NothingHiddenShown EveryAnswerTracked
CHECK_DEADLOCK FALSE
