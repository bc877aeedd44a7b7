SPECIFICATION LifeSpec
CONSTANTS
  Calls = {"c1", "c2"}
  Audited = TRUE
  t1 = t1
  t2 = t2
  WcTools = {t1}
  Versions = 2
  Plain <- MCPlain
  WcLimit = 5
  p1 = p1
  p2 = p2
  Processes = {p1, p2}
  Launcher = p1
  PfCalls = {"c1"}
  PcLabels = {"l1"}
  PcCalls = {"c1", "c2"}
  VerifiedFor = 1
  PcLimit = 1
  PcMaxNow = 2
INVARIANTS LifeTypeOK RunsOnlyApproved ResultStands HeldToConsent CheckMeansConsent NothingLeftBehind
PROPERTIES ImplementsTrail PfKeepsTrail PcImplementsGate RefusedForCause LifeEnds
CHECK_DEADLOCK FALSE
