SPECIFICATION DecisionSpec
CONSTANTS
  Expansions <- MCExpansions
  Prefixed <- MCPrefixed
  Baseline <- MCBaseline
  Configs <- MCConfigs
  Callers <- MCCallers
  Asks <- MCAsks
  Policies <- MCPolicies
  Identities <- MCIdentities
  Servers <- MCServers
  AccessCalls <- MCAccessCalls
  BaseScopes <- MCBaseScopes
  MailDomain <- MCMailDomain
  Documents <- MCDocuments
  Requests <- MCRequests
  SpecPath <- MCSpecPath
  OaCalls <- MCOaCalls
  MaxLength = 6
  Cap = 4
INVARIANT SameAccessDecisions
CHECK_DEADLOCK FALSE
