CONSTANTS
  c1 = c1
  c2 = c2
  k = k
  exec = exec
  d = d
  NoDir = NoDir
  Requests = {1, 2}
  Calls <- AllCalls
  Keys <- OneKey
  Tools <- OneTool
  Patches <- OnePatch
  Others = {1}
  DefaultOther = 0
  ToolOf <- ToolsOf
  KeyOf <- KeysOf
  DirOf <- DirsOf
  Declared <- OnDemand
  Resolved <- AnyResolved
  Blacklisted = {}
SPECIFICATION FairConsentSpec
CHECK_DEADLOCK FALSE
INVARIANTS
  RunsWithConsent
  RefusedWithReason
  CardsMatch
  UpdatesDurable
PROPERTIES
  RestartRestores
  CallReturns
