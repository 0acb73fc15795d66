CONSTANTS
  r1 = r1
  r2 = r2
  Requests <- MCPair
  Limited = TRUE
  Size = 1
  Disabled = {}
  MailConfigured = TRUE
  ChromeMayDie = TRUE
  OrphanCap = 1
SPECIFICATION Spec
CHECK_DEADLOCK FALSE
INVARIANTS
  OneAnswer
  ScansWithinMax
  NothingLeftBehind
  LineWaitsForOwners
PROPERTIES
  EveryRequestEnds
