CONSTANTS
  v1 = v1
  v2 = v2
  v3 = v3
  Requests <- MCRequests
  RenderMayFail = TRUE
  Visitors <- MCVisitors
  ChromeMayDie = TRUE
SPECIFICATION Spec
CHECK_DEADLOCK FALSE
INVARIANTS
  SuccessMeansOutput
  NothingLeftBehind
  OneVerdict
  AnsweredAfterCleanup
PROPERTIES
  CommandEnds
  EveryVisitAnswered
