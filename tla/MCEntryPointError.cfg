CONSTANTS
  v1 = v1
  v2 = v2
  v3 = v3
  Requests <- MCJSON
  RenderMayFail = TRUE
  Visitors <- MCVisitors
  ChromeMayDie = FALSE
SPECIFICATION Spec
CHECK_DEADLOCK FALSE
INVARIANT FailedReportIsError
