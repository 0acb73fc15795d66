CONSTANTS
  id1 = id1
  c1 = c1
  NoID = NoID
  NoCookie = NoCookie
  ReqIDs <- MCReqIDs
  Cookies <- MCCookies
  Domains <- MCDomains
  Times = {1}
  EventCap = 1
  ChromeMayDie = TRUE
  MaxEvents = 1
SPECIFICATION Spec
CHECK_DEADLOCK FALSE
PROPERTY TimeoutBoundsScan
