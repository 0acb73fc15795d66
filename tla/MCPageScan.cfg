CONSTANTS
  id1 = id1
  c1 = c1
  NoID = NoID
  NoCookie = NoCookie
  ReqIDs <- MCReqIDs
  Cookies <- MCCookies
  Domains <- MCDomains
  Times = {1}
  EventCap = 2
  ChromeMayDie = TRUE
  MaxEvents = 3
SPECIFICATION Spec
CHECK_DEADLOCK FALSE
INVARIANTS
  TypeOK
  NoEventLost
  LoadWakeSeesEarlierTraffic
  EarlyCookiesAttributed
