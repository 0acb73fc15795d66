CONSTANTS
  id1 = id1
  id2 = id2
  p1 = p1
  NoID = NoID
  ReqIDs <- MCReqIDs
  Params <- MCParams
  Times = {1, 2, 3}
  MaxEvents = 3
SPECIFICATION LockSpec
INVARIANTS
  LockTypeOK
  Chronological
  EveryEventOnce
  SnapshotIsConsistentCut
PROPERTY ImplementsCollector
