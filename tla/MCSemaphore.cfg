CONSTANTS
  r1 = r1
  r2 = r2
  r3 = r3
  r4 = r4
  Requests <- MCRequests
  Size = 2
SPECIFICATION Spec
INVARIANTS
  TypeOK
  SlotsAccounted
  NoIdleSlot
  LineIsExact
PROPERTIES
  ImplementsLimit
  NobodyWaitsForever
