CONSTANTS
  PrintsPDF = TRUE
  ChromeMayDie = TRUE
  EventCap = 2
  MaxEvents = 4
SPECIFICATION Spec
CHECK_DEADLOCK FALSE
INVARIANTS
  QueueClosedOnce
  ReplyReachesCaller
  ReadersCanEnd
PROPERTIES
  ReadersEnd
  CleanupEnds
