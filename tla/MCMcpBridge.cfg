SPECIFICATION FairSpec
CONSTANTS
  c1 = c1
  c2 = c2
  Calls = {c1, c2}
  Acking = TRUE
  MaxNotes = 2
  MediaNotes = {2}
  MaxTraffic = 3
INVARIANTS
  PendingHasWaiter
PROPERTIES
  NoteArrives
  ImplementsToolCall
CHECK_DEADLOCK FALSE
