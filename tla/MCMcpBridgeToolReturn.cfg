SPECIFICATION FairSpec
CONSTANTS
  c1 = c1
  c2 = c2
  Calls = {c1}
  Acking = FALSE
  MaxNotes = 2
  MediaNotes = {2}
  MaxTraffic = 3
PROPERTIES
  ToolCallReturns
CHECK_DEADLOCK FALSE
