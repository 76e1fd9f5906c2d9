SPECIFICATION FairSpec
CONSTANTS
  t1 = t1
  d1 = d1
  Msgs = {}
  KindOf <- MCKindOf
  FaaMayBeDown = FALSE
  MaxChunks = 3
  MaxAcks = 0
  MaxCrashes = 1
  MaxExits = 1
  MaxAttaches = 0
INVARIANTS
  FlushComing
PROPERTIES
  OutputMirrored
  MirroredInOrder
CHECK_DEADLOCK FALSE
