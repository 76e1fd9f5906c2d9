SPECIFICATION FairSpec
CONSTANTS
  t1 = t1
  d1 = d1
  Msgs = {t1, d1}
  KindOf <- MCKindOf
  FaaMayBeDown = TRUE
  MaxChunks = 0
  MaxAcks = 2
  MaxCrashes = 0
  MaxExits = 0
  MaxAttaches = 1
INVARIANTS
  SettledOnce
  MediaTracked
PROPERTIES
  InboundSettles
CHECK_DEADLOCK FALSE
