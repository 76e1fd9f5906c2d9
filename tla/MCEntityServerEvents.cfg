SPECIFICATION Spec
CONSTANTS
  e1 = e1
  e2 = e2
  e3 = e3
  e4 = e4
  k1 = k1
  k2 = k2
  NEvents = 3
  Events <- MCEvents
  Keys = {k1, k2}
  NoKey = NoKey
  KeyOf <- MCKeyOf
  Reqs = {}
  NoCall = NoCall
  ActionLists <- MCNoActions
  DedupLimit = 1
  PauseLimit = 1
  MaxAcks = 0
  MaxToggles = 2
  MaxCrashes = 0
INVARIANTS
  TypeOK
  DedupWindow
  DedupConsistent
  NoSilentLoss
PROPERTIES
  NoLostUpdate
CHECK_DEADLOCK FALSE
