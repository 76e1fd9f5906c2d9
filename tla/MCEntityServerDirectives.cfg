SPECIFICATION FairSpec
CONSTANTS
  e1 = e1
  e2 = e2
  e3 = e3
  e4 = e4
  k1 = k1
  k2 = k2
  NEvents = 1
  Events <- MCEvents
  Keys = {k1, k2}
  NoKey = NoKey
  KeyOf <- MCKeyOf
  Reqs = {r1}
  NoCall = NoCall
  ActionLists <- MCActionLists
  DedupLimit = 1
  PauseLimit = 1
  MaxAcks = 1
  MaxToggles = 2
  MaxCrashes = 1
INVARIANTS
  ToolAnsweredOnce
  DirectivesTracked
  NoUnrecordedEmit
PROPERTIES
  EventEventuallySettled
  ToolEventuallyAnswered
CHECK_DEADLOCK FALSE
