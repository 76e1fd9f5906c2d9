SPECIFICATION FairSpec
CONSTANTS
  Ports = {4001, 4002}
  FallbackPort = 4001
  BackoffLen = 2
  MaxFaults = 1
  Messages = {1, 2}
  Chats = {"x", "y"}
  Threads = {1}
  Slug = 1
  DedupCap = 1
  MaxEvents = 2
  QuietEvents = 3
INVARIANTS
  NotifiedOnce
  StateCoherent
PROPERTIES
  AtomicTransition
  ReachableAgain
CHECK_DEADLOCK FALSE
