SPECIFICATION FairSpec
CONSTANTS
  Ports = {4001}
  FallbackPort = 4001
  BackoffLen = 1
  MaxFaults = 1
  PageSize = 2
  PoolSize = 2
  PollChat = TRUE
  Loads <- SmallLoads
INVARIANTS
  AppliedOnceInOrder
  AckedMeansDone
  PolledInOrder
PROPERTIES
  DirectiveAnswered
CHECK_DEADLOCK FALSE
