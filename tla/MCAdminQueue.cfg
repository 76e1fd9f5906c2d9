SPECIFICATION FairSpec
CONSTANTS
  NoCmd = NoCmd
  Cmds = {c1}
  Malformed = {}
  Refs = {r1,r2}
  MaxCrashes = 2
INVARIANTS
  OneOutcome
  NoLostCommand
PROPERTIES
  PendingPickedUp
  CommandSettles
CHECK_DEADLOCK FALSE
