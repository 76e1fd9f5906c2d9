SPECIFICATION FairSpec
CONSTANTS
  Pids = {p1, p2, p3}
  Names = {n1, n2}
  NoPid = NoPid
  NoName = NoName
INVARIANTS
  NoLeakedRow
PROPERTIES
  RoleRowKept
  DeadRowsReclaimed
CHECK_DEADLOCK FALSE
