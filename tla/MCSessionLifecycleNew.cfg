SPECIFICATION Spec
CONSTANTS
  c1 = c1
  c2 = c2
  m1 = m1
  m2 = m2
  m3 = m3
  n1 = n1
  n2 = n2
  name = name
  NoSid = NoSid
  NoChat = NoChat
  NoName = NoName
  NoCmd = NoCmd
  Sids = {s1, s2}
  Chats = {c1, c2}
  WorkspaceChats = {c1}
  Msgs = {}
  News = {n1, n2}
  ChatOf <- MCChatOf
  NewChat <- MCNewChat
  NameOf <- MCNameOf
  MaxSessions = 2
  MaxFaults = 1
  MaxOps = 2
  MaxRestarts = 1
SYMMETRY MCSymmetry
INVARIANTS
  SlotCoherent
  RolledBackClean
CHECK_DEADLOCK FALSE
