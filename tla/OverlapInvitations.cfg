SPECIFICATION Spec
CONSTANTS
  Invite = {i1, i2}
  AgentConn = {c1, c2}
  Cred = {}
  Task = {t1, t2}
  NoInvite = NoInvite
  NoConn = NoConn
  NoEvent = NoEvent
  PinLimit = 2
  PinTries = 2
  Reports = {1}
  Origins = {"sender", "receiver"}
  Faults = {"fail", "drop", "crash"}
  MaxAttempts = 2
SYMMETRY Interchangeable
INVARIANTS
  BoundToOwnInvite
  NoOpenInviteOnceConnected
  
CHECK_DEADLOCK FALSE
