SPECIFICATION FairSpec
CONSTANTS
  Invite = {i1, i2}
  AgentConn = {c1, c2}
  Cred = {}
  Task = {t1}
  NoInvite = NoInvite
  NoConn = NoConn
  NoEvent = NoEvent
  PinLimit = 2
  PinTries = 2
  Reports = {1}
  Origins = {"sender"}
  Faults = {"drop"}
  MaxAttempts = 2
PROPERTIES
  CompletionIsNoticed
CHECK_DEADLOCK FALSE
