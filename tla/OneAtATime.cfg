SPECIFICATION Spec
CONSTANTS
  Invite = {i1, i2}
  AgentConn = {c1, c2}
  Cred = {k1, k2}
  Task = {t1}
  NoInvite = NoInvite
  NoConn = NoConn
  NoEvent = NoEvent
  PinLimit = 2
  PinTries = 2
  Reports = {1}
  Origins = {"sender"}
  Faults = {}
  MaxAttempts = 2
SYMMETRY Interchangeable
INVARIANTS
  CurrentEvidence
  BothSidesVerified
  OneOpenInvite
PROPERTIES
  StatusMoves
CHECK_DEADLOCK FALSE
