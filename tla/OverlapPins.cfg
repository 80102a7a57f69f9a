SPECIFICATION Spec
CONSTANTS
  Invite = {i1}
  AgentConn = {c1}
  Cred = {k1, k2}
  Task = {t1, t2}
  NoInvite = NoInvite
  NoConn = NoConn
  NoEvent = NoEvent
  PinLimit = 2
  PinTries = 2
  Reports = {1}
  Origins = {"sender"}
  Faults = {"fail", "crash"}
  MaxAttempts = 2
SYMMETRY Interchangeable
INVARIANTS
  TypeOK
  VerifiedOnEvidence
  EvidenceInv
  
CHECK_DEADLOCK FALSE
