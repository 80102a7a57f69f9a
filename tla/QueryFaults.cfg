SPECIFICATION QuerySpec
CONSTANTS
  Query = {q0, q1}
  Root = {q0}
  NoQuery = NoQuery
  Call = {r1, r2}
  NoCall = NoCall
  Value = {1}
  NoAnswer = NoAnswer
  Tabs = 1
  Faults = {"fail", "lost", "crash", "stale", "hangup"}
SYMMETRY Alike
INVARIANTS
  AnswersArrive
PROPERTIES
  KeepsPromise
CHECK_DEADLOCK FALSE
