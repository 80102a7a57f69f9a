SPECIFICATION QuerySpec
CONSTANTS
  Query = {q0, q1, q2}
  Root = {q0}
  NoQuery = NoQuery
  Call = {r1, r2, r3, r4}
  NoCall = NoCall
  Value = {1}
  NoAnswer = NoAnswer
  Tabs = 1
  Faults = {}
INVARIANTS
  ParentResponds
CHECK_DEADLOCK FALSE
