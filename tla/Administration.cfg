SPECIFICATION LifeSpec
CONSTANTS
  Server = {s1, s2}
  Init1 = {i1}
  Id = {a, b, c, d}
  GivenId = g
  Policies <- SomePolicies
  Setting = {email}
  MaxStarts = 2
  StartFaults = {"crash", "fail"}
  Company = {c1}
  ResetFaults = {"fail"}
INVARIANTS
  LifeTypeOK
  SameRecords
  SettingsThere
  ResetIsTrue
  ResetSucceeds
PROPERTIES
  EditsStay
SYMMETRY LifeAlike
CHECK_DEADLOCK FALSE
