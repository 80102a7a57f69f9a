SPECIFICATION EventFairSpec
CONSTANTS
  c = c
  x = x
  d = d
  Connections = {c}
  Credentials = {x}
  Unlisted = {}
  MaxRetry = 1
  MaxVersion <- TwoOfOne
  MaxCloses = 1
  MaxFailures = 2
INVARIANTS
  EventTypeOK
  

  
CHECK_DEADLOCK FALSE
