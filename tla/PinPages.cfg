SPECIFICATION PinFairSpec
CONSTANTS
  Page = {p1, p2}
  Cred = {k1, k2, k3}
  NoCred = NoCred
  PinLimit = 2
  PinTries = 2
  NoTries = NoTries

  
  
  
PROPERTIES
  FormsAreAnswered
CHECK_DEADLOCK FALSE
