SPECIFICATION PagesFairSpec
CONSTANTS
  Tab = {t1, t2}
  Searcher = {t1}
  Path = {root, form}
  Root = root
  NoPath = NoPath
  RedirectPath = redirect
  MaxRound = 4
  MaxMishaps = 1
INVARIANTS
  PagesTypeOK
  EndsWhereItBegan
  EveryRegistryIsAsked
  NationalFirst

  
