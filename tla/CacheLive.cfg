\* Two instances, weak fairness of their work: every operation returns, a staged launch settles.
SPECIFICATION FairCacheSpec
CONSTANTS
  p1 = p1  p2 = p2  k1 = k1  k2 = k2
  Unusable = Unusable  NoFile = NoFile  Nothing = Nothing  NoEntry = NoEntry  None = None
  States <- CacheState
  Blanks <- MCBlanks
  Procs <- TwoInstances
  Versions <- TwoVersions
  Keys <- OneKey
  KeyOf <- SameKey
  MaxGen = 3
  Attempts = 1
  Keep = 1
  MaxCas = 2
  Found <- EmptyOrUnusable
  Faults <- NoFaults
PROPERTIES
  OperationsReturn
  StagedLaunchSettles
