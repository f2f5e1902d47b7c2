\* One key, prune(3); stagings end within the grace period, yet a collection takes the blob of one that stored its bytes earlier.
SPECIFICATION CacheSpec
CONSTANTS
  p1 = p1  p2 = p2  k1 = k1  k2 = k2
  Unusable = Unusable  NoFile = NoFile  Nothing = Nothing  NoEntry = NoEntry  None = None
  States <- CacheState
  Blanks <- MCBlanks
  Procs <- TwoInstances
  Versions <- TwoVersions
  Keys <- OneKey
  KeyOf <- SameKey
  MaxGen = 6
  Attempts = 8
  Keep = 3
  MaxCas = 64
  Found <- EmptyState
  Faults <- Time
PROPERTY
  CommittedBlobStored
