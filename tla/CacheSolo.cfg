\* One instance at a time with every fault: crash, I/O error, disk damage, slow staging, other installers.
SPECIFICATION CacheSpec
CONSTANTS
  p1 = p1  p2 = p2  k1 = k1  k2 = k2
  Unusable = Unusable  NoFile = NoFile  Nothing = Nothing  NoEntry = NoEntry  None = None
  States <- CacheState
  Blanks <- MCBlanks
  Procs <- OneInstance
  Versions <- TwoVersions
  Keys <- OneKey
  KeyOf <- SameKey
  MaxGen = 3
  Attempts = 2
  Keep = 3
  MaxCas = 2
  Found <- EmptyOrUnusable
  Faults <- EveryFault
INVARIANTS
  ActiveWasRunning
  LiveBlobsStored
