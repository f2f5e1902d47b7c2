\* Two instances, three versions, the key rotated in the third; every interleaving, no fault.
SPECIFICATION CacheSpec
CONSTANTS
  p1 = p1  p2 = p2  k1 = k1  k2 = k2
  Unusable = Unusable  NoFile = NoFile  Nothing = Nothing  NoEntry = NoEntry  None = None
  States <- CacheState
  Blanks <- MCBlanks
  Procs <- TwoInstances
  Versions <- ThreeVersions
  Keys <- TwoKeys
  KeyOf <- LateRotation
  MaxGen = 3
  Attempts = 1
  Keep = 1
  MaxCas = 1
  Found <- EmptyDirectory
  Faults <- NoFaults
INVARIANTS
  CacheTypeOK
  ActiveWasRunning
  ServedIsSound
PROPERTY
  RegisterSpec
SYMMETRY ProcSymmetry
