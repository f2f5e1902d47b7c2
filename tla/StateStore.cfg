\* Two processes, every kind of first file, faults of I/O and of the disk.
SPECIFICATION StoreSpec
CONSTANTS
  p1 = p1  p2 = p2
  blank = blank  s1 = s1
  Unusable = Unusable  NoFile = NoFile  Nothing = Nothing
  Procs <- MCProcs
  States <- MCStates
  Blanks <- MCBlanks
  MaxGen = 3
  Attempts = 2
  Keep = 1
  Found <- EveryStart
  Faults <- StoreFaults
INVARIANTS
  StoreTypeOK
  ConflictsArePaidFor
  HeldIsCurrentOrPast
PROPERTIES
  CurrentOnlySuperseded
  HeadCommitReadHead
SYMMETRY ProcSymmetry
