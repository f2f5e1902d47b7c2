\* Two processes open an empty directory, no fault: the second listing of initialise.
SPECIFICATION StoreSpec
CONSTANTS
  p1 = p1  p2 = p2
  blank = blank  s1 = s1
  Unusable = Unusable  NoFile = NoFile  Nothing = Nothing
  Procs <- MCProcs
  States <- MCStates
  Blanks <- MCBlanks
  MaxGen = 3
  Attempts = 8
  Keep = 3
  Found <- EmptyDirectory
  Faults <- NoFaults
PROPERTY InitialiseBuriesNoCommit
