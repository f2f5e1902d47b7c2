\* Two processes, every fault, time.
SPECIFICATION FairWorkspacesSpec
CONSTANTS
  Procs = {p1, p2}
  Names = {n1, n2, n3}
  Nil = Nil
  Fetchers = {p1}
  MaxRedirects = 2
  MaxBytes = 2
  Buffer = 2
  ProgressStep = 2
  RequestTimeout = 1
  Answers <- MCAnswers
  Policies <- MCPolicies
  AgeLimit = 3
  MaxFetches = 2
  Pause = 0
  Patience = 1
  MaxWrecks = 1
  Faults = {"io", "crash", "suspend"}
INVARIANTS
  WorkspacesTypeOK
  LiveIsKept
  FetchedIsWhole
  DiskBounded
  HttpsIsKept
  ProgressIsTrue
PROPERTIES
  FetchEnds
