\* One process, one redirect below the configured number and one above.
SPECIFICATION WorkspacesSpec
CONSTANTS
  Procs = {p1}
  Names = {n1, n2}
  Nil = Nil
  Fetchers = {p1}
  MaxRedirects = 1
  MaxBytes = 2
  Buffer = 2
  ProgressStep = 2
  RequestTimeout = 1
  Answers <- MCAnswers
  Policies <- MCPolicies
  AgeLimit = 3
  MaxFetches = 2
  Pause = 0
  Patience = 1
  MaxWrecks = 1
  Faults = {"io", "crash", "suspend"}
INVARIANT
  BudgetIsUsable
