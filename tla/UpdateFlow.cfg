\* One update: every fault, manifests and hosts that depart from the honest ones.
SPECIFICATION FlowSpec
CONSTANTS
  a1 = a1  a2 = a2  x = x  t1 = t1  t2 = t2  tx = tx
  Nil = Nil  Legacy = Legacy  Malformed = Malformed
  Bytes <- MCBytes
  Tars <- MCTars
  SizeOf <- MCSizeOf
  TarOf <- MCTarOf
  MaxTarget = 8
  MaxTar = 8
  Documents <- MCDocuments
  Hosts <- MCHosts
  Faults <- EveryFault
INVARIANTS
  FlowTypeOK
  InstalledIsRelease
  DeltaNeverFatal
  PatchOverItsBase
  NoRelabelling
  WorkBounded
  OutcomeNamesPath
PROPERTY
  NoSecondAttempt
CHECK_DEADLOCK FALSE
