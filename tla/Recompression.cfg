\* Every archive of up to two entries, from every source, whole or damaged.
SPECIFICATION RecompressionSpec
CONSTANTS
  Block = 3
  CopyChunk = 4
  Trailer = 6
  Limits = {12, 40}
  MaxTarBytes = 21
  Cases <- MCCases
  Claims = {0, 1, 2}
  Faults = {"io"}
  NotOctal = NotOctal
  Zeros = Zeros
  None = None
INVARIANTS
  RecompressionTypeOK
  ReplayedAsWritten
  IntactIsReplayed
  TarBounded
  TarWholeOrGone
PROPERTY
  ReplayEnds
CHECK_DEADLOCK FALSE
