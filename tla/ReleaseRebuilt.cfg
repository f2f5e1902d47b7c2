\* Two runs of the release tool, no fault: a version is built again.
SPECIFICATION ReleaseSpec
CONSTANTS
  m1 = m1  m2 = m2  m2b = m2b  m2x = m2x  m2l = m2l  w2 = w2  t1 = t1  t2 = t2  t2b = t2b  t2l = t2l
  Nil = Nil  Torn = Torn  Legacy = Legacy  Malformed = Malformed
  Versions = {0, 1, 2}
  Platforms = {"mac", "win"}
  Installers <- MCInstallers
  Tars <- MCTars
  TarOf <- MCTarOf
  Recompressed <- MCRecompressed
  SizeOf <- MCSizeOf
  Family <- MCFamily
  Semver <- MCSemver
  MaxU64 = 9
  AppId <- MCAppId
  VersionText <- MCVersionText
  PlatformText <- MCPlatformText
  DigestText <- MCDigestText
  TooLarge <- Large
  Oversized <- Pairs
  Incompressible = {w2}
  Requests <- MCRequests
  MaxRuns = 2
  Faults = {}
INVARIANT EveryPathWorks
CHECK_DEADLOCK FALSE
