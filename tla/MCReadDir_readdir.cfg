SPECIFICATION FairSpec
CONSTANTS
  Threads = {t1, t2}
  Nobody = Nobody
  NameLen <- MCNameLen
  Header = 2
  FirstBuffer = 2
  FirstPositions = {0}
  HostMayFail = TRUE
  MayClose = TRUE
INVARIANTS
  EnumerationsExact
  HandleOpenWhileUsed
PROPERTIES
  EnumerationsEnd
