CONSTANTS
  PageSize = 2
  HeaderLen = 1
  Reservation = 2
  MemorySize = 18
  Syscalls <- MCSyscalls
  Gsbase = FALSE
  HostFds = {0, 1, 2, 3, 4, 5, 6, 7, 8}
  None = None
  NanosPerSec = 4
  RealOffset = 3
  MaxStart = 3
  MaxTime = 16
  Fds = {1, 2, 3}
  Pollable = {1, 2}
  NoObject = NoObject
  Threads = {main, a, b}
  Main = main
  NULL = NULL
  NoTid = NoTid
  TidBits = 3
  NanosPerMsec = 2
  IntMax = 2
  Answers <- MCAnswers
  Scenarios <- MCScenarios
SPECIFICATION Spec
INVARIANTS
  ProgramGetsExactSet
  ArgumentsArriveIntact
  ImageFaithful
  ProgramFindsItsData
  DeadlineExact
  PollReports
  PollReferencesExact
  ParamsExact
  IdentifiersAgree
  MemoryOutlivesUse
  TlsOfItsOwn
PROPERTIES
  LaunchEnds
  TimeoutEndsPoll
  ExitLeadsToJoin
CHECK_DEADLOCK FALSE
