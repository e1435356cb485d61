CONSTANTS
  l1 = l1
  l2 = l2
  c1 = c1
  NoLock = NoLock
  NoCondvar = NoCondvar
  Threads = {2, 3, 4}
  Locks <- OneLock
  Condvars <- OneCondvar
  Readers = {3}
  TimedThreads = {2, 3, 4}
  NWaiters = {0, 1, 2}
  MallocMayFail = TRUE
  SignalUnlocked = TRUE
  MisusedLocks = {}
SPECIFICATION HistorySpec
INVARIANTS
  DisciplinedSignalsFindAWaiter
  OwnersAreRecognised
PROPERTIES
  WaitReturnsLocked
  WritersGetTheLock
CHECK_DEADLOCK FALSE
