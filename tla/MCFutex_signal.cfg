CONSTANTS
  l1 = l1
  l2 = l2
  c1 = c1
  NoLock = NoLock
  NoCondvar = NoCondvar
  Threads = {2, 3, 4}
  Locks <- OneLock
  Condvars <- OneCondvar
  Readers = {2, 3}
  TimedThreads = {2, 3}
  NWaiters = {0, 1, 2}
  MallocMayFail = TRUE
  SignalUnlocked = TRUE
  MisusedLocks = {}
SPECIFICATION Spec
INVARIANTS
  SignalFindsAWaiter
CHECK_DEADLOCK FALSE
