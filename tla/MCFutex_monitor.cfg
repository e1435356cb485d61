CONSTANTS
  l1 = l1
  l2 = l2
  c1 = c1
  NoLock = NoLock
  NoCondvar = NoCondvar
  Threads = {5, 6, 7}
  Locks <- TwoLocks
  Condvars <- OneCondvar
  Readers = {5, 6}
  TimedThreads = {5, 6}
  NWaiters = {0, 1, 2}
  MallocMayFail = FALSE
  SignalUnlocked = TRUE
  MisusedLocks = {l2}
SPECIFICATION Spec
INVARIANTS
  TypeOK
  WordNamesOwners
  ManagedIffWaiters
  ObjectsCountTheirSleepers
  CondvarWordHonest
  QueuesHoldSleepers
PROPERTIES
  ImplementsMonitor
  SignalBeatsTimeout
CHECK_DEADLOCK FALSE
