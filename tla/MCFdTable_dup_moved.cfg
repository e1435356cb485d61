CONSTANTS
  t1 = t1
  t2 = t2
  Threads = {t1, t2}
  o1 = o1
  o2 = o2
  Objects = {o1, o2}
  NULL = NULL
  MaxSize = 4
  MaxHostFd = 3
  Programs <- MovingPrograms
  PassedFiles <- OnlyLog
  MaxPassed = 1
SPECIFICATION Spec
INVARIANTS
  ReferencedDescriptorValid
CHECK_DEADLOCK FALSE
