CONSTANTS
  t1 = t1
  t2 = t2
  Threads = {t1, t2}
  o1 = o1
  o2 = o2
  o3 = o3
  Objects = {o1, o2, o3}
  NULL = NULL
  MaxSize = 8
  MaxHostFd = 3
  Programs <- TablePrograms
  PassedFiles <- LogAndStrange
  MaxPassed = 2
SPECIFICATION Spec
SYMMETRY Symmetry
INVARIANTS
  HalfFree
  RefcountsExact
  ReferencedDescriptorValid
  NothingLeaks
  RightsMatchMode
PROPERTIES
  AuthorityNeverGrows
CHECK_DEADLOCK FALSE
