SPECIFICATION Spec
CONSTANTS
  t1 = t1
  t2 = t2
  t3 = t3
  x = x
  N = 4
  RealThread <- MCThreads
  OtherOrigin <- MCOther
  LockOrders <- MCOrders
  MaxCycles = 3
  RecursionLimit = 4
INVARIANTS SearchInvariant ComponentsExact CyclesSound CircularWaitsReported
PROPERTY SearchEnds
CHECK_DEADLOCK FALSE
