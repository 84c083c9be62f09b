SPECIFICATION Programs
CONSTANTS
  N = 3
  K = 2
  SpinK = 1
  MinDelay = 4
  MaxDelay = 12
  Measures = {1, 2}
INVARIANTS
  Safety
  BoundedWaiting
  SpinSafety
PROPERTIES
  ImplementsMutex
  LockIsGranted
  MainReturns
