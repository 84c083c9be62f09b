SPECIFICATION MainSpec
CONSTANTS
  N = 3
  K = 2
  LabelMax = 3
INVARIANTS
  Safety
  FirstComeFirstServed
  LabelsCountAcquisitions
  FilterSafety
PROPERTIES
  ImplementsMutex
  LockIsGranted
  FilterImplementsMutex
  FilterIsGranted
