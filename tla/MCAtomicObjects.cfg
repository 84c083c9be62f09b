SPECIFICATION Spec
CONSTANTS
  N = 3
  Writes = 1
  Reads <- MCReads
  Sharers = 2
  Actions <- MCActions
  Capacity = 2
  Updates <- MCUpdates
  Scans = 1
INVARIANTS
  Safety
  ReadsAreFresh
  ScansAreAtomic
