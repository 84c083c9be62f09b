SPECIFICATION FairSpec
CONSTANTS
  Threads = {1, 2}
  Ops = 2
  Keys = {1, 2}
  MaxLevel = 1
INVARIANTS
  Safety
PROPERTIES
  ImplementsSet
  UpdatesReturn
