SPECIFICATION FairSpec
CONSTANTS
  Threads = {1, 2}
  Ops = 2
  Keys = {1}
  MaxLevel = 1
PROPERTIES
  AllReturn
