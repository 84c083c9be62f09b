SPECIFICATION FairSpec
CONSTANTS
  Readers = {1, 2}
  Writers = {3, 4}
  KR = 1
  KW = 1
  Meeting = {1, 2, 3}
  Rounds = 3
  Tribesmen = {1, 2}
  Meals = 3
  PotSize = 2
  Users = {1, 2, 3}
  Loops = 1
  Sizes = {4096, 4097}
  MaxObjects = 2
  Areas = {1, 2, 3}
  TaskSets <- MCTaskSets
  Inputs <- MCInputs
  SLICE = 32
  DAMInputs <- MCDAMInputs
INVARIANTS
  Safety
  FilesAreComplete
  DeadlinesAreMet
PROPERTIES
  NoOvertaking
  NoStarvation
  ImplementsBarrier
  TribeIsFed
