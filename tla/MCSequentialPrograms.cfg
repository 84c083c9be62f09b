CONSTANTS
  ImmBits = 4
  RegBits = 2
  MemWords = 6
  Sources <- MCSources
  N = 4
  Numbers = {1, 2, 3, 4}
  MaxSize = 8
SPECIFICATION SeqSpec
CHECK_DEADLOCK FALSE
INVARIANTS
  Safety
  PrintedWordIsRight
PROPERTIES
  ImplementsMachine
  ImplementsMultiset
  ProgramsAnswer
