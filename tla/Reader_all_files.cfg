SPECIFICATION Spec
CONSTANTS
  BlockSize = 4
  LineEnd = "nl"
  MaxFile = 6
  Words = {}
  MaxULong = 255
  MaxInt = 127
  Files <- AllFiles
  Patterns <- AllPatterns
INVARIANTS
  LinesInOrder
  EveryLineRead
  SearchFinds
PROPERTIES
  ReadingEnds
CHECK_DEADLOCK FALSE
