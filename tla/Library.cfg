SPECIFICATION LibraryFairSpec
CONSTANTS
  Size = 5
  UCHAR_MAX = 2
  IntBits = 8
  NULL = NULL
  Char <- MCChar
  Calls <- MCCalls
INVARIANTS MemTypeOK WritesExactly ReadsInside ResultsCorrect FormatTypeOK PrintsMeaning
PROPERTIES CallsReturn
