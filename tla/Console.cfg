SPECIFICATION FairSpec
CONSTANTS
  BufLen = 4
  FifoLen = 2
  Few = 0
  Fds = 4
  Texts <- MCTexts
  Char <- MCChar
  Blank = "e"
INVARIANTS
  NothingOverwritten
  SearchEnds
PROPERTIES
  Delivers
  PrintReturns
  AllIsShown
