SPECIFICATION Spec
CONSTANTS
  Address = {0, 1}
  Word = {0, 7}
  Z = Z
  Gap = 3
INVARIANTS
  WriteLands
  ReadReturns
  NoContention
PROPERTY Serves
