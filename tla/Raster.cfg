SPECIFICATION Spec
CONSTANTS
  LineLength = 6
  Size <- MCSize
  Rows <- MCRows
INVARIANTS
  ContactIsOverlap
  CreditedTwiceOnlyAtStart
