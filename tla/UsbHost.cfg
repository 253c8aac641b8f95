SPECIFICATION FairSpec
CONSTANTS
  Last = 9
  Faked = 5
  Reports <- MCReports
  Remains <- MCRemains
INVARIANTS
  StepsInOrder
  WaitsAreAnswered
  HeldKeysAreSeen
PROPERTIES
  EnumerationEnds
  UnplugNoticed
  ReportsArrive
  KeepsSession
