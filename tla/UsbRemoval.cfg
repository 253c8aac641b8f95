SPECIFICATION FairSpec
CONSTANTS
  Last = 9
  Faked = 5
  Reports <- MCReports
  Remains <- MCRemains
PROPERTY RemovalIsSeen
