SPECIFICATION FairSpec
CONSTANTS
  Axis <- MCAxis
  Places <- MCPlaces
  Origin <- MCOrigin
  Spots <- MCSpots
PROPERTIES
  StaysInField
  Hunts
  NoHidingPlace
