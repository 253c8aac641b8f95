SPECIFICATION FairSpec
CONSTANTS
  Axis <- YAxis
PROPERTIES
  StaysOnScreen
  Glides
  Patrols
