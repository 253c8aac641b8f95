SPECIFICATION Spec
CONSTANTS
  Axis <- MCAxis
  Left = "A"
  Right = "D"
  Up = "W"
  Down = "S"
  Keycode = {"A", "D", "W", "S", "other"}
INVARIANTS
  NeverStands
  OneKeyIsEnough
PROPERTY StaysOnScreen
