SPECIFICATION Spec
CONSTANTS
  Lengths = {125, 126, 127, 128, 255}
  MaxFrames = 1
  MaxCuts = 2
INVARIANTS LengthIsRead
CHECK_DEADLOCK FALSE
