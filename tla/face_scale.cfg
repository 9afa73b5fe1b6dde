SPECIFICATION Spec
CONSTANTS
  PerFacePct = 3
  TotalPct = 5
  IntBits = 6
  Sizes <- MCSizes
  Boxes <- MCSmallBoxes
  MaxFaces = 1
  Shrinks = {1, 2}
INVARIANT ThresholdsAreOfTheImage
CHECK_DEADLOCK FALSE
