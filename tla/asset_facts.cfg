SPECIFICATION Spec
CONSTANTS
  PerFacePct = 3
  TotalPct = 5
  IntBits = 6
  Sizes <- MCSizes
  Boxes <- MCBoxes
  MaxFaces = 3
  Shrinks = {1}
INVARIANT TierIsDeserved
INVARIANT FaceOrderIrrelevant
PROPERTY NeverMoreLenient
CHECK_DEADLOCK FALSE
