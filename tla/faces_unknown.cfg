SPECIFICATION Spec
CONSTANTS
  PerFacePct = 3
  TotalPct = 5
  IntBits = 6
  Assets = {a1, a2, a3}
  Kinds <- MCKinds
  NoAsset = NoAsset
  PoolSize = 3
INVARIANT PickedPassesFaceFilter
