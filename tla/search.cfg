SPECIFICATION FairSpec
CONSTANTS
  PerFacePct = 3
  TotalPct = 5
  IntBits = 6
  Assets = {a1, a2, a3}
  Kinds <- MCKinds
  NoAsset = NoAsset
  PoolSize = 4
INVARIANT TypeOK
INVARIANT PickedIsEligible
INVARIANT ThreeDistinct
INVARIANT NoneOverlooked
INVARIANT FacesOnlyAsFallback
INVARIANT EachCountedOnce
PROPERTY SelectionSpec
PROPERTY Settles
