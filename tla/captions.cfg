SPECIFICATION Spec
CONSTANTS
  Assets = {a1, a2}
  Metadata <- MCMetadata
  Unknown = Unknown
  Wordings = {w1, w2}
  NoCaption = NoCaption
  MaxPaid = 3
SYMMETRY Symmetry
INVARIANT TypeOK
INVARIANT PaidOnce
INVARIANT CaptionIsForItsKey
PROPERTY RepickIsFree
PROPERTY StoredCaptionStands
