SPECIFICATION Spec
CONSTANTS
  Uuids = {u1, u2}
  NoUuid = NoUuid
  Fetches = {f1, f2}
  Ttl = 2
  Horizon = 4
SYMMETRY Symmetry
INVARIANT TypeOK
INVARIANT LiveRowsSurvive
INVARIANT NotFoundOnlyWhenExpired
INVARIANT ExpiredIsNeverServed
