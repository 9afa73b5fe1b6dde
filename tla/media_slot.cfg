SPECIFICATION Spec
CONSTANTS
  Uuids = {u1, u2}
  NoUuid = NoUuid
  Fetches = {f1}
  Ttl = 2
  Horizon = 4
INVARIANT HeldUntilFetched
