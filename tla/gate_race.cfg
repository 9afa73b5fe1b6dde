SPECIFICATION Spec
CONSTANTS
  RunIds = {r1, r2}
  Assets = {a1, a2, a3, a4}
  NoRun = NoRun
  NoAsset = NoAsset
  JobSlots = 1
  Redelivery = FALSE
  ConcurrentTaps = 2
  MaxDbFaults = 0
  MaxBoots = 0
  MaxExits = 0
  MaxDrops = 0
  ApalisMigrations = {q1, q2}
  AppMigrations = {m1}
INVARIANT OneRunInFlight
