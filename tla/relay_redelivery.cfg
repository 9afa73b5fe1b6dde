SPECIFICATION FairSpec
CONSTANTS
  RunIds = {r1, r2}
  Assets = {a1, a2, a3}
  NoRun = NoRun
  NoAsset = NoAsset
  JobSlots = 1
  Redelivery = TRUE
  ConcurrentTaps = 2
  MaxDbFaults = 1
  MaxBoots = 1
  MaxExits = 1
  MaxDrops = 0
  ApalisMigrations = {q1, q2}
  AppMigrations = {m1}
INVARIANT OneHandOffPerRun
INVARIANT SuccessWasHandedOff
PROPERTY LeaksAreExplained
PROPERTY ServesAgain
PROPERTY GateReopens
PROPERTY EveryJobIsAcked
