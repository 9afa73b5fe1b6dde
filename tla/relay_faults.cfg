SPECIFICATION Spec
CONSTANTS
  RunIds = {r1, r2, r3}
  Assets = {a1, a2, a3, a4}
  NoRun = NoRun
  NoAsset = NoAsset
  JobSlots = 1
  Redelivery = FALSE
  ConcurrentTaps = 2
  MaxDbFaults = 2
  MaxBoots = 2
  MaxExits = 1
  MaxDrops = 1
  ApalisMigrations = {q1, q2}
  AppMigrations = {m1}
SYMMETRY Symmetry
INVARIANT TypeOK
INVARIANT PostIffSucceeded
INVARIANT OneHandOffPerRun
INVARIANT SuccessWasHandedOff
INVARIANT InFlightBounded
PROPERTY RecordedAssetNeverSent
PROPERTY LeaksAreExplained
PROPERTY LedgerSpec
PROPERTY TerminalAnswerStands
