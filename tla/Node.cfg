SPECIFICATION NodeSpec
CONSTANTS
  Targets = {t1, t2}
  Staging = Staging
  Calls = {c1, c2}
  MaxFaults = 3
  Own = {a1, a2}
  Others = {b1}
  MaxTries = 2
  MaxTroubles = 2
INVARIANTS
  PublishedShowsVolume
  MountInv
  OKMeansResized
  LifeTypeOK
  TaintsKept
  DrainIsAwaited
PROPERTIES
  TeardownCompletes
  HookReleases
CHECK_DEADLOCK FALSE
