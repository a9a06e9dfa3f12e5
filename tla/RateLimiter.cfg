SPECIFICATION Spec
CONSTANTS
  Requests = {r1, r2}
  Outcomes = {"ok", "throttled", "error"}
  MaxQPS = 4
  MinQPS = 1
  IncreaseQPS = 2
  DecreaseCooldown = 2
  RecoverEvery = 3
  ServerErrorQuiet = 4
  ServerErrorHoldMax = 6
  MaxWait = 1
  MaxDelay = 1
  MaxClock = 8
INVARIANTS
  BucketInv
PROPERTIES
  MovesArePaced
  SpellHoldsRate
CHECK_DEADLOCK FALSE
