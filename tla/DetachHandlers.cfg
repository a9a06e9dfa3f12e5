SPECIFICATION Spec
CONSTANTS
  NoPair = NoPair
  Pairs = {p1, p2}
  Calls = {c1, c2}
  BreakerSteps <- TwoSteps
  BreakerTripAfter = 2
  BreakerTripMinElapsed = 1
  MaxClock = 6
  RPCBudget = 1
  Crashes = TRUE
SYMMETRY Symmetry
INVARIANTS
  TypeOK
  PairExclusive
  PausedNeverCommands
  GaugeNotOrphaned
  OpenBreakerWasReported
  ExpiryGrantsAttempt
PROPERTIES
  DueDatesSpaced
