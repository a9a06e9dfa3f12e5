SPECIFICATION FairSpec
CONSTANTS
  NoVolume = NoVolume
  Volumes = {v1}
  Calls = {c1, c2}
  BreakerSteps <- GrowingSteps
  BreakerTripAfter = 2
  BreakerTripMinElapsed = 1
  MaxClock = 6
  RPCBudget = 1
  MaxFaults = 2
INVARIANTS
  PauseIsOverruledByProbeOnly
  DeleteInv
  PauseFollowsCause
PROPERTIES
  ReleasedIsDeleted
