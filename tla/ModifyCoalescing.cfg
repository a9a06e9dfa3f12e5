SPECIFICATION MergeSpec
CONSTANTS
  MaxRequests = 3
  VolumeTypes = {t1, t2}
  NoVolumeType = NoVolumeType
INVARIANTS
  MergeInv
PROPERTIES
  WorkerEndsUnlessAbandoned
CHECK_DEADLOCK FALSE
