SPECIFICATION MergeSpec
CONSTANTS
  MaxRequests = 2
  VolumeTypes = {t1}
  NoVolumeType = NoVolumeType
INVARIANTS
  NoRequestAfterRemoval
CHECK_DEADLOCK FALSE
