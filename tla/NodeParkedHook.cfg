SPECIFICATION LifeSpec
CONSTANTS
  Own = {a1}
  Others = {}
  MaxTries = 1
  MaxTroubles = 0
CHECK_DEADLOCK FALSE
PROPERTIES
  HookReleasesAlways
