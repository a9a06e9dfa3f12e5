SPECIFICATION Spec
CONSTANTS
  Names = {n1, n2}
  Calls = {c1, c2}
  NoName = NoName
  Made = {n2}
  PageSize = 2
  MaxPages = 2
  MaxOthers = 1
  MaxIds = 4
  MaxFaults = 2
CHECK_DEADLOCK FALSE
INVARIANTS
  TypeOK
  NoDuplicateSnapshots
  HeldIsThere
PROPERTIES
  SnapshotServed
