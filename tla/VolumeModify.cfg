SPECIFICATION Spec
CONSTANTS
  Types = {a, b, c}
  NoType = NoType
  Remote = {c}
  MaxSize = 2
  MaxEvents = 4
INVARIANTS
  ModifyInv
PROPERTIES
  ExpandSucceeds
CHECK_DEADLOCK FALSE
