SPECIFICATION CreateSpec
CONSTANTS
  Calls = {c1, c2, c3}
  Names = {n1, n2, n3}
  MaxCreates = 2
  MaxCopies = 2
  MaxFaults = 1
  Callers = {d1, d2, d3}
  None = None
  TTL = 1
  LoadBudget = 1
  Horizon = 3
INVARIANTS
  GateInv
  NoDuplicateVolumes
  LoadInv
  StalenessBounded
  ErrorIsCurrent
PROPERTIES
  WaitersReturn
