SPECIFICATION Spec
CONSTANTS
  Nodes = {n1, n2}
  NoNode = NoNode
  DeleteKey = DeleteKey
  MaxFaults = 2
INVARIANTS
  TypeOK
  DetachWaitHasDetach
PROPERTIES
  KeepsContract
  FinalizerRemoved
