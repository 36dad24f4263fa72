SPECIFICATION Spec
CONSTANTS
  None = None
  Roots = {a, b, c}
INVARIANTS
  TypeOK
  ShowsRoot
  OperationEnds
PROPERTY
  RefreshCatchesUp
