SPECIFICATION Spec
CONSTANTS
  Nodes <- Three
  Deps <- Flat
  MaxParallelism = 2
  MaxRunning = 1
  Mishaps = {}
  MaxManual = 0
  MaxRestarts = 0
INVARIANTS
  NoStrandedNode
CHECK_DEADLOCK FALSE
