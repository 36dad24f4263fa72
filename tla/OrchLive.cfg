SPECIFICATION FairSpec
CONSTANTS
  Nodes <- Three
  Deps <- Join
  MaxParallelism = 2
  MaxRunning = 3
  Mishaps = {"unusable"}
  MaxManual = 0
  MaxRestarts = 0
INVARIANTS
  NoStrandedNode
PROPERTIES
  RunSettles
  CallsReturn
CHECK_DEADLOCK FALSE
