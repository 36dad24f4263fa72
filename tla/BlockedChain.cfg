SPECIFICATION FairSpec
CONSTANTS
  Nodes <- Three
  Deps <- Chain
  MaxParallelism = 2
  MaxRunning = 3
  Mishaps = {}
  MaxManual = 0
  MaxRestarts = 0
PROPERTIES
  RunSettles
CHECK_DEADLOCK FALSE
