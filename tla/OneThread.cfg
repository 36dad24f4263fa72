SPECIFICATION Spec
CONSTANTS
  Nodes <- Three
  Deps <- Flat
  MaxParallelism = 2
  MaxRunning = 3
  Mishaps = {"worktree"}
  MaxManual = 0
  MaxRestarts = 0
INVARIANTS
  OneThread
CHECK_DEADLOCK FALSE
