SPECIFICATION Spec
CONSTANTS
  Nodes <- Two
  Deps <- Pair
  MaxParallelism = 1
  MaxRunning = 1
  Mishaps = {"base", "refused", "worktree", "unusable", "lost", "cleanup", "resume"}
  MaxManual = 2
  MaxRestarts = 2
INVARIANTS
  LaunchInv
  DependenciesMet
  OutcomeMatchesNodes
  NoLostVerdict
PROPERTIES
  DurableVerdicts
  ReviewAfterRestart
  KeepsLedger
CHECK_DEADLOCK FALSE
