SPECIFICATION Spec
CONSTANTS
  Nodes <- Four
  Deps <- Wide
  MaxParallelism = 2
  MaxRunning = 1
  Mishaps = {"base", "refused", "worktree", "unusable"}
  MaxManual = 0
  MaxRestarts = 0
INVARIANTS
  TypeOK
  SupervisionInv
  DependenciesMet
  ParallelismBound
  OutcomeMatchesNodes
  NoLostVerdict
PROPERTIES
  LaunchAfterDependencies
  LaunchOnlyWhileRunning
  DurableVerdicts
  KeepsLedger
CHECK_DEADLOCK FALSE
