SPECIFICATION Spec
CONSTANTS
  Tasks = {t1, t2}
  Limit = 1
  Mishaps = {"refused", "error", "create", "damaged"}
  MaxSent = 1
  MaxThreads = 1
  MaxTurns = 2
  MaxAsks = 1
  MaxFaults = 1
INVARIANTS
  TypeOK
  CancelledNeverCompletes
  CancelStopsTurn
  ActiveTurnIsLive
PROPERTIES
  CleanupSparesTurns
SYMMETRY Symmetry
CHECK_DEADLOCK FALSE
