SPECIFICATION Spec
CONSTANTS
  Nodes <- Three
  Deps <- Join
  MaxParallelism = 2
  MaxRunning = 3
  Mishaps = {"cleanup"}
  MaxManual = 0
  MaxRestarts = 1
PROPERTIES
  ResultImmutable
CHECK_DEADLOCK FALSE
