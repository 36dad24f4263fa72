SPECIFICATION FairSpec
CONSTANTS
  MaxCommands = 3
  MaxCalls = 1
  Mishaps = {"unstartable", "crash", "rejected", "cut", "unkillable", "deaf"}
INVARIANTS
  TypeOK
  ExactlyOnce
  NoneWithoutTransport
  ReadyIsInitialized
PROPERTIES
  AnsweredUnlessCut
  RestartCompletes
CHECK_DEADLOCK FALSE
