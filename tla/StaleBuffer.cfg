SPECIFICATION FairSpec
CONSTANTS
  MaxCommands = 2
  MaxCalls = 1
  Mishaps = {"crash", "cut"}
PROPERTIES
  AllAnswered
CHECK_DEADLOCK FALSE
