SPECIFICATION Spec
CONSTANTS
  alpha = alpha
  beta = beta
  task1 = task1
  openai = openai
  deepseek = deepseek
  None = None
  Projects = {alpha, beta}
  Providers = {openai, deepseek}
  Tasks = {task1}
  ProjectOf <- MCProjectOf
  Old <- MCOld
  MaxSent = 2
  MaxThreads = 2
  MaxTurns = 1
  MaxFaults = 1
INVARIANTS
  TypeOK
  OneAuthority
  ThreadsAtHome
  RoutedHome
  BusyIsFreed
CHECK_DEADLOCK FALSE
