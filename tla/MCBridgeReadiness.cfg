SPECIFICATION BothSpec
CONSTANTS
  PoolSize = 1
  Generations = 3
  RetryCap = 1
  Networks = {a, b}
  Unknown = unknown
  NoNetwork = none
INVARIANTS
  StatusTold
PROPERTIES
  OnlineWithdrawn
  ReadyAgain
  Resolves
CHECK_DEADLOCK FALSE
