SPECIFICATION Spec
CONSTANTS
  Networks = {a, b}
  Conns = {c1}
  Unknown = unknown
  None = none
  MaxAttempts = 1
  MaxResyncs = 0
  FlatTrees = TRUE
  Unruly = FALSE
  MaxNudges = 1
  MaxOwed = 3
INVARIANTS
  OwnEntities
CHECK_DEADLOCK FALSE
