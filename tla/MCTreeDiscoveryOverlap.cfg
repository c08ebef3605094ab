SPECIFICATION Spec
CONSTANTS
  Networks = {a, b}
  Conns = {c1, c2}
  Unknown = unknown
  None = none
  MaxAttempts = 1
  MaxResyncs = 1
  FlatTrees = FALSE
  Unruly = FALSE
  MaxNudges = 1
  MaxOwed = 3
INVARIANTS
  NotStuck
CHECK_DEADLOCK FALSE
