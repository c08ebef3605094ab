SPECIFICATION Spec
CONSTANTS
  Networks = {a, b}
  Conns = {c1, c2}
  Unknown = unknown
  None = none
  MaxAttempts = 1
  MaxResyncs = 1
  FlatTrees = FALSE
  Unruly = TRUE
  MaxNudges = 2
  MaxOwed = 2
SYMMETRY Symmetry
INVARIANTS
  RecordsAgree
CHECK_DEADLOCK FALSE
