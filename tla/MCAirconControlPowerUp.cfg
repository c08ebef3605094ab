SPECIFICATION Spec
CONSTANTS
  Unit = {u1}
  OnMode = {1, 2, 4}
  Asked = {25}
  Dialled = {22}
  Speed = {0, 3}
  MaxAsks = 2
  MaxTurns = 2
PROPERTIES
  NeverPoweredUpBySetpoint
CHECK_DEADLOCK FALSE
