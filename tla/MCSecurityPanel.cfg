SPECIFICATION FairSpec
CONSTANTS
  Zone = {z1, z2}
  First = {z1}
  Condition = {"panic"}
  ArmMode = {5}
  MaxChanges = 4
  MaxLag = 1
  MaxUpsets = 2
INVARIANTS
  PanelAgrees
PROPERTIES
  ReassuranceCorrected
  CardFilled
CHECK_DEADLOCK FALSE
