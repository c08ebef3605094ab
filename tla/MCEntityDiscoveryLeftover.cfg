SPECIFICATION Spec
CONSTANTS
  None = none
  Groups = {"g1", "g2"}
  Entities = {"z", "p", "t"}
  CoverNames = {"blind"}
  Application <- App
  Kind <- Kinds2
  Prefix <- Names
  Projects <- OneProject
  LabelFiles <- OverrideFiles
  Options <- OneOption
  MaxUpsets = 2
INVARIANT
  OverrideLeavesNothing
CHECK_DEADLOCK FALSE
