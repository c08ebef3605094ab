SPECIFICATION Spec
CONSTANTS
  None = none
  Groups = {"g1", "g2"}
  Entities = {"z", "p", "t"}
  CoverNames = {"blind"}
  Application <- App
  Kind <- Kinds2
  Prefix <- Names
  Projects <- ProjectsHere
  LabelFiles <- LabelFilesHere
  Options <- OptionsHere
  MaxUpsets = 2
INVARIANTS
  ConfigsRight
  ReadOnlyHasNoLoad
PROPERTY
  AnnouncedStays
CHECK_DEADLOCK FALSE
