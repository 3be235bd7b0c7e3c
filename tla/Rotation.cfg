CONSTANTS
  Rotations = {0, 90, 180}
  BufferSize = 38
  MaxReports = 3
  Width = 2
  Height = 3
  Commands <- MCCommands
SPECIFICATION FairSpec
INVARIANTS
  TypeOK
  ImageShowsAllowed
PROPERTIES
  ReportsSpec
  SizeSteady
  OptionsHonoured
  EventuallyFollowed
CHECK_DEADLOCK FALSE
