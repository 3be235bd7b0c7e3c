CONSTANTS
  Orientations = {r0, r90}
  MaxQueue = 4
  MaxFailures = 1
SPECIFICATION FairSpec
INVARIANTS
  TypeOK
  FramesAccounted
  FrameToConsume
  DrawsHeldFrame
  WaiterLives
PROPERTIES
  EventuallyCaughtUp
  SourceSpec
