CONSTANTS
  Requesters = {q1}
  Main = main
  Others = {listener}
  Orientations = {portrait, landscape}
  Contents = {c1, c2}
  MaxStarts = 2
  MaxRotations = 1
SPECIFICATION FairSpec
INVARIANTS
  TypeOK
  SteadyShot
PROPERTIES
  EndsWithShot
  RequesterEnds
CHECK_DEADLOCK FALSE
