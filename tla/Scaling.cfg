CONSTANTS
  Viewers = {v1}
  Main = main
  Listener = listener
  Orientations = {portrait, landscape}
  Factors = {1, 2}
  MaxCopies = 3
  MaxRaces = 1
SPECIFICATION Spec
SYMMETRY ScalingSymmetry
INVARIANTS
  TypeOK
  CountExact
  ChainIntact
  FramesReach
