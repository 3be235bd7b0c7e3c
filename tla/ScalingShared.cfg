CONSTANTS
  Viewers = {v1, v2}
  Main = main
  Listener = listener
  Orientations = {portrait}
  Factors = {1, 2}
  MaxCopies = 1
  MaxRaces = 1
SPECIFICATION Spec
INVARIANT ViewerCurrent
