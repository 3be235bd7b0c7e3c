CONSTANTS
  Clients = {c1}
  Tiles = {t1, t2}
  portrait = portrait
  landscape = landscape
  Sizes = {portrait, landscape}
  Turns <- AnyTurn
SPECIFICATION Spec
SYMMETRY UpdateSymmetry
INVARIANTS
  TypeOK
  NoLostUpdate
  NoLostWakeup
  NoLostResize
  RecordInUse
PROPERTIES
  ServiceSpec
