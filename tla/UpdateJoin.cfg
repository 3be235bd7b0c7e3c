CONSTANTS
  Clients = {c1}
  Tiles = {t1}
  portrait = portrait
  landscape = landscape
  Sizes = {portrait, landscape}
  Turns <- NoTurn
SPECIFICATION FairSpec
PROPERTIES
  ClosedClientFreed
