CONSTANTS
  Clients = {c1}
  Tiles = {t1}
  portrait = portrait
  landscape = landscape
  Sizes = {portrait, landscape}
  Turns <- OneTurn
SPECIFICATION LiveSpec
PROPERTIES
  EventuallyRefreshed
  EventuallyResized
