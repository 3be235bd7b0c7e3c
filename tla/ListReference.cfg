CONSTANTS
  Records = {c1, c2}
  Iterators = {capture}
SPECIFICATION Spec
CHECK_DEADLOCK FALSE
INVARIANTS
  NotFreedWhileReferenced
