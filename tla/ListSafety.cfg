CONSTANTS
  Records = {c1, c2}
  Iterators = {capture, listener}
SPECIFICATION FairSpec
CHECK_DEADLOCK FALSE
INVARIANTS
  TypeOK
  ListIntact
  ReferencesCounted
  PinnedNotFreed
  WalkComplete
PROPERTIES
  EventuallyFreed
