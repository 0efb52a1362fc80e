SPECIFICATION FairSpec
CONSTANTS
  r1 = r1
  r2 = r2
  b1 = b1
  Readers = {r1, r2}
  Backends = {b1}
  MaxRows = 2
  MaxGens = 3
  Budget = 1
  Eager = 0
CHECK_DEADLOCK FALSE
INVARIANTS
  FilesFollowReaders
  PinnedWithinBudget
PROPERTIES
  EventuallyAuthoritative
  EveryReadEnds
