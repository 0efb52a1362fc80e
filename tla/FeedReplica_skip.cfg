SPECIFICATION Spec
CONSTANTS
  MaxRows = 5
  FeedMax = 5
  PageMax = 5
  MaxFaults = 2
  Faulty <- MCDrops
CHECK_DEADLOCK FALSE
INVARIANTS
  NothingSkipped
