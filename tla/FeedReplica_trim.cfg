SPECIFICATION Spec
CONSTANTS
  MaxRows = 5
  FeedMax = 2
  PageMax = 2
  MaxFaults = 1
  Faulty <- MCAll
CHECK_DEADLOCK FALSE
INVARIANTS
  NoDuplicates
