SPECIFICATION FairSpec
CONSTANTS
  MaxRows = 4
  FeedMax = 4
  PageMax = 2
  MaxFaults = 2
  Faulty <- MCFrames
CHECK_DEADLOCK FALSE
INVARIANTS
  NothingSkipped
PROPERTIES
  Converges
