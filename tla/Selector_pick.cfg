SPECIFICATION FairSpec
CONSTANTS
  Order <- MCOrder
  Weight <- MCWeight
  Reliable = {"b1", "b2"}
  Algorithms <- MCAlgorithms
  Slots = 1
  HotAt = 1
  MaxJoins = 1
CHECK_DEADLOCK FALSE
INVARIANTS
  SharesKept
PROPERTIES
  MeasuredSoon
  NobodyStarves
