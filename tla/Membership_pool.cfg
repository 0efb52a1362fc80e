SPECIFICATION FairSpec
CONSTANTS
  b1 = b1
  b2 = b2
  None = none
  Backends <- MCBackends
  Config = {b1}
  Candidates = {b2}
  FailThreshold = 1
  RiseThreshold = 1
  PassiveThreshold = 1
  MaxLives = 3
  MaxFaults = 1
  Faulty <- MCAll
CHECK_DEADLOCK FALSE
INVARIANTS TypeOK
PROPERTIES
  ConfiguredStays
  CapacitySettles
  EventuallyRouted
  DeadIsEjected
