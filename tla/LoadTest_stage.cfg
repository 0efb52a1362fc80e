SPECIFICATION FairSpec
CONSTANTS
  Users = {"u1", "u2"}
  Backends = {"b1", "b2"}
  Tasks = {1, 2, 3}
  Slots <- MCSlots
  Nothing = Nothing
  Budget = 2
  FeedEvery = 2
  MaxFaults = 1
  Faulty <- MCFaults
CHECK_DEADLOCK FALSE
INVARIANTS
  CountersExact
  AnswersMatch
  AcceptedIsStored
  StoredIsAccounted
  EveryRequestCounted
PROPERTIES
  StageSpec
  StageEnds
