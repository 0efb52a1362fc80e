SPECIFICATION FairSpec
CONSTANTS
  m1 = m1
  m2 = m2
  m3 = m3
  b1 = b1
  b2 = b2
  lobby = lobby
  den = den
  Msgs = {m1, m2, m3}
  PublicMsgs <- MCPublic
  RoomOf <- MCRooms
  Backends = {b1}
  MaxTries = 1
  LruSize = 1
  BatchMax = 2
  MaxFaults = 1
CHECK_DEADLOCK FALSE
INVARIANTS
  Numbering
  CountNeverShort
PROPERTIES
  LedgerSpec
  EveryAttemptEnds
