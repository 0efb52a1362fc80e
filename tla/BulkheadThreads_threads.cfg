SPECIFICATION FairSpec
CONSTANTS
  r1 = r1
  r2 = r2
  r3 = r3
  health = health
  discovery = discovery
  Requests <- MCRequests
  Threads <- MCThreads
  Targets <- MCTargets
  Loop = loop
  None = none
  InitCap = 1
INVARIANTS NobodyLost
PROPERTIES NoStarvation
