CONSTANTS
  a1 = a1
  a2 = a2
  s1 = s1
  s2 = s2
  u1 = u1
  App <- TwoApps
  Start <- TwoStarts
  Switch <- OneSwitch
  app <- Apps
  need <- TwoEach
  Capacity = 4
  MaxErrors = 2
SPECIFICATION FairSpec
INVARIANTS TypeOK 
PROPERTIES  EveryStartEnds
CHECK_DEADLOCK FALSE
