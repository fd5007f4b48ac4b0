CONSTANTS
  a1 = a1
  a2 = a2
  s1 = s1
  s2 = s2
  u1 = u1
  App <- TwoApps
  Start <- TwoStarts
  Switch <- NoSwitch
  app <- Apps
  need <- OneEach
  Capacity = 2
  MaxErrors = 2
SPECIFICATION Spec
INVARIANT InstancesManaged
CHECK_DEADLOCK FALSE
