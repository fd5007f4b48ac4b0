CONSTANTS
  s1 = s1
  c1 = c1
  c2 = c2
  c3 = c3
  u1 = u1
  Start <- OneStart
  Container <- Two
  owner <- OwnedByS1
  Switch <- NoSwitch
  Handlers = 2
  MaxErrors = 0
  MaxLost = 0
SPECIFICATION Concurrently
INVARIANT LastContainerStops
CHECK_DEADLOCK FALSE
