CONSTANTS
  s1 = s1
  c1 = c1
  c2 = c2
  c3 = c3
  u1 = u1
  Start <- OneStart
  Container <- Three
  owner <- OwnedByS1
  Switch <- OneSwitch
  Handlers = 3
  MaxErrors = 2
  MaxLost = 1
SPECIFICATION EitherWay
INVARIANTS TypeOK OnlyLastStops LastContainerStopsInOrder
PROPERTIES Completes 
CHECK_DEADLOCK FALSE
