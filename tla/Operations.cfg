CONSTANTS
  r1 = r1
  r2 = r2
  nn = nn
  d1 = d1
  b1 = b1
  b2 = b2
  e1 = e1
  Request <- TwoRequests
  Page = {p1, p2}
  Task = {t1, t2}
  NoTask = NoTask
  Workloads <- Requested
  MaxSelected = 2
  MaxFaults = 1
  Node <- TwoNodes
  Begin <- TwoBegin
  End <- OneEnd
  MaxSlips = 2
  Host = {h1, h2, h3}
  MaxRounds = 2
  MaxBreaks = 1
SPECIFICATION MCSpec
INVARIANTS TypesOK NothingForgotten NothingOutOfReach ExtendedOnce
PROPERTIES EveryEndShown MonitorsEnd
CHECK_DEADLOCK FALSE
