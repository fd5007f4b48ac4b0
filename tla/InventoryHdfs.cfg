CONSTANTS
  p1 = p1
  p2 = p2
  h1 = h1
  h2 = h2
  Client <- OneClient
  Host <- OneHost
  hostNumber <- Numbered
  Initial <- H1Alone
  Counts <- OnlyOne
  Uses <- HdfsOnly
  MaxOps <- Five
  MaxStopFailures = 0
SPECIFICATION Spec
INVARIANT NumbersGrow
CHECK_DEADLOCK FALSE
