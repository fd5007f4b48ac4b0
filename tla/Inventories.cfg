CONSTANTS
  p1 = p1
  p2 = p2
  h1 = h1
  h2 = h2
  Client <- TwoClients
  Host <- TwoHosts
  hostNumber <- Numbered
  Initial <- H1Alone
  Counts <- OneOrTwo
  Uses <- NoneOrAll
  MaxOps <- FourOrThree
  MaxStopFailures = 1
SPECIFICATION FairSpec
INVARIANTS TypeOK NumbersGrowWithoutHdfs NamesAreFresh QuietMeansExact
PROPERTIES Atomic EverybodyEnds
CHECK_DEADLOCK FALSE
