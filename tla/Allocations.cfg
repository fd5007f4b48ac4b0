CONSTANTS
  h1 = h1
  h2 = h2
  h3 = h3
  d1 = d1
  d2 = d2
  Host <- ThreeHosts
  DiskOrder <- TwoDisks
  Check <- AnyChecks
  Order <- SomeOrders
  need <- Needs
  maxOf <- Maxima
  Supply <- SomeSupply
  MaxRegular = 4
SPECIFICATION FairSpec
INVARIANTS TypeOK NoOvercommit FillUpPacks CyclicBalances EndsRight
PROPERTY EveryRequestAnswered
CHECK_DEADLOCK FALSE
