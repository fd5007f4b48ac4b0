CONSTANTS
  h1 = h1
  h2 = h2
  h3 = h3
  d1 = d1
  d2 = d2
  Host <- TwoHosts
  DiskOrder <- TwoDisks
  Check <- OnlyDisks
  Order <- Sorted2
  need <- Needs
  maxOf <- Maxima
  Supply <- SomeSupply
  MaxRegular = 3
SPECIFICATION Spec
PROPERTY LeastUsedFirst
CHECK_DEADLOCK FALSE
