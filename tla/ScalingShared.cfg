CONSTANTS
  t1 = t1
  t2 = t2
  e1 = e1
  scaler = scaler
  guardian = guardian
  Task <- OneOfEach
  StartApp <- Starter
  ExtendLv <- Extension
  Service <- Services
  LocalList <- OfTheScripts
  PlaybookList <- OfThePlaybook
  MaxFailures = 1
SPECIFICATION FairSpec
INVARIANTS TypeOK OffIsOwed OnInsideIsForeign
PROPERTY EventuallyRestored
CHECK_DEADLOCK FALSE
