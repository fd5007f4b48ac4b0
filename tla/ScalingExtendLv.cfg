CONSTANTS
  t1 = t1
  t2 = t2
  e1 = e1
  scaler = scaler
  guardian = guardian
  Task <- Extension
  StartApp <- Nobody
  ExtendLv <- Extension
  Service <- Services
  LocalList <- OfTheScripts
  PlaybookList <- OfThePlaybook
  MaxFailures = 0
SPECIFICATION Spec
INVARIANT QuietMeansActive
CHECK_DEADLOCK FALSE
