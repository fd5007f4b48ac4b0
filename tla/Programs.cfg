CONSTANTS
  appA = appA
  appB = appB
  mA = mA
  wA = wA
  mB = mB
  App = {appA, appB}
  NoApp = NoApp
  Container = {mA, wA, mB}
  Owner <- OwnerOfThree
  Master <- MasterOfTwo
  DependsOn <- SecondWaits
  WithTransfers = {appA}
  WithUser = {appA}
  Scenarios <- ThreeScenarios
  MaxMishaps = 1
  Person = {p1, p2}
  MaxEdited = 1
  MaxTroubles = 1
  Old = Old
  Absent = Absent
  Empty = Empty
  FitToUsage = FitToUsage
  Proportional = Proportional
  Pid = {q1, q2}
  Instance = {i1, i2}
  Nobody = Nobody
  MaxIo = 2
  MaxListErrors = 1
  MaxWork = 2
  MinSent = 2
  MaxFailures = 1
  Job = {j1, j2}
  File = {"a", "b", "_SUCCESS"}
  Hidden = {"_SUCCESS"}
  Sources <- ThreeSources
  MaxSplits = 2
  MaxAttempts = 2
  MaxCrashes = 2
  Target = {g1}
  All = All
  Formula = {"selfwatts", "smartwatts", "rapl"}
  Window = 2
  MinSamples = 1
  HistorySize = 2
  MaxTick = 7
  MaxFlight = 1
  MaxMissing = 1
  MaxLate = 1
  Level <- UpToThree
  MaxEvents = 8
SYMMETRY Alike
SPECIFICATION MCSpec
INVARIANTS TypesOK Accounted SuccessMeansDone TrafficCounted UsageCounted CopyExact PowerOfItsTick NoHysteresis AnswersRight
CHECK_DEADLOCK FALSE
