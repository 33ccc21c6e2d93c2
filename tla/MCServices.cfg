SPECIFICATION Spec
CONSTANTS
  c1 = c1
  c2 = c2
  c3 = c3
  Callers <- MCCallers
  HookPoints = 4
  Capacity = 2
  MinOccurrences = 2
  MaxBugs = 3
  MaxStarts = 2
  MaxStops = 1
  MaxCrashes = 1
  MaxFailures = 2
  MaxDamages = 1
  Capturers <- MCCallers
  BugIds = {x}
  NoToken = none
  MaxCaptures = 4
  MaxAudits = 1
  Rollers = {a, b}
  MaxRollbackAttempts = 3
  MaxCalls = 3
  Refreshers = {a}
  Gauges <- MCGauges
  Debounce <- MCDebounce
  FirstTick = 2
  LastTick = 3
  MaxFigures = 2
  MaxAlerts = 2
  MaxResolved = 1
  MaxLosses = 1
  Evaluations = {a, b}
  InitialConfig <- MCConfig
  MaxAttempts = 2
  MaxAdjustments = 4
  MaxMishaps = 2
  Items = {a, b}
  Sizes = {1, 2}
  Priorities = {"critical", "high", "low"}
  Readings = {0, 1, 3}
  LastAccess = 1
  Ids <- MCIds
  MaxNodes = 4
  MaxStoreFaults = 1
  Verifiers = {a, b}
  FileLimit = 1
  KeptReports = 1
  Measured <- MCMeasured
  MaxEntries = 4
  MaxReports = 2
  MaxFaults = 2
SYMMETRY Symmetric
CHECK_DEADLOCK FALSE
INVARIANTS
  SavedBugsSurvive
  RunningIsWatched
  OneWinner
  AttemptsAreUsedUp
  AlertsAreKept
  AlertsAreSeconded
  LogExplainsConfig
  EvictsJustEnough
  StoryIsOne
  EvidenceIsKept
