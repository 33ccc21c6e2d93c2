SPECIFICATION Spec
CONSTANTS
  StageDuration = 2
  MaxTime = 6
  MaxRollouts = 2
  MaxBadWrites = 2
  MaxBadSaves = 1
  MaxRestarts = 2
  Stages <- MCStages
  Metrics <- MCMetrics
  MaxStarts = 3
  MaxChecks = 3
  s1 = s1
  s2 = s2
  c1 = c1
  c2 = c2
  Storers <- MCStorers
  Controllers <- MCControllers
  Ledgers <- MCLedgers
  Genesis = genesis
  MaxDumps = 3
  MaxAccidents = 3
  Threads = {t1, t2}
  Fds = {3}
  Endpoints = {e}
  NoEndpoint = TOKEN_VAZIO
  RingCapacity = 2
  MaxOperations = 3
  MaxCrashes = 2
  Modules = {m}
  Captures <- MCControllers
  Unknown = TOKEN_VAZIO
  MaxChanges = 2
  MaxObserved = 2
  MaxUpgrades = 3
  MaxDamage = 3
  Pages = {p}
  Runs = {r}
  MaxSnapshots = 2
  MaxOutages = 2
SYMMETRY Symmetric
CHECK_DEADLOCK FALSE
INVARIANTS
  RollbackIsRemembered
  ProductionIsMeasured
  HistoryIsComplete
  ChainIsOne
  PublishedIsDurable
  LedgerIsLinked
  TailIsWhatReturned
  StreamTellsSurface
  VersionsAreExplained
  ShownIsStored
PROPERTIES
  NothingOverDamage
