SPECIFICATION LayersSpec
CONSTANTS
  Garbage = Garbage
  NoHeader = NoHeader
  TornHeader = TornHeader
  Free = Free
  c1 = c1
  Contexts <- MCContexts
  SetOf <- MCSetOf
  Sets = {1}
  Candidates = {1}
  Ways = 2
  CountMax = 3
  RecordsPerSlab = 2
  CallModes = {"OFF", "LEARN_SHADOW", "FROZEN"}
  PowerLossAllowed = TRUE
  MaxSequence = 4
  MaxEpoch = 3
  MaxFaults = 1
  MaxCrashes = 2
CHECK_DEADLOCK FALSE
INVARIANTS
  AckedDurable
  LayersAgree
PROPERTY
  SurvivesPowerLoss
