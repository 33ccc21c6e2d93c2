SPECIFICATION RuntimesSpec
CONSTANTS
  Free = Free
  c1 = c1
  c2 = c2
  c3 = c3
  Contexts <- MCContexts
  SetOf <- MCSetOf
  Sets = {1}
  Candidates = {1, 2}
  Ways = 2
  CountMax = 9
  RecoveredTables <- MCRecovered
  MaxSequence = 2
  MaxValidations = 4
  Word = 32
  BitValues <- MCBitValues
  TopBit = 8
  Scales <- MCScales
  NoFile = NoFile
  Corrupt = Corrupt
  Frames <- MCFrames
  Capacities <- Enough
  MaxAppends = 4
  MaxLives = 3
  MaxCheckpoints = 3
  MaxFaults = 2
CHECK_DEADLOCK FALSE
INVARIANTS
  NothingForgotten
  ModelUnderTestIsFrozen
  ReturnsRatio
  RingIsEndOfHistory
  LastCheckpointSurvives
  ChainIsLinked
PROPERTY
  ChainIsNotRestarted
