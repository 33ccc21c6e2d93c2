SPECIFICATION RuntimesSpec
CONSTANTS
  Free = Free
  c1 = c1
  c2 = c2
  c3 = c3
  Contexts <- MCContexts
  SetOf <- MCSetOf
  Sets = {1}
  Candidates = {1, 2}
  Ways = 2
  CountMax = 9
  RecoveredTables <- MCRecovered
  MaxSequence = 0
  MaxValidations = 0
  Word = 32
  BitValues <- MCBitValues
  TopBit = 8
  Scales <- MCScales
  NoFile = NoFile
  Corrupt = Corrupt
  Frames <- MCFrames
  Capacities <- TooSmall
  MaxAppends = 3
  MaxLives = 3
  MaxCheckpoints = 3
  MaxFaults = 0
CHECK_DEADLOCK FALSE
PROPERTY
  ChainIsNotRestarted
