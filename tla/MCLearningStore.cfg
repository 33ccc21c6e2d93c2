SPECIFICATION StoreAlone
CONSTANTS
  Garbage = Garbage
  NoHeader = NoHeader
  TornHeader = TornHeader
  Free = Free
  c1 = c1
  Contexts <- MCContexts
  SetOf <- MCSetOf
  Sets = {1}
  Candidates = {1, 2}
  Ways = 1
  CountMax = 3
  RecordsPerSlab = 2
  CallModes = {"OFF", "OBSERVE", "LEARN_SHADOW"}
  PowerLossAllowed = FALSE
  MaxSequence = 4
  MaxEpoch = 3
  MaxFaults = 1
  MaxCrashes = 1
INVARIANTS
  ObservationsAreRecords
  SequencesIncrease
  LearnedIsLoggedUnlessDropped
PROPERTIES
  ImplementsDurableLog
