SPECIFICATION TextSpec
CONSTANTS
  ExactUnits = 8
  RegionUnits = 12
  MaxUnlike = 3
  MaxLine = 3
  Samples = 2
  KeptSamples = 1
  SampleUnits = 2
  ShortSample = 1
  PairingCells = 100
  Inputs <- MCInputs
  Later <- MCLater
  Deadlines <- MCDeadlines
  Typed <- MCTyped
  Wanted <- MCWanted
INVARIANTS
  DiffExact
  BothKept
  TypingStays
  SentAgainOnce
CHECK_DEADLOCK FALSE
