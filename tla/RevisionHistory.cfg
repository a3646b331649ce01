SPECIFICATION Spec
CONSTANTS
  a = a
  b = b
  Bodies <- MCBodies
  Imports <- MCImports
  KeepRecent = 1
  BatchRows = 2
  CompactEvery = 2
  MaxOrd = 4
  MaxOutside = 1
  MaxStops = 1
INVARIANTS HistoryTypeOK Lossless StatesKept
SYMMETRY Texts2
CHECK_DEADLOCK FALSE
