SPECIFICATION Spec
CONSTANTS
  a = a
  b = b
  Bodies <- MCBodies
  Imports <- MCImports
  KeepRecent = 1
  BatchRows = 2
  CompactEvery = 2
  MaxOrd = 4
  MaxOutside = 0
  MaxStops = 1
PROPERTY PassedDecided
CHECK_DEADLOCK FALSE
