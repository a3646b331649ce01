SPECIFICATION ExtractionSpec
CONSTANTS
  a = a
  b = b
  d = d
  r1 = r1
  r2 = r2
  Files = {a, b, d}
  Repos = {r1, r2}
  RepoOf <- RepoOfs
  Imports <- Import
  Contents <- Versions
  TurnFiles = 1
  MaxAttempts = 2
  MaxWrites = 3
  MaxFailures = 1
INVARIANTS ExtractionTypeOK RowsAreCurrent
