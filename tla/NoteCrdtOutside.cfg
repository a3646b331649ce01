SPECIFICATION Spec
CONSTANTS
  Typing = {u1, u2}
  Writes = {w}
  Outside = {o}
  Overlaps <- Clashes
  Broken = {}
  Bad = {u1}
  Cures = {w}
  MaxCrashes = 0
  MaxAborts = 0
  MaxPurges = 0
  MaxFaults = 0
INVARIANTS TypeOK FoldBoundary OpenIsStored RowAccepted
PROPERTY RowKeepsText
