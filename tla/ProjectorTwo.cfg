SPECIFICATION Spec
CONSTANTS
  Notes = {n1, n2}
  Paths = {p1, p2}
  Workers = {w1, w2}
  Edits = {}
  MaxChanges = 3
  MaxFaults = 0
  MaxCrashes = 0
INVARIANT Mirror
SYMMETRY Symmetry
