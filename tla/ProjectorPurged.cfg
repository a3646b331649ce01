SPECIFICATION Spec
CONSTANTS
  Notes = {n1, n2}
  Paths = {p1, p2}
  Workers = {w1}
  Edits = {}
  MaxChanges = 5
  MaxFaults = 0
  MaxCrashes = 0
INVARIANT PurgedIsGone
SYMMETRY Symmetry
