SPECIFICATION Spec
CONSTANTS
  Notes = {n1, n2}
  Paths = {p1, p2}
  Workers = {w1}
  Edits = {e1}
  MaxChanges = 3
  MaxFaults = 1
  MaxCrashes = 1
INVARIANTS TypeOK Mirror EditsKept
SYMMETRY Symmetry
