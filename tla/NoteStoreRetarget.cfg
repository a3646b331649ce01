SPECIFICATION Spec
CONSTANTS
  n1 = n1
  n2 = n2
  n3 = n3
  Notes = {n1, n2, n3}
  Paths = {1, 2, 3}
  Clients = {c1, c2}
  Servers = {s1, s2}
  Calls <- AllCalls
  Start <- StartLinked
  WriteRounds = 2
  RelinkRounds = 3
  MaxCalls = 3
  MaxFaults = 1
SYMMETRY Symmetry

PROPERTIES NotRetargeted
