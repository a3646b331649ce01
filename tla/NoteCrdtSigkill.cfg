SPECIFICATION Spec
CONSTANTS
  Typing = {u1, u2}
  Writes = {}
  Outside = {}
  Overlaps <- Clashes
  Broken = {}
  Bad = {}
  Cures = {}
  MaxCrashes = 1
  MaxAborts = 0
  MaxPurges = 0
  MaxFaults = 1
INVARIANT SigkillLosesNothing
SYMMETRY Symmetry
