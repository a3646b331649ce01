SPECIFICATION Spec
CONSTANTS
  Typing = {u1}
  Writes = {}
  Outside = {}
  Overlaps <- Clashes
  Broken = {}
  Bad = {}
  Cures = {}
  MaxCrashes = 1
  MaxAborts = 0
  MaxPurges = 1
  MaxFaults = 2
INVARIANT BootFoldsAcked
