SPECIFICATION FairSpec
CONSTANTS
  Typing = {u1, u2}
  Writes = {}
  Outside = {}
  Overlaps <- Clashes
  Broken = {u2}
  Bad = {}
  Cures = {}
  MaxCrashes = 1
  MaxAborts = 1
  MaxPurges = 1
  MaxFaults = 1
INVARIANT PromiseKept
PROPERTY AckedReachesRow
