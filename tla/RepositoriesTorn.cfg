SPECIFICATION StartSpec
CONSTANTS
  c1 = c1
  c2 = c2
  c3 = c3
  p = p
  q = q
  Paths = {p, q}
  Commits = {c1, c2, c3}
  Tree <- Trees
  NoCommit = NoCommit
  main = main
  dev = dev
  Branches = {main, dev}
  NoBranch = NoBranch
  Syncs = {s1, s2}
  MaxMoves = 2
  MaxVersions = 5
  MaxSyncFaults = 1
INVARIANT SyncedIsCommit
