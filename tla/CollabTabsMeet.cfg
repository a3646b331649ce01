SPECIFICATION FairSpec
CONSTANTS
  t1 = t1
  t2 = t2
  e = e
  f = f
  base = base
  Tabs = {t1, t2}
  Edits = {e}
  Large = {}
  BaseText = base
  MaxCopies = 3
  MaxCloses = 1
  MaxDrops = 0
  MaxRebases = 0
  MaxFull = 0
  MaxFaults = 1
PROPERTY CopiesMeet
CHECK_DEADLOCK FALSE
