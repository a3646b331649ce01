SPECIFICATION Spec
CONSTANTS
  t1 = t1
  t2 = t2
  e = e
  f = f
  base = base
  Tabs = {t1, t2}
  Edits = {e, f}
  Large = {}
  BaseText = base
  MaxCopies = 3
  MaxCloses = 0
  MaxDrops = 0
  MaxRebases = 1
  MaxFull = 2
  MaxFaults = 3
SYMMETRY SameTabs
INVARIANT AsksFirst
CHECK_DEADLOCK FALSE
