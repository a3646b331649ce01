SPECIFICATION Spec
CONSTANTS
  t1 = t1
  t2 = t2
  e = e
  f = f
  base = base
  Tabs = {t1, t2}
  Edits = {e}
  Large = {e}
  BaseText = base
  MaxCopies = 3
  MaxCloses = 2
  MaxDrops = 1
  MaxRebases = 1
  MaxFull = 1
  MaxFaults = 2
SYMMETRY SameTabs
INVARIANTS TabsTypeOK StoredIsKept NeverTwice Honest
CHECK_DEADLOCK FALSE
