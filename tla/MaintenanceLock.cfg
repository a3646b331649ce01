SPECIFICATION FairSpec
CONSTANTS
  Servers = {s1}
  Exporters = {e1}
  MaxStarts = 3
  MaxDrops = 2
INVARIANTS TypeOK ExportUndisturbed OneLoop
PROPERTY Recovers
CHECK_DEADLOCK FALSE
