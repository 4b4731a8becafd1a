CONSTANTS
  e1 = e1  n1 = n1
  Ecid = {e1}
  NameId = {n1}
  MaxParts = 1
  MaxRun = 2
  MaxCount = 2
  MaxSockets = 1
  Unknown = Unknown
CHECK_DEADLOCK FALSE
SPECIFICATION MirrorSpec
PROPERTIES MirrorShowsNames
