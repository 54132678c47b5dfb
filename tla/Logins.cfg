CONSTANTS
  a = a
  b = b
  w1 = w1
  w2 = w2
  Nil = Nil
  IPs <- TwoIPs
  Workers <- TwoWorkers
  MaxFailures = 2
  BlockDur = 1
  RecordTTL = 1
  LRUSize = 1
  DiskMayFail = FALSE
  PageReuse = FALSE
  MayRestart = FALSE
  MaxTime = 3
  MaxFails = 2
SPECIFICATION LoginSpec
SYMMETRY Symmetry
PROPERTIES OnlyInARow
