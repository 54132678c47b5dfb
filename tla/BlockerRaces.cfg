CONSTANTS
  a = a
  b = b
  w1 = w1
  w2 = w2
  Nil = Nil
  IPs <- TwoIPs
  Workers <- TwoWorkers
  MaxFailures = 2
  BlockDur = 2
  RecordTTL = 1
  LRUSize = 1
  DiskMayFail = TRUE
  PageReuse = TRUE
  MayRestart = TRUE
  MaxTime = 3
  MaxFails = 2
SPECIFICATION Spec
SYMMETRY Symmetry
INVARIANTS TypeOK
PROPERTIES NeverRefusedEarly 
