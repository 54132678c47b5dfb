\* Four IPs in a cache of two, up to seven calls.
CONSTANTS
  a = a
  b = b
  c = c
  d = d
  r1 = r1
  r2 = r2
  Keys <- MCKeys
  Records <- MCRecords
  Capacity = 2
  MaxCalls = 7
  Nil = Nil
SPECIFICATION Spec
SYMMETRY Symmetry
CHECK_DEADLOCK FALSE
INVARIANT CacheBounded
PROPERTY LeastRecentEvicted
