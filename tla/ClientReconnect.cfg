\* A reload and a second connection, in any order.
CONSTANTS
  a = a
  b = b
  p1 = p1
  p2 = p2
  x = x
  y = y
  Nil = Nil
  AnyPort = AnyPort
  Broken = Broken
  Names = {a, b}
  Ports = {p1, p2}
  Locals = {x, y}
  Configs <- ReloadConfigs
  MaxTunnels = 2
  MaxDials = 2
  MaxReloads = 1
SPECIFICATION Spec
INVARIANTS TypeOK TunnelsMatch
CHECK_DEADLOCK FALSE
