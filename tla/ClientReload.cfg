\* Two reloads on one connection.
CONSTANTS
  a = a
  b = b
  p1 = p1
  p2 = p2
  x = x
  y = y
  Nil = Nil
  AnyPort = AnyPort
  Broken = Broken
  Names = {a, b}
  Ports = {p1, p2}
  Locals = {x, y}
  Configs <- ReloadConfigs
  MaxTunnels = 2
  MaxDials = 1
  MaxReloads = 2
SPECIFICATION FairSpec
PROPERTIES UnchangedKept ReloadApplied
CHECK_DEADLOCK FALSE
