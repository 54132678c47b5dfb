SPECIFICATION Spec
CONSTANTS
  Sessions = {s1}
  Ports = {p1}
  Users = {u1, u2}
  TunnelIds = {1, 2}
  Requests <- ClientRequests
  AllowedPorts = {p1}
  MaxConnections = 1
  MaxTunnels = 1
  MaxConnsPerTunnel = 1
  QueueLen = 1
  AnyPort = AnyPort
  Nil = Nil
INVARIANTS
  PermitsMatch
  UsersAttended
  PanicsOnlyRebound
SYMMETRY Symmetry
CHECK_DEADLOCK FALSE
