SPECIFICATION Spec
CONSTANTS
  Sessions = {s1}
  Ports = {p1}
  Users = {u1}
  TunnelIds = {1, 2}
  Requests <- ReloadRequests
  AllowedPorts = {p1}
  MaxConnections = 1
  MaxTunnels = 1
  MaxConnsPerTunnel = 1
  QueueLen = 1
  AnyPort = AnyPort
  Nil = Nil
INVARIANTS
  PermitsReturned
CHECK_DEADLOCK FALSE
