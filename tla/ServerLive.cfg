SPECIFICATION FairSpec
CONSTANTS
  Sessions = {s1}
  Ports = {p1}
  Users = {u1, u2}
  TunnelIds = {1, 2}
  Requests <- ReloadRequests
  AllowedPorts = {p1}
  MaxConnections = 1
  MaxTunnels = 1
  MaxConnsPerTunnel = 1
  QueueLen = 2
  AnyPort = AnyPort
  Nil = Nil
PROPERTIES
  SessionReleased
  UsersAnswered
CHECK_DEADLOCK FALSE
