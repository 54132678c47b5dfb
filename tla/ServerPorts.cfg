SPECIFICATION Spec
CONSTANTS
  Sessions = {s1, s2}
  Ports = {p1, p2, p3}
  Users = {}
  TunnelIds = {1, 2, 3}
  Requests <- PortRequests
  AllowedPorts = {p1}
  MaxConnections = 2
  MaxTunnels = 2
  MaxConnsPerTunnel = 1
  QueueLen = 2
  AnyPort = AnyPort
  Nil = Nil
INVARIANTS
  TypeOK
  TunnelQuota
  PortsAccounted
  Admission
  LeftOpenBounded
PROPERTIES
  OnlyOwnerCloses
  ImplementsLeases
SYMMETRY Symmetry
CHECK_DEADLOCK FALSE
