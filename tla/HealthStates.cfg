\* Two checks and two users at a time, one loss of the connection.
CONSTANTS
  a = a
  b = b
  p1 = p1
  p2 = p2
  AnyPort = AnyPort
  None = None
  Tunnels = {a, b}
  Ports = {p1, p2}
  RemotePort <- FixedAndAny
  MaxFlight = 2
  MaxLosses = 1
SPECIFICATION FairSpec
INVARIANT TypeOK
PROPERTY StateSettles
CHECK_DEADLOCK FALSE
