\* With and without a timeout, wires of one piece, and every fault.
CONSTANTS
  Scenarios <- Exchanges
  Window = 1
SPECIFICATION FairSpec
INVARIANT TypeOK
PROPERTIES ImplementsStreams  ServerEnds HalfCloseEnds
CHECK_DEADLOCK FALSE
