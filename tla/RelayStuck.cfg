\* A local service that neither answers an end of file nor closes.
CONSTANTS
  Scenarios <- Idle
  Window = 1
SPECIFICATION FairSpec
PROPERTIES NoCopyLeftBehind
CHECK_DEADLOCK FALSE
