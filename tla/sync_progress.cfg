CONSTANTS
  MaxBlocks = 3
  MaxIncidents = 2
  MaxRequests = 1
  MaxCrashes = 0
  MaxMempool = 2
  MaxNonce = 9
  FAILURE_THRESHOLD = 3
  StableCycles = TRUE
SPECIFICATION FairSpec
INVARIANTS
  QueueIsUnsent
  NonceGapFree
PROPERTIES
  BlocksConfirmed
  IncidentsResolved
CHECK_DEADLOCK FALSE
