CONSTANTS
  MaxBlocks = 1
  MaxIncidents = 1
  MaxRequests = 1
  MaxCrashes = 0
  MaxMempool = 2
  MaxNonce = 4
  FAILURE_THRESHOLD = 2
  StableCycles = FALSE
SPECIFICATION FairSpec
PROPERTIES
  AnchoredIsConfirmed
CHECK_DEADLOCK FALSE
