CONSTANTS
  MaxBlocks = 2
  MaxIncidents = 2
  MaxRequests = 1
  MaxCrashes = 1
  MaxMempool = 2
  MaxNonce = 6
  FAILURE_THRESHOLD = 2
  StableCycles = FALSE
SPECIFICATION Spec
INVARIANTS
  TypeOK
  HistoryIsLinked
  NoRootDuringIncident
PROPERTIES
  ImplementsAnchorLog
CHECK_DEADLOCK FALSE
