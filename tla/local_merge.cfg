CONSTANTS
  i1 = i1
  i2 = i2
  r1 = r1
  r2 = r2
  Incidents = {i1, i2}
  Requests = {r1}
  MaxBatches = 3
  BatchSize = 2
  Overlap = FALSE
  LateAlteration = FALSE
  MaxCrashes = 1
SPECIFICATION Spec
SYMMETRY Symmetry
CONSTRAINT RowsKept
INVARIANTS
  TypeOK
  MainChainVerifies
  NoBatchLost
  EpochRecordMatchesMain
PROPERTIES
  VerdictKeptUntilMerge
CHECK_DEADLOCK FALSE
