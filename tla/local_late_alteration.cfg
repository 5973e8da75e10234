CONSTANTS
  i1 = i1
  i2 = i2
  r1 = r1
  r2 = r2
  Incidents = {i1}
  Requests = {r1}
  MaxBatches = 2
  BatchSize = 2
  Overlap = FALSE
  LateAlteration = TRUE
  MaxCrashes = 0
SPECIFICATION Spec
INVARIANTS
  MainHoldsRecordedCounts
CHECK_DEADLOCK FALSE
