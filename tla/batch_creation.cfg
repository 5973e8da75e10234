CONSTANTS
  r1 = r1
  r2 = r2
  Requests = {r1, r2}
  Worker = Worker
  Limit = 2
  Schedules = {"alone", "serial", "concurrent"}
  MaxEvents = 3
  MaxTime = 3
  MaxCrashes = 1
SPECIFICATION Spec
SYMMETRY Symmetry
CONSTRAINT Smaller
INVARIANTS
  TypeOK
  NothingStranded
  EventInOneBlock
  RecoveryRowsExact
  EpochsLinear
  StagedUnderIncident
  OneIncidentOpen
CHECK_DEADLOCK FALSE
