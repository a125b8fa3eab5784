\* A plain job and two bulk jobs that compete for one id, and two abort callers.
CONSTANTS
  Jobs = {p1, b1, b2}
  BulkJobs = {b1, b2}
  Callers = {c1, c2}
  Ids = {i1}
  EmptyId = EmptyId
  NoSignal = NoSignal
  MaxChecks = 1
SPECIFICATION Spec
INVARIANTS TypeOK RegistryOwnership
PROPERTIES AckedAbortStops
CHECK_DEADLOCK FALSE
