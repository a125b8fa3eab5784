\* One bulk job and one abort caller: the abort that the hand-over loses.
CONSTANTS
  Jobs = {j1}
  BulkJobs = {j1}
  Callers = {c1}
  Ids = {i1, i2}
  EmptyId = EmptyId
  NoSignal = NoSignal
  MaxChecks = 2
SPECIFICATION Spec
PROPERTIES AckedAbortStopsBulk
CHECK_DEADLOCK FALSE
