\* Two threads that may fail, requests of 0, 1 and 3 iterations, two callers that
\* abort, channels that hold less than a thread or the coordinator sends.
CONSTANTS
  NumCPU = 2
  Totals = {0, 1, 3}
  MaxTotal = 3
  SubCap = 2
  OutCap = 2
  Faulty = {1, 2}
  Aborters = {a1, a2}
SPECIFICATION Spec
INVARIANTS TypeOK FinalSound NoOrphanWork
PROPERTIES ImplementsAsyncJob ThreadsExit
CHECK_DEADLOCK FALSE
