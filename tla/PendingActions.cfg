\* One held, one periodic and one pooled struct, three instants, two iterations.
CONSTANTS
  Held = {h1}
  Periodic = {d1}
  Pooled = {f1}
  Priorities = {0, 3}
  EndTime = 1
  MaxTime = 2
  MaxIterations = 2
  Nobody = Nobody
SPECIFICATION Spec
INVARIANTS TypeOK QueueOrderly PoolSafe NothingLost
PROPERTIES NewcomersWait CancelledNeverActs
CHECK_DEADLOCK FALSE
