\* Two polls of one request in flight at once, and responses that fail.
CONSTANTS
  Streamed = {s1, s2}
  Restored = {r1}
  Pollers = {p1, p2}
  MaxReports = 1
  MaxFailures = 1
SPECIFICATION ProgressSpec
INVARIANTS ProgressTypeOK CandidatesKept DeliveredOnce
PROPERTIES EntryRemoved
CHECK_DEADLOCK FALSE
