\* Three workers reforge three candidates of two gears in batches of two; three stages
\* and the finals of up to two candidates on a pool of two.
SPECIFICATION Spec
CONSTANTS
  a = a
  b = b
  best = best
  worn = worn
  Workers = {w1, w2, w3}
  Gears = {a, b, best, worn}
  NoGear = NoGear
  Requests <- MCRequests
  Restored <- MCRestored
  Baseline = worn
  Reforged <- MCReforged
  JobCap = 1
  FlushSize = 2
  MaxWorkers = 2
  Faulty = {a, worn}
  MinIterations <- MCMinIterations
  MaxSurvivors <- MCMaxSurvivors
  MinSurvivors <- MCMinSurvivors
  StageWorkers <- MCStageWorkers
  TopResults = 2
  MaxTarget = 3
INVARIANTS TypeOK SolvedOnce StreamedOnce NothingSimmedTwice Lockstep CompleteIsWhole
PROPERTIES JobEnds
CHECK_DEADLOCK FALSE
