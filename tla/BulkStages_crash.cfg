SPECIFICATION Spec
CONSTANTS
  Candidates = {c1, c2, c3}
  BaselineGear = base
  Faulty = {}
  MaxWorkers = 2
  MinIterations <- MCMinIterations
  MaxSurvivors <- MCMaxSurvivors
  MinSurvivors <- MCMinSurvivors
  StageWorkers <- MCStageWorkers
  TopResults = 2
  MaxTarget = 4
INVARIANT NeverCrashes
CHECK_DEADLOCK FALSE
