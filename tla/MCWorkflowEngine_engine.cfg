SPECIFICATION Spec
CONSTANTS
  Workflows = {w1}
  Triggers = {"schedule"}
  Plans <- TaskThenWait
  MaxSteps = 2
  MaxRuns = 1
  Instances = {i1, i2}
  Batch = 1
  SweepBatch = 2
  SchedulerBatch = 1
  MaxOwed = 2
  MaxCrashes = 1
  SlowActions = TRUE
SYMMETRY InstanceSymmetry
INVARIANTS TypeOK SettledTruth InOrder AuditedOnce DueTimesAccounted
PROPERTIES FinalStaysFinal
