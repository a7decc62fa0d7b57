SPECIFICATION FairSpec
CONSTANTS
  Workflows = {w1}
  Triggers = {"manual"}
  Plans <- TaskThenWait
  MaxSteps = 2
  MaxRuns = 1
  Instances = {i1}
  Batch = 1
  SweepBatch = 1
  SchedulerBatch = 1
  MaxOwed = 1
  MaxCrashes = 3
  SlowActions = FALSE
INVARIANTS ClaimsRemain
PROPERTIES RunsSettle
