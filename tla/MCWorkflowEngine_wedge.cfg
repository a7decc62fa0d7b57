SPECIFICATION FairSpec
CONSTANTS
  Workflows = {w1}
  Triggers = {"manual"}
  Plans <- OneTask
  MaxSteps = 1
  MaxRuns = 1
  Instances = {i1, i2}
  Batch = 1
  SweepBatch = 1
  SchedulerBatch = 1
  MaxOwed = 1
  MaxCrashes = 1
  SlowActions = FALSE
PROPERTIES RunsSettle
