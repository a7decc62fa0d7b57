SPECIFICATION FairSpec
CONSTANTS
  Runs = {b1}
  NJobs = 2
  Workers = {w1, w2}
  MaxFaults = 2
INVARIANTS TypeOK StoppedNeverWrites OverlapIsAfterGivingUp
PROPERTIES SettledIsFinal JobsSettle
