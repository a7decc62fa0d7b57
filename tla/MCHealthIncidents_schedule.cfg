SPECIFICATION FairSpec
CONSTANTS
  NServices = 1
  Metrics = {}
  Runners = {r1}
  Panels = {}
  CheckInterval = 2
  HeartbeatInterval = 1
  MaxIncidents = 4
  MaxWindows = 1
  Findings = {"healthy", "degraded", "down"}
  MaxMoves = 1
PROPERTIES ScheduledChecksRun
