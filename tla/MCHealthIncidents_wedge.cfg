SPECIFICATION FairSpec
CONSTANTS
  NServices = 2
  Metrics = {}
  Runners = {r1}
  Panels = {}
  CheckInterval = 1
  HeartbeatInterval = 2
  MaxIncidents = 4
  MaxWindows = 1
  Findings = {"healthy", "degraded", "down"}
  MaxMoves = 2
PROPERTIES EveryServiceFollowed
