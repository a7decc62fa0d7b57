SPECIFICATION FairSpec
CONSTANTS
  NServices = 2
  Metrics = {m1}
  Runners = {r1}
  Panels = {p1}
  CheckInterval = 1
  HeartbeatInterval = 2
  MaxIncidents = 6
  MaxWindows = 2
  Findings = {"healthy", "degraded", "down"}
  MaxMoves = 2
INVARIANTS TypeOK IncidentToldOnce BreachToldOnce
PROPERTIES MemoryFollowsTruth
