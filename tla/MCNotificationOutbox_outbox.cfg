SPECIFICATION FairSpec
CONSTANTS
  f1 = f1
  o1 = o1
  Facts = {f1}
  Orgs = {o1}
  NoOrg = NoOrg
  OrgOf <- OneOrg
  Channels = {"in_app", "email", "web_push", "chat"}
  InApp = "in_app"
  Queueable = {"email", "web_push"}
  Transports = {"in_app", "email"}
  Emitters = {e1}
  Runners = {r1, r2}
  Batch = 3
  MaxAttempts = 2
  MaxClaims = 1
  MaxFaults = 1
  MaxSwitches = 1
INVARIANTS TypeOK EmitLeavesRows UntransportedIsSkipped CopiesNeedALapse AttemptsBounded
PROPERTIES KeepsLedger PendingSettles
