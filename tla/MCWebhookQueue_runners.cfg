SPECIFICATION FairSpec
CONSTANTS
  e1 = e1
  o1 = o1
  o2 = o2
  Endpoints = {e1}
  Orgs = {o1, o2}
  NoOrg = NoOrg
  OrgOf <- OneTenant
  Subscriptions <- SubscribePages
  Runners = {r1, r2}
  MaxEvents = 2
  MaxEmits = 1
  MaxAttempts = 2
  MaxRedeliveries = 1
  Batch = 2
  MaxCrashes = 1
  MaxLapses = 1
INVARIANTS TypeOK ExclusiveClaim AcceptsBounded AttemptsBounded TenantIsolation
PROPERTIES KeepsLedger NoFactDropped PendingSettles
