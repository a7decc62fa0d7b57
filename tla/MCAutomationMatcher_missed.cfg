SPECIFICATION Spec
CONSTANTS
  k1 = k1
  k2 = k2
  o1 = o1
  o2 = o2
  Rules = {k1}
  Orgs = {o1}
  NoOrg = NoOrg
  OrgOf <- TwoTenants
  Names = {"page.published"}
  Payloads = {"fit"}
  Accepts <- TakesFit
  Instances = {i1}
  Free = Free
  Batch = 1
  MaxEvents = 2
  MaxCrashes = 0
INVARIANTS NoMissedEvent
