\* The overview while core-x or the network blips.
SPECIFICATION WebSpec
CONSTANTS
  ann = ann  ben = ben  acme = acme  r1 = r1  r2 = r2  s1 = s1
  Parts = {"requests"}
  User = {ann, ben}
  NoUser = NoUser
  Org = {acme}
  NoOrg = NoOrg
  UeiOrg = {acme}
  Pairs <- Memberships
  Request = {r1, r2}
  HasSecret = TRUE
  TTL = 2
  Latency = 1
  MaxChanges = 2
  MaxFailures = 1
  Paths = {"bff", "direct", "none"}
  Pages = {"dashboard", "profile"}
  Busy <- BusyIn
  UeiLength = 2
  Typed <- Spellings
  Stored <- StoredForms
  Slug = {s1}
  NoUei = NoUei
  NoSlug = NoSlug
  MaxOrgs = 2
  Day <- Boundaries
  Count = {0, 3, 5}
  Null = Null
  Category = {"opportunities", "surety"}
  Stray = {"nowhere"}
  Post = {"p1", "p2"}
INVARIANTS OutageNeverFailsRender
