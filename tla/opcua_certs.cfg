SPECIFICATION FairSpec
CONSTANTS
  s1 = s1
  s2 = s2
  x1 = x1
  x2 = x2
  x3 = x3
  k1 = k1
  k2 = k2
  Session = {s1, s2}
  SyncName = {trust, issuer, client}
  TrustList = trust
  IssuerList = issuer
  ClientPair = client
  Secret = {x1, x2, x3}
  Key = {k1, k2}
  Identity = {}
  Workloads <- MCWorkloads
  Lagging = TRUE
  MaxFaults = 1
  None = None
INVARIANTS
  ListedUnlessTaken
  ConfiguredIffMapped
PROPERTIES
  ClientAddConverges
