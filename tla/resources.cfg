SPECIFICATION FairSpec
CONSTANTS
  s1 = s1
  s2 = s2
  n1 = n1
  n2 = n2
  g1 = g1
  g2 = g2
  g3 = g3
  p1 = p1
  p2 = p2
  m1 = m1
  v1 = v1
  v2 = v2
  r10 = r10
  r11 = r11
  r20 = r20
  digest = digest
  other = other
  Session = {s1, s2}
  Workloads <- AllWorkloads
  Persistent <- ToTheEnd
  Id <- Ids
  Name = {n1, n2}
  Node = {g1, g2, g3}
  Port = {p1, p2}
  Method = {m1}
  Version = {v1, v2}
  Metadata <- Artifacts
  SecretEntry <- Entries
  MaxCopies = 2
  MaxFaults = 1
  None = None
INVARIANTS
  WellFormed
PROPERTIES
  FitsUntilTouched
  NothingLost
  NoTemplateDowngrade
  SetsUp
