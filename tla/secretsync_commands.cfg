SPECIFICATION Spec
CONSTANTS
  Session = {s1, s2}
  SyncName = {n1, n2}
  Secret = {a, b, c}
  Lone = c
  Key = {k1}
  Identity = {i1, i2}
  Workloads <- MCWorkloads
  Lagging = TRUE
  MaxFaults = 1
  None = None
SYMMETRY Symmetry
CONSTRAINT Fresh
INVARIANTS
  LinkedSpcExists
  SpcHasCredential
  MappedSecretsListed
  AssignedIsFederated
PROPERTIES
  SetKeepsMappings
  RemoveCleansUp
  IdentityKept
