SPECIFICATION Spec
CONSTANTS
  Instance = {i1, i2}
  Session = {i1, i2}
  InstanceOf <- OwnInstance
  EgNamespace = {e1, e2}
  Profile = {p1}
  DefaultProfile = p1
  Auth = {system}
  SkipRoles = TRUE
  Identity = {"none"}
  Command = {"enable", "disable", "remove"}
  MaxFaults = 1
  None = None
SYMMETRY Symmetry
CONSTRAINT StaleOrFailed
INVARIANTS
  ResponseHasGraph
  EndpointBacked
  EnabledIsRouted
PROPERTIES
  KeepsDependencies
  DisableLeavesNothing
