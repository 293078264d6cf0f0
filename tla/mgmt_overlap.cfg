SPECIFICATION FairSpec
CONSTANTS
  Instance = {i1}
  Session = {s1, s2}
  InstanceOf <- SharedInstance
  EgNamespace = {e1, e2}
  Profile = {p1}
  DefaultProfile = p1
  Auth = {system}
  SkipRoles = FALSE
  Identity = {"none", "SystemAssigned"}
  Command = {"enable"}
  MaxFaults = 1
  None = None
PROPERTIES
  EnableConverges
