SPECIFICATION Spec
CONSTANTS
  Instance = {i1, i2}
  Session = {i1, i2}
  InstanceOf <- OwnInstance
  EgNamespace = {e1}
  Profile = {p1}
  DefaultProfile = p1
  Auth = {system}
  SkipRoles = TRUE
  Identity = {"none"}
  Command = {"enable", "disable"}
  MaxFaults = 0
  None = None
PROPERTIES
  OthersPreserved
