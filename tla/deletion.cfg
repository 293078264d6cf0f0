SPECIFICATION FairSpec
CONSTANTS
  s1 = s1
  s2 = s2
  Session = {s1, s2}
  Arguments <- Unattended
  a2 = a2
  spc = spc
  ClResource = {a2, spc}
  Depth <- Depths
  MaxDepth = 1
  DefaultSpc = spc
  Rule = {rule}
  Dependency = {ssc}
  Acs = acs
  LinkedExtension = {"ops", ssc}
  OldVersion = TRUE
  DefaultNamespace = TRUE
  MaxFaults = 1
  MaxDeploys = 1
  None = None
PROPERTIES
  KeepsDependencies
  StrictOrder
  CompleteLeavesNothing
  FullCleanup
