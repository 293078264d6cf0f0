SPECIFICATION Spec
CONSTANTS
  s1 = s1
  s2 = s2
  a1 = a1
  d1 = d1
  e1 = e1
  e2 = e2
  i1 = i1
  i2 = i2
  p1 = p1
  Session = {s1, s2}
  Workloads <- EventGroups
  Device = {d1}
  Endpoint = {e1, e2}
  Asset = {a1}
  Item = {i1, i2}
  Point = {p1}
  x = x
  y = y
  z = z
  Setting = {x, y, z}
  Destination = {z}
  OpcuaMetadata <- BundledMetadata
  None = None
PROPERTIES
  EventSettingsKept
