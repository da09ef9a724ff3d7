CONSTANTS
  Process = {p1, p2}
  Host = {hA, hB}
  Image = {i1}
  Name = {n1, n2}
  NoContainer = NoContainer
  Idle = Idle
  Naming <- OwnNames
  NoHost = NoHost
  DeviceHost = {hB}
  MaxCalls = 1
SPECIFICATION FairSpec
PROPERTIES
  MigrationEnds
CHECK_DEADLOCK FALSE
