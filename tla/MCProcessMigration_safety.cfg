CONSTANTS
  Process = {p1, p2}
  Host = {hA, hB}
  Image = {i1}
  Name = {n1, n2}
  NoContainer = NoContainer
  Idle = Idle
  Naming <- AnyNames
  NoHost = NoHost
  DeviceHost = {hA, hB, NoHost}
  MaxCalls = 1
SPECIFICATION Spec
SYMMETRY Symmetries
INVARIANTS
  NeverTwice
  LossHasACause
  NoLateDump
  ImageComesFirst
  CallLeavesProcessHome
PROPERTIES
  KeepsPlacement
CHECK_DEADLOCK FALSE
