CONSTANTS
  Process = {p1, p2}
SPECIFICATION DeviceSpec
INVARIANTS
  ExclusiveUnlessOverlap
CHECK_DEADLOCK FALSE
