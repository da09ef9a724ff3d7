CONSTANTS
  Bits = 4
  MaxReads = 2
  MaxMissed = 2
SPECIFICATION Spec
INVARIANTS
  SuccessIsAllBits
CHECK_DEADLOCK FALSE
