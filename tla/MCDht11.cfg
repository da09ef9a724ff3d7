CONSTANTS
  Bits = 6
  MaxReads = 2
  MaxMissed = 2
SPECIFICATION FairSpec
INVARIANTS
  UndisturbedReadingIsFrame
  ReadingIsOrdered
PROPERTIES
  ReadEnds
CHECK_DEADLOCK FALSE
