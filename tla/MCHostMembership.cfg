CONSTANTS
  Host = {hA, hB, hC}
  Nobody = nobody
  MaxStarts = 3
  MaxLosses = 2
SPECIFICATION FairSpec
INVARIANTS
  JoinersMeet
  QuitIsHeard
PROPERTIES
  StoppedIsForgotten
CHECK_DEADLOCK FALSE
