CONSTANTS
  Driver = driver
  Client = {c1}
  Nobody = nobody
  MaxRequests = 3
SPECIFICATION FairSpec
INVARIANTS
  StaleReadWasRefused
  UnservedHasACause
PROPERTIES
  KeepsPromise
  CallEnds
CHECK_DEADLOCK FALSE
