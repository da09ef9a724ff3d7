CONSTANTS
  hA = hA
  hB = hB
  mq2 = mq2
  dht11 = dht11
  smoke = smoke
  callDht11 = callDht11
  Client = {c1, c2}
  Name = {mq2, dht11, smoke, callDht11}
  FzName = {mq2, dht11}
  Host = {hA, hB}
  Here = hA
  NoHost = noHost
  Config <- Configs
  File <- Files
  CALL_FUNCTIONS <- Functions
  MaxCalls = 2
  MaxEvents = 2
SPECIFICATION FairSpec
INVARIANTS
  ClearCallReturns
  OpenFileHasOneReader
PROPERTIES
  RemoteCallsEnd
CHECK_DEADLOCK FALSE
