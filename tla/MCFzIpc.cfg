CONSTANTS
  Client = {c1, c2}
  MaxCalls = 3
SPECIFICATION FairSpec
INVARIANTS
  TypeOK
  OneCommandInFlight
  ReleaseFindsLockHeld
  AnswerBeforeReply
  NoSilentStall
  LeftoverSegmentHasOwner
PROPERTIES
  KeepsPromise
  SegmentOutlivesCall
  DropNeedsAnotherClient
  CallEndsUnlessLost
  AnsweredCallIsCleanedUp
CHECK_DEADLOCK FALSE
