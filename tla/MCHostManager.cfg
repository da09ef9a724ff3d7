CONSTANTS
  Other = {h1}
  Self = self
  Device = {d1, d2}
  HeartbeatMax = 1
  Nobody = nobody
SPECIFICATION FairSpec
INVARIANTS
  DeathNeedsQuitNotice
  DanglingEntryNeedsQuitNotice
  EntryFollowsAnswer
PROPERTIES
  SilentHostIsDropped
  OfferedDeviceIsListed
CHECK_DEADLOCK FALSE
