SPECIFICATION FairSpec
CONSTANTS
  MaxTracks = 2
  Requests = {r1}
  NoRequest = NoRequest
  Sizes = {1}
  MaxOwnerBytes = 2
  MaxPending = 2
  Batch = 2
  Faults = {"rollback", "indoubt"}
INVARIANTS
  NothingLeaks
PROPERTIES
  PendingSettles
CHECK_DEADLOCK FALSE
