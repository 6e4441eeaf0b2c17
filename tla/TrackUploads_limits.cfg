SPECIFICATION Spec
CONSTANTS
  MaxTracks = 2
  Requests = {r1, r2}
  NoRequest = NoRequest
  Sizes = {1, 2}
  MaxOwnerBytes = 3
  MaxPending = 1
  Batch = 2
  Faults = {"late", "storage"}
SYMMETRY RequestSymmetry
INVARIANTS
  PlayableUntilDeleted
PROPERTIES
  ImplementsLibrary
CHECK_DEADLOCK FALSE
