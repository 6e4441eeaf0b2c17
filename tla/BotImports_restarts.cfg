SPECIFICATION FairSpec
CONSTANTS
  MaxTracks = 4
  MaxAttempts = 2
  MaxRestarts = 1
INVARIANTS
  DoneIsPlayable
  ImportedOnce
PROPERTIES
  ImportEnds
CHECK_DEADLOCK FALSE
