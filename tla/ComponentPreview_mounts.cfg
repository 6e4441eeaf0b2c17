SPECIFICATION FairSpec
CONSTANTS
  MaxSessions = 2
  Count = 2
  MaxTasks = 2
  MaxAccepts = 2
  MaxFaults = 2
INVARIANTS
  ComparisonShown
  RecoveryOffered
  AcceptedIsCommitted
  NothingLingers
PROPERTIES
  PublishedIsShown
CHECK_DEADLOCK FALSE
