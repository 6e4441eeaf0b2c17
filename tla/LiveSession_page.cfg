SPECIFICATION FairSpec
CONSTANTS
  MaxSessions = 2
  MaxAgain = 1
  Count = 1
  Rereads = 1
  HandledKept = 1
  MaxFaults = 1
INVARIANTS
  HandledStaysAway
  WorkNotGivenUp
  SavingHasAnAccept
  CreationBeforeProgress
  ReadyIsShown
PROPERTIES
  GenerationSettles
CHECK_DEADLOCK FALSE
