SPECIFICATION FairSpec
CONSTANTS
  Workers = {w1}
  NoWorker = NoWorker
  MaxVersion = 3
  MaxAttempts = 2
  Overrun = FALSE
  InDoubt = FALSE
INVARIANTS
  PlayableUntilDeleted
  PlaybackUndisturbed
  NothingLeaks
PROPERTIES
  CollectorSparesUsed
  EditsSettle
CHECK_DEADLOCK FALSE
