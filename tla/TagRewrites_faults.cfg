SPECIFICATION Spec
CONSTANTS
  Workers = {w1, w2}
  NoWorker = NoWorker
  MaxVersion = 3
  MaxAttempts = 1
  Overrun = TRUE
  InDoubt = TRUE
SYMMETRY WorkerSymmetry
INVARIANTS
  WrittenMatchesMetadata
PROPERTIES
  ImplementsSync
CHECK_DEADLOCK FALSE
