SPECIFICATION FairSpec
CONSTANTS
  Processes = {i1,i2}
  Handler = Handler
  Writers = {w1,w2}
  Objects = {o1,o2}
  NoObject = NoObject
  FormLife = 2
  WriteTime = 1
  SweepTime = 1
  Grace = 4
INVARIANTS
  PurgedStaysEmpty
PROPERTIES
  PurgeEnds
CHECK_DEADLOCK FALSE
