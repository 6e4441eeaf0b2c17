SPECIFICATION Spec
CONSTANTS
  Instances = {i1,i2}
  Requests = {r1,r2}
  Nowhere = Nowhere
  Missing = Missing
  TTL = 3
  MaxEpoch = 2
SYMMETRY Symmetry
INVARIANTS
  TokensEnd
CHECK_DEADLOCK FALSE
