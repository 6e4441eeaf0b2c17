SPECIFICATION FairSpec
CONSTANTS
  a = a
  b = b
  Leaves <- MCLeaves
  Elements <- MCElements
  Unusable <- MCUnusable
  MaxText = 2
  MaxStaged = 2
  MaxAsked = 5
  MaxRequests = 2
  MaxEvents = 2
  MaxFaults = 1
INVARIANTS
  NoStrayText
  LockAgrees
  EditsStayUsable
PROPERTIES
  ApplyUnlocks
CHECK_DEADLOCK FALSE
