SPECIFICATION FairSpec
CONSTANTS
  w1 = w1
  w2 = w2
  t1 = t1
  t2 = t2
  t3 = t3
  el1 = el1
  el2 = el2
  el3 = el3
  el4 = el4
  NoT = NoT
  GoneT = GoneT
  Tabs <- MCTabs
  Targets <- MCTargets
  Dry = {t3}
  AgentPick = el2
  Drags <- MCDrags
  Settings <- MCSettings
  NoTab = NoT
  GoneTab = GoneT
  MaxLoops = 2
  MaxGos = 2
INVARIANTS
  OneGo
  NoStrayPlaceholder
  LineFollowsPointer
PROPERTIES
  SessionKept
  OppositeSideStays
  Served
CHECK_DEADLOCK FALSE
