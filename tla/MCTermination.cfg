CONSTANTS
  c1 = c1
  c2 = c2
  Children = {c1, c2}
  Sent <- MCSent
  MaxSignals = 2
SPECIFICATION FairSpec
CHECK_DEADLOCK FALSE
INVARIANTS
  ChildrenFirst
  LauncherReflects
PROPERTIES
  SignalledEnds
  LadderEnds
