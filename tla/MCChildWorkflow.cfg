CONSTANTS
  p = p
  q = q
  root = root
  child = child
  grandchild = grandchild
  None = None
  Root = root
  Children = {child, grandchild}
  Parent <- MCParent
  Step <- MCStep
  Len <- MCLen
  Procs = {p, q}
  MaxFaults = 2
SPECIFICATION FairSpec
INVARIANTS
  AdvancesOnCompletedChildren
  AttemptsFinished
PROPERTIES
  ImplementsSpines
  RecoveryConverges
