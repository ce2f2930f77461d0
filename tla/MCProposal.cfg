CONSTANTS
  w = w
  r = r
  old = old
  twin = twin
  note = note
  None = None
  Writes = {w}
  Retires = {r}
  Files = {old, twin, note}
  Target <- MCTarget
  Successor <- MCSuccessor
  Twin <- MCTwin
  Supersedes = {r}
  Created = {}
  MaxClock = 2
  MaxCrashes = 2
SPECIFICATION Spec
CHECK_DEADLOCK FALSE
INVARIANTS
  LedgerFollowsStatus
  IntentHoldsOriginal
  RevertCanResume
PROPERTIES
  NothingNewerOverwritten
  RevertRestoresBase
  AcceptedIsOnDisk
  SuccessorStands
  ArchivedNotLost
  ImplementsDecisions
  AcceptRetires
