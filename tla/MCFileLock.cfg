\* Three contenders, one of them waiting, over a lock whose owner has died.
CONSTANTS
  NoFile = NoFile
  Procs = {a, b, c, g}
  Waiters = {b}
  Gone = {g}
  MaxLocks = 2
  MaxCrashes = 1
SPECIFICATION FairSpec
INVARIANTS
  ExclusiveUnlessDisplaced
  NoOrphanUnlessDisplaced
  ReclaimedOnce
PROPERTIES
  ImplementsRunLock
  DeadLockRecovered
CHECK_DEADLOCK FALSE
