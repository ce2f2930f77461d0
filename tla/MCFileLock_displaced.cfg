\* Three contenders over a stale lock: the exclusion the header promises.
CONSTANTS
  NoFile = NoFile
  Procs = {a, b, c, g}
  Waiters = {}
  Gone = {g}
  MaxLocks = 1
  MaxCrashes = 0
SPECIFICATION Spec
INVARIANTS
  MutualExclusion
CHECK_DEADLOCK FALSE
