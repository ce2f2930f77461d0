\* One invocation that retries units and the run, two units at once.
CONSTANTS
  u = u
  v = v
  N = 2
  Units = {u, v}
  Gated = {2}
  Tolerant = {1}
  LoopCap = 2
  MaxAttempts = 2
  MaxUnits = 6
  Width = 2
  Drivers = {d1}
  MaxRetries = 1
  Interruptible = {}
  Resumers = {r1}
  Abandoners = {a1}
  MaxFaults = 1
  LockMayBreak = FALSE
  UnitsOf <- FanOut
  MaxLoops <- TwoLoops
SPECIFICATION FairSpec
INVARIANTS
  WithinBudget
PROPERTIES
  InvocationEnds
CHECK_DEADLOCK FALSE
