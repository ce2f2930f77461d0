\* A run abandoned while an invocation with retries drives it.
CONSTANTS
  u = u
  v = v
  N = 2
  Units = {u, v}
  Gated = {2}
  Tolerant = {1}
  LoopCap = 2
  MaxAttempts = 1
  MaxUnits = 4
  Width = 1
  Drivers = {d1}
  MaxRetries = 1
  Interruptible = {}
  Resumers = {}
  Abandoners = {a1}
  MaxFaults = 0
  LockMayBreak = FALSE
  UnitsOf <- FanOut
  MaxLoops <- OneLoop
SPECIFICATION Spec
PROPERTIES
  RetryReopensFailedStep
CHECK_DEADLOCK FALSE
