\* The first read of an invocation precedes its lock.
CONSTANTS
  u = u
  v = v
  N = 2
  Units = {u, v}
  Gated = {}
  Tolerant = {1}
  LoopCap = 2
  MaxAttempts = 1
  MaxUnits = 4
  Width = 1
  Drivers = {d1, d2}
  MaxRetries = 0
  Interruptible = {}
  Resumers = {}
  Abandoners = {}
  MaxFaults = 1
  LockMayBreak = FALSE
  UnitsOf <- FanOut
  MaxLoops <- OneLoop
SPECIFICATION Spec
PROPERTIES
  DispatchesCurrentStep
CHECK_DEADLOCK FALSE
