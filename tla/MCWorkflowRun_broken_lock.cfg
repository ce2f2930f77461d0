\* Two invocations whose lock file may have been displaced.
CONSTANTS
  u = u
  v = v
  N = 2
  Units = {u, v}
  Gated = {2}
  Tolerant = {1}
  LoopCap = 2
  MaxAttempts = 1
  MaxUnits = 4
  Width = 1
  Drivers = {d1, d2}
  MaxRetries = 0
  Interruptible = {}
  Resumers = {r1}
  Abandoners = {}
  MaxFaults = 0
  LockMayBreak = TRUE
  UnitsOf <- FanOut
  MaxLoops <- TwoLoops
SPECIFICATION Spec
INVARIANTS
  SpineInOrder
PROPERTIES
  StepsStayCompleted
CHECK_DEADLOCK FALSE
