\* Two resumes of one run, each reading before its transaction.
CONSTANTS
  u = u
  v = v
  N = 2
  Units = {u, v}
  Gated = {2}
  Tolerant = {1}
  LoopCap = 2
  MaxAttempts = 1
  MaxUnits = 4
  Width = 1
  Drivers = {d1, d2}
  MaxRetries = 0
  Interruptible = {}
  Resumers = {r1, r2}
  Abandoners = {}
  MaxFaults = 0
  LockMayBreak = FALSE
  UnitsOf <- FanOut
  MaxLoops <- OneLoop
SPECIFICATION Spec
PROPERTIES
  CompletedIsTerminal
CHECK_DEADLOCK FALSE
