\* Two invocations of one run, a resume and an abandon beside them, and a crash
\* or a lost journal write; the lock is exclusive.
CONSTANTS
  u = u
  v = v
  N = 2
  Units = {u, v}
  Gated = {2}
  Tolerant = {1}
  LoopCap = 2
  MaxAttempts = 1
  MaxUnits = 4
  Width = 1
  Drivers = {d1, d2}
  MaxRetries = 0
  Interruptible = {d1}
  Resumers = {r1}
  Abandoners = {a1}
  MaxFaults = 1
  LockMayBreak = FALSE
  UnitsOf <- FanOut
  MaxLoops <- TwoLoops
SPECIFICATION Spec
INVARIANTS
  WithinBudget
  OneDispatcher
  RunningIsDispatched
  RejectedLoopIsOver
  ExhaustedOnlyByVerdict
  CompletedByWork
PROPERTIES
  CompletedUnitsAreFinal
  ImplementsSpine
CHECK_DEADLOCK FALSE
