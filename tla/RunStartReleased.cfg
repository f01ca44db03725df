SPECIFICATION Spec
CONSTANTS
  Keys = {k1}
  Checks = {c1}
  NoStart = NoStart
  MaxCrashes = 0
  MaxFaults = 1
INVARIANT QueuedIsReleased
CHECK_DEADLOCK FALSE
