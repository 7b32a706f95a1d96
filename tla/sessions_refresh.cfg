SPECIFICATION Spec
CONSTANTS
  Requests = {r1, r2}
  Guarded = TRUE
  SessionTtl = 2
  ResetTtl = 1
  MaxTime = 2
  MaxFaults = 0
PROPERTIES RefusedOnlyIfEnded
CHECK_DEADLOCK FALSE
