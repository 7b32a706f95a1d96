SPECIFICATION Spec
CONSTANTS
  Requests = {r1, r2, r3, r4}
  Guarded = FALSE
  SessionTtl = 2
  ResetTtl = 1
  MaxTime = 2
  MaxFaults = 1
SYMMETRY Symmetry
INVARIANTS TypeOK ResetTokenSpent EndedStaysEnded SessionsTracked ResetEndsSessions
CHECK_DEADLOCK FALSE
