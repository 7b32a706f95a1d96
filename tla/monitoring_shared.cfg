SPECIFICATION Spec
CONSTANTS
  Endpoints = {e1}
  Schedulers = {user, admin}
  Slots = {1}
  Clients = {c1}
  Intervals = {1}
  Thresholds = {2, 3}
  CronPeriod = 1
  CooldownTTL = 1
  MaxConcurrent = 1
  MaxTime = 1
  MaxFaults = 1
SYMMETRY SchedulerSymmetry
INVARIANTS TypeOK FailureCountBacked AlertsJustified DispatchBacked DownAnnounced
CHECK_DEADLOCK FALSE
