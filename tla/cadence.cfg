SPECIFICATION Spec
CONSTANTS
  Schedulers = {user, admin}
  CronPeriod = 2
  Interval = 2
  MaxJitter = 1
  MaxTime = 6
  MaxRuns = 3
  MaxFaults = 1
SYMMETRY SchedulerSymmetry
INVARIANTS NeverForgotten
PROPERTIES NeverEarly
CHECK_DEADLOCK FALSE
