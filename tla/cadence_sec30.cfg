SPECIFICATION Spec
CONSTANTS
  Schedulers = {user}
  CronPeriod = 2
  Interval = 2
  MaxJitter = 0
  MaxTime = 9
  MaxRuns = 1
  MaxFaults = 0
PROPERTIES CheckedEachInterval
CHECK_DEADLOCK FALSE
