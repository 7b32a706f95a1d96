SPECIFICATION FairSpec
CONSTANTS
  Endpoints = {e1, e2}
  Schedulers = {user}
  Slots = {1, 2}
  Clients = {}
  Intervals = {1}
  Thresholds = {1}
  CronPeriod = 1
  CooldownTTL = 1
  MaxConcurrent = 1
  MaxTime = 1
  MaxFaults = 0

PROPERTIES TargetsChecked
CHECK_DEADLOCK FALSE
