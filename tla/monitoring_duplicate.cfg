SPECIFICATION FairSpec
CONSTANTS
  Endpoints = {e1}
  Schedulers = {user, admin}
  Slots = {1}
  Clients = {}
  Intervals = {1}
  Thresholds = {1}
  CronPeriod = 1
  CooldownTTL = 3
  MaxConcurrent = 1
  MaxTime = 1
  MaxFaults = 0
PROPERTIES CooldownRespected
CHECK_DEADLOCK FALSE
