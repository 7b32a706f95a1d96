SPECIFICATION SerialSpec
CONSTANTS
  Endpoints = {e1}
  Schedulers = {user}
  Slots = {1}
  Clients = {c1}
  Intervals = {1}
  Thresholds = {2}
  CronPeriod = 1
  CooldownTTL = 3
  MaxConcurrent = 1
  MaxTime = 4
  MaxFaults = 0
PROPERTIES CooldownRespected DownOnConsecutive
CHECK_DEADLOCK FALSE
