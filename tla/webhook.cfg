SPECIFICATION FairSpec
CONSTANTS
  Jobs = {alert, test}
  TestJobs = {test}
  Channels = {c1}
  Urls = {u1, u2}
  Clients = {k1}
  MaxRetry = 2
  RetryDelays <- Delays
  PostTimeout = 1
  MaxTime = 7
  MaxFaults = 1
INVARIANTS TypeOK RevocationTakesHold LogTruthful
PROPERTIES NotResent CallsSettle
CHECK_DEADLOCK FALSE
