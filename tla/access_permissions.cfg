SPECIFICATION SeedSpec
CONSTANTS
  MaxRuns = 1
  MaxLost = 0
INVARIANT SuperAdminHasAll
CHECK_DEADLOCK FALSE
