SPECIFICATION MCSpec
CONSTANTS
  Calls = {c1, c2}
  Ips = {i1}
  Mails = {m1}
  Users = {}
  Requests <- MCRequests
  Limit <- MCLimit
  Period <- MCPeriod
  MaxFaults = 1
  MaxRuns = 2
  MaxLost = 1
  MaxRows = 3
  PageSize = 1
  MaxChanges = 2
INVARIANTS
  StuckOnlyByFault
  SeedConverges RolesConfined
  CursorWalkExact OffsetWalkBounded
PROPERTIES
  CountersAreWindows BlockEnds
CHECK_DEADLOCK FALSE
