SPECIFICATION Spec
CONSTANTS
  MaxTrips = 2
  MaxFaults = 1
  MaxTime = 5
  Lookback = 2
  Timeout = 2
  Since = 2
  WaitLimit = 1
  CountLimit = 2
  PageLimit = 2
CHECK_DEADLOCK FALSE
INVARIANTS
  FoundInTime
  CountIsExact
