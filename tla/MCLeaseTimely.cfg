\* A timely loop and an upstream that fails six days of seven: does the lease hold?
SPECIFICATION Spec
CONSTANTS
  Renewal = 2
  RetryFloor = 1
  Observation = 1
  MaxDoublings = 2
  LeaseMaxAge = 6
  MaxFailures = 8
  ObsMaxAge = 1
  Tolerance = 0
  Retention = 14
  Latency = 0
  Watcher = {lease}
  LeaseLoop = lease
  Timely = TRUE
  MaxOutage = 11
  MaxSteps = 1
  MaxTime = 16
  Steps <- MCBackLong
INVARIANT NeverLapses
CHECK_DEADLOCK FALSE
