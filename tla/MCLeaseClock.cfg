\* The wall clock steps back while the node is down: does the sink stay shut?
SPECIFICATION Spec
CONSTANTS
  Renewal = 1
  RetryFloor = 1
  Observation = 1
  MaxDoublings = 2
  LeaseMaxAge = 2
  MaxFailures = 2
  ObsMaxAge = 1
  Tolerance = 0
  Retention = 5
  Latency = 1
  Watcher = {lease, mailbox}
  LeaseLoop = lease
  Timely = FALSE
  MaxOutage = 7
  MaxSteps = 1
  MaxTime = 7
  Steps <- MCBack
INVARIANT OwnsIsOurs
CHECK_DEADLOCK FALSE
