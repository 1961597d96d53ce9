\* A loop that may be late, fail or stop: is the room ours when the guard says so?
SPECIFICATION Spec
CONSTANTS
  Renewal = 1
  RetryFloor = 1
  Observation = 1
  MaxDoublings = 1
  LeaseMaxAge = 2
  MaxFailures = 2
  ObsMaxAge = 1
  Tolerance = 0
  Retention = 5
  Latency = 1
  Watcher = {lease, mailbox}
  LeaseLoop = lease
  Timely = FALSE
  MaxOutage = 7
  MaxSteps = 0
  MaxTime = 5
  Steps <- MCNoSteps
INVARIANTS OwnsIsOurs NeverStrays
CHECK_DEADLOCK FALSE
