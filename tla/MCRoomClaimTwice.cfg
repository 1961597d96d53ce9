\* The second guard of publish-profile lets through what has not read the room.
SPECIFICATION Spec
CONSTANTS
  Retention = 3
  LeaseLimit = 2
  MaxTicks = 3
  MaxFaults = 2
INVARIANTS RetryReadsFirst
CHECK_DEADLOCK FALSE
