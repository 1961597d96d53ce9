\* The operator's commands beside the service's loops.
SPECIFICATION FairSpec
CONSTANTS
  Retention = 3
  LeaseLimit = 2
  MaxTicks = 3
  MaxFaults = 2
INVARIANTS NeverForeclosed LeaseIsTrue ReportIsTrue AttestedOnce
PROPERTIES ClaimIsNoticed
CHECK_DEADLOCK FALSE
