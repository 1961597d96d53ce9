\* Two processes migrate one ledger file.
SPECIFICATION FairSpec
CONSTANTS
  service = service
  cli = cli
  r1 = r1
  r2 = r2
  Proc = {service, cli}
  Retired <- MCRetired
  Added <- MCAdded
  Receipt = {r1, r2}
  Internal = {r2}
  MaxFaults = 2
INVARIANTS OpenedHasShape BacklogIsQueue MarkedIsScrubbed
PROPERTY OpensAtLast
CHECK_DEADLOCK FALSE
