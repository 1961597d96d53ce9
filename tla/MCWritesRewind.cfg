\* A clock that stepped back while the process was down: does the ledger cover it?
SPECIFICATION Spec
CONSTANTS
  copy = copy
  again = again
  twice = twice
  receipt = receipt
  Stranger = Stranger
  Write <- MCWrite
  textOf <- MCTextOf
  Window = 2
  MaxTries = 2
  Startup = 3
  MaxClock = 5
  MaxBack = 4
  MaxCrashes = 1
  MaxOthers = 1
PROPERTY NoRewind
CHECK_DEADLOCK FALSE
