\* Lost, late and retried requests, a crash, and a clock that steps back a little.
SPECIFICATION Spec
CONSTANTS
  copy = copy
  again = again
  twice = twice
  receipt = receipt
  Stranger = Stranger
  Write <- MCWrite
  textOf <- MCTextOf
  Window = 2
  MaxTries = 2
  Startup = 3
  MaxClock = 4
  MaxBack = 1
  MaxCrashes = 1
  MaxOthers = 1
INVARIANTS LandsOnce ConfirmedIsStored
PROPERTY NoRewind
SYMMETRY MCSymmetry
CHECK_DEADLOCK FALSE
