\* A message that arrives between the two reads of a check: is it skipped?
SPECIFICATION Spec
CONSTANTS
  MaxPosts = 4
  Ring = 3
  Limit = 2
  MaxDeletes = 1
  Renumbers = {"new"}
  Refill = 1
  MaxCrashes = 1
  MaxFails = 1
  bodyOf <- MCDistinct
PROPERTY NothingSkipped
CHECK_DEADLOCK FALSE
