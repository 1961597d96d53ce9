\* A line whose text cannot be hashed, where an earlier lifetime's was recorded: does the
\* cursor go back in a room nobody replaced?
SPECIFICATION Spec
CONSTANTS
  MaxPosts = 2
  Ring = 2
  Limit = 2
  MaxDeletes = 1
  Renumbers = {"new"}
  Refill <- MCBelow
  MaxCrashes = 0
  MaxFails = 0
  bodyOf <- MCStranger
PROPERTY BackOnlyWhenReplaced
CHECK_DEADLOCK FALSE
