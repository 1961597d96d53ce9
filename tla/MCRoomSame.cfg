\* The same words at the cursor of a new room: is it taken for the old one?
SPECIFICATION Spec
CONSTANTS
  MaxPosts = 5
  Ring = 3
  Limit = 2
  MaxDeletes = 1
  Renumbers = {"new"}
  Refill <- MCBelow
  MaxCrashes = 1
  MaxFails = 1
  bodyOf <- MCRepeated
PROPERTY NothingSkipped
CHECK_DEADLOCK FALSE
