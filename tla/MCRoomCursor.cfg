\* A room that overflows and is replaced twice: is anything skipped, handled twice, or left?
SPECIFICATION FairSpec
CONSTANTS
  MaxPosts = 3
  Ring = 2
  Limit = 1
  MaxDeletes = 2
  Renumbers = {"on", "new", "old"}
  Refill <- MCBelow
  MaxCrashes = 1
  MaxFails = 1
  bodyOf <- MCGarbled
INVARIANT HandledOnce
PROPERTIES NothingSkipped EveryMessageSettles
CHECK_DEADLOCK FALSE
