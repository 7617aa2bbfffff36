SPECIFICATION FairSpec
CONSTANTS
  Resists = TRUE
  WriteFails = TRUE
  SupervisorMayDie = TRUE
  LiveRootNeeded = FALSE
  Item = {i1, i2}
  Own = i1
  Shared = TRUE
  Checks = 2
  Optional = {1}
  MaxCrashes = 2
  RecipeThrows = TRUE
  Masks = TRUE
INVARIANTS TypeOK TreeGoneUnlessMasked
PROPERTIES NothingStartsUnreserved EndsOnce ExclusiveDirectory CancelSettles
CHECK_DEADLOCK FALSE
