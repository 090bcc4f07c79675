SPECIFICATION FairSpec
CONSTANTS
  Builds = {a}
  Loads = {x, y}
  Threshold = 1
  BatchResults = {"succeeded", "failed", "unreadable"}
  MayReset = TRUE
  MayCrash = TRUE
  Serial = FALSE
  None = None
PROPERTIES CacheSettles JobCleared
CHECK_DEADLOCK FALSE
