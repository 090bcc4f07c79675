SPECIFICATION Spec
CONSTANTS
  Builds = {a, b}
  Loads = {x}
  Threshold = 1
  BatchResults = {"succeeded", "failed", "unreadable"}
  MayReset = TRUE
  MayCrash = TRUE
  Serial = FALSE
  None = None
INVARIANTS ResetRowClean
CHECK_DEADLOCK FALSE
