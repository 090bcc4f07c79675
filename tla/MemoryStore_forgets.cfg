SPECIFICATION Spec
CONSTANTS
  Builds = {a, b}
  Loads = {x}
  Threshold = 1
  BatchResults = {"succeeded"}
  MayReset = FALSE
  MayCrash = FALSE
  Serial = TRUE
  None = None
PROPERTIES MergesKept
CHECK_DEADLOCK FALSE
