SPECIFICATION Spec
CONSTANTS
  Builds = {a, b, c}
  Loads = {x, y}
  Threshold = 2
  BatchResults = {"succeeded", "failed", "unreadable"}
  MayReset = TRUE
  MayCrash = FALSE
  Serial = TRUE
  None = None
INVARIANTS NextSessionKnows ResetForgets NoOrphanBatch
PROPERTIES LossBounded
CHECK_DEADLOCK FALSE
