SPECIFICATION FairSpec
CONSTANTS
  a = a
  b = b
  r1 = r1
  r2 = r2
  r3 = r3
  Skills = {a, b}
  Primary <- MCPrimary
  Results <- MCCrossedResults
  Requests = {r1, r2, r3}
  MaxSegments = 1
  InitialNodes <- MCOneNode
  EvidenceCap = 20
  MistakesCap = 2
  Serial = FALSE
  NoNode = NoNode
INVARIANTS FailedLeavesNoTrace
PROPERTIES RequestsEnd
CHECK_DEADLOCK FALSE
