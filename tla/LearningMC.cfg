SPECIFICATION MCSpec
SYMMETRY MCSymmetry
CONSTANTS
  \* SkillGraph
  a = a
  b = b
  r1 = r1
  r2 = r2
  r3 = r3
  Skills = {a, b}
  Primary <- MCPrimary
  Results <- MCResults
  Requests = {r1, r2, r3}
  MaxSegments = 2
  InitialNodes <- MCInitialNodes
  EvidenceCap = 20
  MistakesCap = 2
  Serial = TRUE
  NoNode = NoNode
  \* Scoring
  Scorings = {c1, c2}
  Deliveries = {d1, d2}
  Analyses = {n1}
  Rewinds = {w1, w2}
  Segments = {s1, s2}
  RewindScores = {60, 80}
  MaxRequests = 3
  MayFail = TRUE
  MayDelete = TRUE
  Legacy = Legacy
  None = None
INVARIANTS BestCoversScore EveryUpdateKept ReviewMatchesScore
           SkillsFollowRows SkillsOnce ReportsStable RewindsKept
PROPERTIES IdempotentAlone
CHECK_DEADLOCK FALSE
