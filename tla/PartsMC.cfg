SPECIFICATION MCSpec
CONSTANTS
  \* SpokenTurn
  MaxSentences = 3
  Blanks = {2}
  Chunks = 2
  MayFallBack = TRUE
  \* Delivery
  PhraseWords = 20
  Pauses = {0, 3000}
  Lengths = {9000}
  Fillers = {0, 3}
  Messages = {0, 2}
  MaxPhrases = 5
  NoScore = 0
  \* Progress
  SkillCount = 4
  CategoryOf <- MCCategory
  Scores = {59, 60}
  Trends = {"declining", "improving"}
  Overdue <- MCOverdue
  Histories <- MCHistories
  Days <- MCDays
  None = None
  \* Provisioning
  MaxMoves = 6
  SeedThreshold = 100
  \* Erasure
  Accounts = {u1}
  Demos = {d1}
  Nobody = Nobody
  MaxInserts = 2
  \* Outreach
  Users = {u1, u2}
  Jobs = {j1}
  Cards = {k1}
  Ttl = 0
  MaxDays = 1
  Absent = Absent
INVARIANTS HeardAsRead DeliveryFair FiguresAgree BankAsReleased NothingLeft DigestReaches
PROPERTIES TurnEnds ImplementsTurn
CHECK_DEADLOCK FALSE
