SPECIFICATION MCSpec
CONSTANTS
  \* Authentication
  Requests = {b1, b2}
  UserIds = {c1, c2}
  Emails = {e1, e2}
  Passwords = {p1, p2}
  LockoutAttempts = 2
  RateLimit = 1
  None = None
  \* Profile
  Writers = {a1, a2, a3}
  Prefs = {b1, b2}
  Providers = {c1, c2}
  Nothing = Nothing
  \* QuestionBank
  Visitors = {a1, a2, a3}
  Voters = {b1, b2}
  Seeded = {q1, q2}
  Offered = {q3}
  Tips = {t1}
  q1 = q1
  q2 = q2
  q3 = q3
  strength = strength
  weakness = weakness
  ours = ours
  theirs = theirs
  SkillsTested <- MCSkills
  TypeOf <- MCType
  CompanyOf <- MCCompany
  Window = 2
  NoRow = NoRow
  \* StoryBank
  Tellers = {a1, a2, a3}
  StoryIds = {b1, b2, s}
  Titles = {title}
  Competencies = {competency}
  Interviews = {i1}
  Averages = {40, 80}
  OveruseThreshold = 2
  Gone = Gone
  \* SessionLifecycle
  Sessions = {c1, c2}
  SessionRequests = {a1, a2, a3}
  Sockets = {b1, b2}
  MaxTurns = 1
  Nil = Nil
  Deleted = Deleted
INVARIANTS LockoutBites RateWindowHolds FieldsKept CountersTrue StoryFiguresTrue
           FreeSessionOnce ScoresCoverTranscript ReportsTrue
PROPERTIES PromiseKept
CHECK_DEADLOCK FALSE
SYMMETRY Symmetry
