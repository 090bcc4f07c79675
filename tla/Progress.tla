------------------------------- MODULE Progress -------------------------------
(***************************************************************************)
(* What the application tells a user about their progress: the drill plan  *)
(* (services/memory/drill_planner.py, api/v1/skills.py), the dashboard     *)
(* (dashboard.py), the share card (share.py), the digest (digest.py) and   *)
(* the portfolio (portfolio.py).  Each computes its figures on its own,    *)
(* from the same rows.  An average is a pair of a sum and a number until   *)
(* it is shown: as a number of tenths, or in the digest of whole points.   *)
(***************************************************************************)
EXTENDS Integers, FiniteSets, SequencesExt, FiniteSetsExt

CONSTANTS SkillCount,    \* a skill is its place in get_user_graph: by category and name
          CategoryOf,
          Scores, Trends, Overdue,   \* values of a node: scores, trends, days overdue
          Histories,     \* session lists: sequences of [status, scores, rewound]
          Days,          \* days until the interview
          None

SkillNames == 1..SkillCount

Session == [status : STRING, scores : Seq(Nat), rewound : Nat]

(* Columns: current_score is 0..100, next_review_due a date or nothing; None is no number. *)
ASSUME ProgressAssumption ==
    /\ SkillCount \in Nat
    /\ Scores \subseteq 0..100 /\ Overdue \subseteq Int
    /\ Histories \subseteq Seq(Session)
    /\ Days \subseteq Int \cup {None} /\ None \notin Int

VARIABLE nodes           \* the user's skill nodes: skill -> node

Node == [score : Scores, trend : Trends, overdue : Overdue]

-------------------------------------------------------------------------------
(* The elements of S, each after those that are before it: a stable sort or a filter. *)
Listed(S, before) ==
    [p \in 1..Cardinality(S) |->
        CHOOSE x \in S : Cardinality({y \in S : <<y, x>> \in before}) = p - 1]

(* Averages. *)

Total(f) == MapThenSumSet(LAMBDA x : f[x], DOMAIN f)
ScoreOf(n) == [s \in DOMAIN n |-> n[s].score]

(* The integer nearest to sum / n, the even one of two. *)
Rounded(sum, n) ==
    LET nearest == (2 * sum + n) \div (2 * n) IN
    IF (2 * sum + n) % (2 * n) = 0 /\ nearest % 2 = 1 THEN nearest - 1 ELSE nearest

(* round(sum / n, 1), in tenths: with fewer than 20 values a tie is a quarter, which a float
   holds exactly.  f"{sum / n:.0f}": a tie is a half. *)
Tenths(sum, n) == Rounded(10 * sum, n)
Points(sum, n) == Rounded(sum, n)

MeanSkill(n) == Tenths(Total(ScoreOf(n)), Cardinality(DOMAIN n))

(* The average of n is below the average of m. *)
Below(n, m) ==
    Total(ScoreOf(n)) * Cardinality(DOMAIN m) < Total(ScoreOf(m)) * Cardinality(DOMAIN n)

(* create_share_card: a category's average; get_skill_graph: its weakest, before rounding. *)
InCategory(n, c) == {s \in DOMAIN n : CategoryOf[s] = c}
CategoryMean(n, c) ==
    Tenths(Total([s \in InCategory(n, c) |-> n[s].score]), Cardinality(InCategory(n, c)))
Categories(n) == {CategoryOf[s] : s \in DOMAIN n}
WeakestCategories(n) ==
    LET Of(c) == [s \in InCategory(n, c) |-> n[s]] IN
    {c \in Categories(n) : \A d \in Categories(n) : ~Below(Of(d), Of(c))}

-------------------------------------------------------------------------------
(* The drill plan.  _urgency_score, in hundredths; overdue is negative before the date. *)

\* mutant: the stronger skill first
Urgency_NotInverted(node) ==
    node.score + Min({50, Max({0, 10 * node.overdue})})
        + (IF node.trend = "declining" THEN 20 ELSE IF node.trend = "improving" THEN -10 ELSE 0)

Urgency(node) ==
    (100 - node.score) + Min({50, Max({0, 10 * node.overdue})})
        + (IF node.trend = "declining" THEN 20 ELSE IF node.trend = "improving" THEN -10 ELSE 0)

(* sorted(..., reverse=True) keeps the order of equal elements. *)
MoreUrgent(n, s, t) ==
    LET first == Urgency(n[s])
        second == Urgency(n[t])
    IN first > second \/ (first = second /\ s < t)

RankedSkills(n) ==
    Listed(DOMAIN n, {p \in {<<s, t>> : s, t \in DOMAIN n} : MoreUrgent(n, p[1], p[2])})

(* get_drill_plan: a date in the past is no date. *)
DaysUntil(days) == IF days = None \/ days < 0 THEN None ELSE days

CountdownUrgency(days) ==
    CASE DaysUntil(days) = None -> "none"
      [] days \in 0..7 -> "critical"
      [] days \in 8..21 -> "high"
      [] days \in 22..60 -> "normal"
      [] OTHER -> "relaxed"

PlanScale(days) ==
    CASE CountdownUrgency(days) = "critical" -> [slots |-> 7, questions |-> 3]
      [] CountdownUrgency(days) = "high" -> [slots |-> 5, questions |-> 2]
      [] OTHER -> [slots |-> 3, questions |-> 1]

(* The skills of the slots, the questions of a slot, seven minutes each. *)
WeeklyPlan(n, days) ==
    SubSeq(RankedSkills(n), 1, Min({PlanScale(days).slots, Cardinality(DOMAIN n)}))

Questions(n, days, s) == PlanScale(days).questions + (IF n[s].score < 60 THEN 1 ELSE 0)

PlanMinutes(n, days) ==
    7 * Total([s \in ToSet(WeeklyPlan(n, days)) |-> Questions(n, days, s)])

-------------------------------------------------------------------------------
(* Sessions.  A score belongs to a session whatever its status. *)

ScoreSum(list) == Total([i \in DOMAIN list |-> Total(list[i].scores)])
ScoreCount(list) == Total([i \in DOMAIN list |-> Len(list[i].scores)])
MeanScore(list) == Tenths(ScoreSum(list), ScoreCount(list))

Completed(list) ==
    LET done == {i \in DOMAIN list : list[i].status = "completed"}
        order == Listed(done, {p \in done \X done : p[1] < p[2]})
    IN [p \in DOMAIN order |-> list[order[p]]]

(* get_dashboard: readiness_estimate, avg_score_all_time *)
Readiness(n, signal) == Min({100, (6 * MeanSkill(n)) \div 100 + signal})
DashboardReadiness(n, list, stories) ==
    Readiness(n, Min({30, 3 * Len(list)}) + Min({10, 2 * stories}))
DashboardMean(list) == MeanScore(list)

(* create_share_card *)
CardReadiness(n, list) == Readiness(n, Min({30, 3 * Len(Completed(list))}))

(* _build_stats of the digest does not round; the email shows whole points. *)
DigestMean(list) == Points(ScoreSum(Completed(list)), ScoreCount(Completed(list)))

(* export_portfolio: per completed session, and over all scores. *)
PortfolioSummary(list) ==
    [i \in DOMAIN Completed(list) |->
        LET s == Completed(list)[i] IN
        [mean |-> IF s.scores = <<>> THEN None ELSE Tenths(Total(s.scores), Len(s.scores)),
         rewound |-> s.rewound]]
PortfolioMean(list) == MeanScore(list)
PortfolioRewound(list) == Total([i \in DOMAIN list |-> list[i].rewound])

-------------------------------------------------------------------------------
(* get_benchmark: the share of users in the pool below the user's average, as a whole
   percentage.  The pool holds the users with a node, the user included; without nodes the
   user's average is 0. *)
Percentile(pool, me) ==
    IF pool[me] = <<>> THEN 0
    ELSE LET ranked == {u \in DOMAIN pool : pool[u] # <<>>} IN
         (100 * Cardinality({u \in ranked : Below(pool[u], pool[me])})) \div Cardinality(ranked)

-------------------------------------------------------------------------------
(* Any user; a new one has no nodes, and then no readiness and no card. *)
ProgressInit == nodes \in UNION {[1..k -> Node] : k \in 0..SkillCount}

(* The views only read. *)
ProgressSpec == ProgressInit /\ [][FALSE]_nodes

-------------------------------------------------------------------------------
(* A skill that is weaker, at least as overdue and at least as much in decline as another; an
   interview that is nearer than another or none. *)
TrendRank(node) == IF node.trend = "declining" THEN 0 ELSE IF node.trend = "improving" THEN 2 ELSE 1

Needier(s, t) ==
    /\ nodes[s].score < nodes[t].score
    /\ nodes[s].overdue >= nodes[t].overdue
    /\ TrendRank(nodes[s]) <= TrendRank(nodes[t])

Nearer(d, e) == DaysUntil(d) # None /\ (DaysUntil(e) = None \/ d <= e)

(* The drill plan serves the needier skill first and never leaves it out for the other; the nearer
   the interview, the more slots, with the same skills first and no fewer questions each; and an
   interview that is over leaves the plan of no interview. *)
PlanFitsNeed ==
    \A d \in Days : LET plan == WeeklyPlan(nodes, d)
                        minutes == PlanMinutes(nodes, d) IN
       /\ \A i, j \in DOMAIN plan : Needier(plan[i], plan[j]) => i < j
       /\ \A s \in DOMAIN nodes \ ToSet(plan), i \in DOMAIN plan : ~Needier(s, plan[i])
       /\ \A e \in Days : Nearer(d, e) => LET later == WeeklyPlan(nodes, e) IN
             /\ IsPrefix(later, plan)
             /\ \A s \in ToSet(later) : Questions(nodes, e, s) <= Questions(nodes, d, s)
             /\ PlanMinutes(nodes, e) <= minutes
       /\ DaysUntil(d) = None => /\ plan = WeeklyPlan(nodes, None)
                                  /\ minutes = PlanMinutes(nodes, None)

(* Readiness stays within 0..100, and the card, which "uses the same readiness formula as
   dashboard", never claims more than the dashboard and as much when there are no stories and
   every session is completed. *)
ReadinessAgrees ==
    nodes # <<>> =>
       \A list \in Histories, stories \in {0, 1, 6} :
          LET shown == DashboardReadiness(nodes, list, stories) IN
          /\ shown \in 0..100
          /\ CardReadiness(nodes, list) \in 0..shown
          /\ stories = 0 /\ Completed(list) = list => CardReadiness(nodes, list) = shown

(* The digest, which counts completed sessions and shows whole points, and the dashboard, which
   counts all sessions and shows tenths, are half a point apart at most when the scores of the
   completed sessions are all there are; and the mean of a session lies between its scores. *)
SessionMeansAgree ==
    \A list \in Histories : LET done == Completed(list) IN
       /\ /\ ScoreCount(list) > 0
          /\ ScoreCount(done) = ScoreCount(list) /\ ScoreSum(done) = ScoreSum(list)
          => 10 * DigestMean(list) - DashboardMean(list) \in -5..5
       /\ \A i \in DOMAIN done : LET marks == ToSet(done[i].scores) IN marks # {} =>
             PortfolioSummary(list)[i].mean \in 10 * Min(marks)..10 * Max(marks)

(* The weakest categories are not above the average of all skills. *)
MeansAgree ==
    /\ SessionMeansAgree
    /\ \A c \in WeakestCategories(nodes) : CategoryMean(nodes, c) <= MeanSkill(nodes)

(* Among the users (here: some with one of these nodes, some with several) nobody is ranked
   above one with a better average, and nobody above all. *)
RanksAgree ==
    LET pool == [part \in {{s} : s \in DOMAIN nodes} \cup {1..k : k \in DOMAIN nodes} |->
                    [s \in part |-> nodes[s]]]
    IN \A a \in DOMAIN pool : LET place == Percentile(pool, a) IN
          /\ place < 100
          /\ \A b \in DOMAIN pool : Below(pool[a], pool[b]) => place <= Percentile(pool, b)

(* The plan fits the need, and the views agree on one person. *)
FiguresAgree == PlanFitsNeed /\ ReadinessAgrees /\ MeansAgree /\ RanksAgree
===============================================================================
