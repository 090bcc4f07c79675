----------------------------- MODULE ScoringProofs -----------------------------
(***************************************************************************)
(* Proofs about Scoring, for any number of requests and segments, whether  *)
(* they overlap, fail or meet a deletion:                                  *)
(*   - every place of a request has the objects it writes back;            *)
(*   - the summary in lint_results has its rows, and what a scoring has    *)
(*     answered is stored;                                                 *)
(*   - a segment has moved the skill graph exactly if its row is stored.   *)
(*                                                                         *)
(* The idea: a request may write back an old lint_results, but whatever    *)
(* any request has read is still true, since rows only grow as long as     *)
(* the session exists (Standing), and no one can have read the summary of  *)
(* a scoring that has not committed (NotYet).                              *)
(*                                                                         *)
(* And for requests that do not overlap, any number of them, one failing   *)
(* or not after the other:                                                 *)
(*   - no segment moves the skill graph twice, and a scoring without force *)
(*     adds rows only to a session without any;                            *)
(*   - a report never changes;                                             *)
(*   - rewind_count and best_rewind_score are those of the answers.        *)
(*                                                                         *)
(* The idea there: as long as one request at a time is under way, the      *)
(* objects it holds are what the database has (Current), so it writes back *)
(* a lint_results in which only its own key is new.                        *)
(***************************************************************************)
EXTENDS Scoring, FiniteSetTheorems, TLAPS

USE ConstantsAssumption DEF Reports, ScoringRequests, Scorers, Rows

-----------------------------------------------------------------------------
(* Type correctness *)

LEMMA InitType == ScoringInit => ScoringTypeOK
<1>1. Fresh \in Session /\ ScoredBefore \in Session
  BY DEF Fresh, ScoredBefore, NoLint, Session, Lint
<1>2. [count |-> 0, best |-> 0] \in Tracking /\ "scored" \in Outcomes /\ "failed" \in Outcomes
  BY DEF Tracking, Outcomes
<1> SUFFICES ASSUME ScoringInit PROVE ScoringTypeOK
  OBVIOUS
<1>3. /\ rows \subseteq Rows
      /\ rewound \in [Rows -> Tracking] /\ skills \in [Rows -> Nat]
      /\ draft \in [Scorers -> [Segments -> Outcomes]]
  BY <1>2 DEF ScoringInit
<1>4. /\ DOMAIN answer = ScoringRequests
      /\ \A p \in ScoringRequests : answer[p] = None /\ spc[p] = "idle"
  BY DEF ScoringInit
<1> QED
  BY <1>1, <1>3, <1>4 DEF ScoringInit, ScoringTypeOK

\* An answer ends the request and changes nothing of the others.
Answered(p, what) ==
    /\ spc' = [spc EXCEPT ![p] = "done"]
    /\ DOMAIN answer' = ScoringRequests /\ answer'[p] = what
    /\ \A q \in ScoringRequests \ {p} : answer'[q] = answer[q]
    /\ loaded' \in [Scorings \cup Reports -> Session \cup {None}]
    /\ \A q \in Scorings \cup Reports : loaded'[q] = IF q = p THEN None ELSE loaded[q]
    /\ target' \in [Rewinds -> (Rows \X Tracking) \cup {None}]
    /\ \A q \in Rewinds : target'[q] = IF q = p THEN None ELSE target[q]

LEMMA AnswerType ==
    ASSUME NEW p \in ScoringRequests, NEW what, ScoringTypeOK, Answer(p, what)
    PROVE  Answered(p, what)
  BY DEF ScoringTypeOK, Answer, Answered, Goto, Close

\* What the cache of a report may hold.
ReportOf(g) == IF g \in Deliveries THEN {"words", "turns"} ELSE Analyses

AnswerOf(p) ==
    IF p \in Scorings THEN SUBSET Rows
    ELSE IF p \in Rewinds THEN Rows \X RewindScores ELSE ReportOf(p)

\* What is left to show for a step that answers.
LEMMA AnsweredType ==
    ASSUME NEW p \in ScoringRequests, NEW what \in AnswerOf(p) \cup {None}, ScoringTypeOK,
           Answered(p, what),
           session' \in Session \cup {None}, rows' \subseteq Rows,
           rewound' \in [Rows -> Tracking], skills' \in [Rows -> Nat],
           UNCHANGED <<words, force, draft, overlapped>>
    PROVE  ScoringTypeOK'
<1>1. spc' \in [ScoringRequests -> {"idle", "llm", "existing", "backfill", "refresh", "report",
                           "rewind", "done", "failed"}]
  BY DEF ScoringTypeOK, Answered
<1>2. \A r \in Scorings : answer'[r] \in (SUBSET Rows) \cup {None}
  BY DEF ScoringTypeOK, Answered, AnswerOf
<1>3. /\ \A g \in Deliveries : answer'[g] \in {"words", "turns", None}
      /\ \A g \in Analyses : answer'[g] \in Analyses \cup {None}
  <2>1. /\ p \in Deliveries => what \in {"words", "turns", None}
        /\ p \in Analyses => what \in Analyses \cup {None}
    BY DEF AnswerOf, ReportOf
  <2>2. /\ \A g \in Deliveries : g \in ScoringRequests
        /\ \A g \in Analyses : g \in ScoringRequests
    OBVIOUS
  <2>3. /\ \A g \in Deliveries : answer[g] \in {"words", "turns", None}
        /\ \A g \in Analyses : answer[g] \in Analyses \cup {None}
    BY DEF ScoringTypeOK
  <2>4. answer'[p] = what /\ \A q \in ScoringRequests \ {p} : answer'[q] = answer[q]
    BY DEF Answered
  <2> QED
    BY <2>1, <2>2, <2>3, <2>4
<1>4. \A w \in Rewinds : answer'[w] \in (Rows \X RewindScores) \cup {None}
  BY DEF ScoringTypeOK, Answered, AnswerOf
<1>5. \A q \in Scorings \cup (Deliveries \cup Analyses) :
        spc'[q] \in {"llm", "existing", "backfill", "report"} => loaded'[q] \in Session \ {None}
  BY DEF ScoringTypeOK, Answered
<1>6. \A w \in Rewinds : spc'[w] = "rewind" => target'[w] \in Rows \X Tracking
  BY DEF ScoringTypeOK, Answered
<1> QED
  BY <1>1, <1>2, <1>3, <1>4, <1>5, <1>6 DEF ScoringTypeOK, Answered

LEMMA StartScoringType ==
    ASSUME NEW r \in Scorings, NEW forced \in BOOLEAN, ScoringTypeOK, StartScoring(r, forced)
    PROVE  ScoringTypeOK'
  BY DEF ScoringTypeOK, StartScoring, Begin, Goto

LEMMA ReadExistingType ==
    ASSUME NEW r \in Scorings, ScoringTypeOK, ReadExisting(r)
    PROVE  ScoringTypeOK'
<1>1. CASE Answer(r, rows)
  <2>1. Answered(r, rows)
    BY <1>1, AnswerType
  <2> QED
    BY <2>1, AnsweredType DEF ScoringTypeOK, ReadExisting, AnswerOf
<1>2. CASE /\ Goto(r, "backfill") /\ answer' = [answer EXCEPT ![r] = rows]
           /\ UNCHANGED <<loaded, target>>
  BY <1>2 DEF ScoringTypeOK, ReadExisting, Goto
<1> QED
  BY <1>1, <1>2 DEF ReadExisting

LEMMA BackfillType ==
    ASSUME NEW r \in Scorings, ScoringTypeOK, Backfill(r)
    PROVE  ScoringTypeOK'
<1>1. session \in Session /\ loaded[r] \in Session
  BY DEF ScoringTypeOK, Backfill
<1>2. session' \in Session
  BY <1>1 DEF Backfill, Session, Lint
<1>3. skills' \in [Rows -> Nat]
  BY DEF ScoringTypeOK, Backfill
<1>4. answer[r] \in (SUBSET Rows) \cup {None}
  BY DEF ScoringTypeOK
<1>5. Answered(r, answer[r])
  BY AnswerType DEF Backfill
<1> QED
  BY <1>2, <1>3, <1>4, <1>5, AnsweredType DEF ScoringTypeOK, Backfill, AnswerOf

\* What a scoring merges is a summary of its own.
LEMMA ScoredSessionType ==
    ASSUME NEW r \in Scorings, loaded[r] \in Session
    PROVE  /\ ScoredSession(r) \in Session
           /\ ScoredSession(r).lint.scored = r
  BY DEF ScoredSession, Session, Lint

LEMMA CommitScoresType ==
    ASSUME NEW r \in Scorings, ScoringTypeOK, CommitScores(r)
    PROVE  ScoringTypeOK'
<1>1. loaded[r] \in Session
  BY DEF ScoringTypeOK, CommitScores
<1>2. PICK outcomes \in [Segments -> Outcomes] :
        /\ draft' = [draft EXCEPT ![r] = outcomes]
        /\ \/ UNCHANGED <<session, rows, skills>>
           \/ /\ rows' = StoredRows(r, outcomes)
              /\ skills' = [id \in Rows |->
                              IF id[1] = r /\ outcomes[id[2]] = "scored" THEN skills[id] + 1
                              ELSE skills[id]]
              /\ session' = ScoredSession(r)
  BY DEF CommitScores, Outcomes
<1>3. session' \in Session \cup {None}
  BY <1>1, <1>2, ScoredSessionType DEF ScoringTypeOK
<1>4. rows' \subseteq Rows /\ skills' \in [Rows -> Nat]
  BY <1>2 DEF ScoringTypeOK, StoredRows, RowsOf
<1>5. draft' \in [Scorers -> [Segments -> Outcomes]]
  BY <1>2 DEF ScoringTypeOK
<1> QED
  BY <1>3, <1>4, <1>5 DEF ScoringTypeOK, CommitScores, Goto

LEMMA RefreshType ==
    ASSUME NEW r \in Scorings, ScoringTypeOK, Refresh(r)
    PROVE  ScoringTypeOK'
<1>1. RowsOf(r, draft[r]) \in SUBSET Rows
  BY DEF RowsOf
<1>2. Answered(r, RowsOf(r, draft[r]))
  BY AnswerType DEF Refresh
<1> QED
  BY <1>1, <1>2, AnsweredType DEF ScoringTypeOK, Refresh, AnswerOf

LEMMA CachedType ==
    ASSUME NEW g \in Reports, session \in Session, Cached(g)
    PROVE  session.lint[Kind(g)] \in ReportOf(g)
  BY DEF Cached, Kind, Session, Lint, ReportOf

LEMMA CachedReportType ==
    ASSUME NEW g \in Reports, ScoringTypeOK, CachedReport(g)
    PROVE  ScoringTypeOK'
<1>1. session.lint[Kind(g)] \in ReportOf(g)
  BY CachedType DEF CachedReport, Cached, ScoringTypeOK
<1>2. Answered(g, session.lint[Kind(g)])
  BY AnswerType DEF CachedReport
<1> QED
  BY <1>1, <1>2, AnsweredType DEF ScoringTypeOK, CachedReport, AnswerOf

LEMMA StartReportType ==
    ASSUME NEW g \in Reports, ScoringTypeOK, StartReport(g)
    PROVE  ScoringTypeOK'
  BY DEF ScoringTypeOK, StartReport, Begin, Goto

\* A report is merged into the lint_results that were read.
LEMMA MergedType ==
    ASSUME NEW g \in Reports, NEW s \in Session, NEW c \in Session
    PROVE  LET merged == [s EXCEPT !.lint = [c.lint EXCEPT ![Kind(g)] = Content(g)]]
           IN  /\ merged \in Session
               /\ merged.lint.scored = c.lint.scored
               /\ merged.lint.updated = c.lint.updated
<1>1. CASE g \in Deliveries
  BY <1>1 DEF Kind, Content, Session, Lint
<1>2. CASE g \in Analyses
  BY <1>2 DEF Kind, Content, Session, Lint
<1> QED
  BY <1>1, <1>2

LEMMA FinishReportType ==
    ASSUME NEW g \in Reports, ScoringTypeOK, FinishReport(g)
    PROVE  ScoringTypeOK'
<1>1. session \in Session /\ loaded[g] \in Session
  BY DEF ScoringTypeOK, FinishReport
<1>2. session' \in Session
  BY <1>1, MergedType DEF FinishReport
<1>3. Content(g) \in ReportOf(g)
  BY DEF Content, ReportOf
<1>4. Answered(g, Content(g))
  BY AnswerType DEF FinishReport
<1> QED
  BY <1>2, <1>3, <1>4, AnsweredType DEF ScoringTypeOK, FinishReport, AnswerOf

LEMMA StartRewindType ==
    ASSUME NEW w \in Rewinds, ScoringTypeOK, StartRewind(w)
    PROVE  ScoringTypeOK'
<1>1. PICK id \in rows : target' = [target EXCEPT ![w] = <<id, rewound[id]>>]
  BY DEF StartRewind
<1>2. <<id, rewound[id]>> \in Rows \X Tracking
  BY DEF ScoringTypeOK
<1>3. /\ target' \in [Rewinds -> (Rows \X Tracking) \cup {None}]
      /\ target'[w] \in Rows \X Tracking
      /\ \A v \in Rewinds \ {w} : target'[v] = target[v]
  BY <1>1, <1>2 DEF ScoringTypeOK
<1> QED
  BY <1>1, <1>3 DEF ScoringTypeOK, StartRewind, Begin, Goto

LEMMA FinishRewindType ==
    ASSUME NEW w \in Rewinds, NEW score \in RewindScores, ScoringTypeOK, FinishRewind(w, score)
    PROVE  ScoringTypeOK'
<1>1. PICK id \in Rows, t \in Tracking : target[w] = <<id, t>>
  BY DEF ScoringTypeOK, FinishRewind
<1>2. score \in Nat
  OBVIOUS
<1>3. rewound' \in [Rows -> Tracking]
  BY <1>1, <1>2 DEF ScoringTypeOK, FinishRewind, Tracking, Larger
<1>4. <<target[w][1], score>> \in Rows \X RewindScores
  BY <1>1
<1>5. Answered(w, <<target[w][1], score>>)
  BY AnswerType DEF FinishRewind
<1> QED
  BY <1>3, <1>4, <1>5, AnsweredType DEF ScoringTypeOK, FinishRewind, AnswerOf

LEMMA FailType ==
    ASSUME NEW p \in ScoringRequests, ScoringTypeOK, ScoringFails(p)
    PROVE  ScoringTypeOK'
  BY DEF ScoringTypeOK, ScoringFails, Goto, Close

LEMMA NextType == ScoringTypeOK /\ [ScoringNext]_scoringVars => ScoringTypeOK'
<1> SUFFICES ASSUME ScoringTypeOK, [ScoringNext]_scoringVars
             PROVE  ScoringTypeOK'
  OBVIOUS
<1>1. CASE \E r \in Scorings :
             \/ \E forced \in BOOLEAN : StartScoring(r, forced)
             \/ ReadExisting(r) \/ Backfill(r) \/ CommitScores(r) \/ Refresh(r)
  BY <1>1, StartScoringType, ReadExistingType, BackfillType, CommitScoresType, RefreshType
<1>2. CASE \E g \in Reports : CachedReport(g) \/ StartReport(g) \/ FinishReport(g)
  BY <1>2, CachedReportType, StartReportType, FinishReportType
<1>3. CASE \E w \in Rewinds :
             StartRewind(w) \/ \E score \in RewindScores : FinishRewind(w, score)
  BY <1>3, StartRewindType, FinishRewindType
<1>4. CASE \E p \in ScoringRequests : ScoringFails(p)
  BY <1>4, FailType
<1>5. CASE WordsExpire
  BY <1>5 DEF ScoringTypeOK, WordsExpire, scoringRequest
<1>6. CASE DeleteSession
  BY <1>6 DEF ScoringTypeOK, DeleteSession, scoringRequest
<1>7. CASE UNCHANGED scoringVars
  BY <1>7 DEF ScoringTypeOK, scoringVars
<1> QED
  BY <1>1, <1>2, <1>3, <1>4, <1>5, <1>6, <1>7 DEF ScoringNext

\* Wherever a request is, it has read the row it is going to write back,
\* and every column keeps its type, merged or overwritten.
THEOREM TypeCorrect == ScoringSpec => []ScoringTypeOK
  BY InitType, NextType, PTL DEF ScoringSpec

-----------------------------------------------------------------------------
(* Standing and NotYet *)

\* What a lint_results says of the rows is true.
SummaryStands(s) ==
    s.lint.scored # None =>
        /\ RowsOf(s.lint.scored, draft[s.lint.scored]) # {}
        /\ RowsOf(s.lint.scored, draft[s.lint.scored]) \subseteq rows

LegacyApplied(s) ==
    s.lint.scored = Legacy /\ s.lint.updated =>
        \A id \in rows : id[1] = Legacy => skills[id] > 0

\* ... of the session and of every session object a request holds.
LintStands ==
    /\ SummaryStands(session) /\ LegacyApplied(session)
    /\ \A p \in Scorings \cup Reports :
         loaded[p] # None => SummaryStands(loaded[p]) /\ LegacyApplied(loaded[p])

\* The rows a scoring has read are stored, and all of Legacy's are among them.
AnswersStand ==
    \A r \in Scorings :
        /\ spc[r] \in {"done", "backfill"} => answer[r] \subseteq rows
        /\ spc[r] = "backfill" => \A id \in rows : id[1] = Legacy => id \in answer[r]

SkillsStand ==
    \A id \in Rows :
        /\ skills[id] > 0 => id \in rows
        /\ id \in rows /\ id[1] # Legacy /\ draft[id[1]][id[2]] = "scored" => skills[id] > 0

Standing == session # None => LintStands /\ AnswersStand /\ SkillsStand

\* Nothing names a scoring that has not committed.
NotYet ==
    \A r \in Scorings : spc[r] \in {"idle", "llm"} =>
        /\ session # None => session.lint.scored # r
        /\ \A p \in Scorings \cup Reports : loaded[p] # None => loaded[p].lint.scored # r
        /\ \A id \in rows : id[1] # r

IInv == ScoringTypeOK /\ Standing /\ NotYet

LEMMA InitInv == ScoringInit => IInv
<1> SUFFICES ASSUME ScoringInit PROVE Standing /\ NotYet
  BY InitType DEF IInv
<1>1. CASE session = Fresh
  <2>1. session.lint.scored = None /\ rows = {} /\ None # Legacy
    BY <1>1 DEF ScoringInit, Fresh, NoLint
  <2>2. \A p \in Scorings \cup Reports : loaded[p] = None
    BY DEF ScoringInit
  <2>3. \A id \in Rows : skills[id] = 0
    BY DEF ScoringInit
  <2>4. \A r \in Scorings : spc[r] = "idle" /\ r # None
    BY DEF ScoringInit
  <2>5. LintStands
    BY <2>1, <2>2 DEF LintStands, SummaryStands, LegacyApplied
  <2>6. AnswersStand /\ SkillsStand
    BY <2>1, <2>3, <2>4 DEF AnswersStand, SkillsStand
  <2> QED
    BY <2>1, <2>2, <2>4, <2>5, <2>6 DEF Standing, NotYet
<1>2. CASE session # Fresh
  <2>1. /\ session.lint.scored = Legacy /\ session.lint.updated = FALSE
        /\ rows = {Legacy} \X Segments
    BY <1>2 DEF ScoringInit, ScoredBefore, NoLint
  <2>2. \A p \in Scorings \cup Reports : loaded[p] = None
    BY DEF ScoringInit
  <2>3. \A id \in Rows : skills[id] = 0
    BY DEF ScoringInit
  <2>4. \A r \in Scorings : spc[r] = "idle" /\ r # Legacy
    BY DEF ScoringInit
  <2>5. RowsOf(Legacy, draft[Legacy]) = {Legacy} \X Segments
    BY DEF ScoringInit, RowsOf
  <2>6. {Legacy} \X Segments # {}
    <3>1. PICK s \in Segments : TRUE
      OBVIOUS
    <3>2. <<Legacy, s>> \in {Legacy} \X Segments
      OBVIOUS
    <3> QED
      BY <3>2
  <2>7. LintStands
    BY <2>1, <2>2, <2>5, <2>6 DEF LintStands, SummaryStands, LegacyApplied
  <2>8. AnswersStand /\ SkillsStand
    BY <2>1, <2>3, <2>4 DEF AnswersStand, SkillsStand
  <2>9. \A id \in rows : id[1] = Legacy
    BY <2>1
  <2> QED
    BY <2>1, <2>2, <2>4, <2>7, <2>8, <2>9 DEF Standing, NotYet
<1> QED
  BY <1>1, <1>2

\* A step that stores nothing, and of which every request's object is the one
\* it had or the session: reading, answering, failing.
LEMMA ReadingKeeps ==
    ASSUME IInv, UNCHANGED <<session, rows, skills, draft>>,
           \A p \in Scorings \cup Reports : loaded'[p] \in {loaded[p], session, None},
           \A r \in Scorings :
               /\ spc'[r] \in {"idle", "llm"} => spc[r] \in {"idle", "llm"}
               /\ spc'[r] \in {"done", "backfill"} =>
                    \/ spc'[r] = spc[r] /\ answer'[r] = answer[r]
                    \/ answer'[r] = rows
                    \/ spc'[r] = "done" /\ answer'[r] \subseteq rows
    PROVE  Standing' /\ NotYet'
<1>1. ASSUME session # None
      PROVE  LintStands' /\ AnswersStand' /\ SkillsStand'
  <2>1. LintStands /\ AnswersStand /\ SkillsStand
    BY <1>1 DEF IInv, Standing
  <2>2. LintStands'
    BY <2>1 DEF LintStands, SummaryStands, LegacyApplied
  <2>3. AnswersStand'
    BY <2>1 DEF AnswersStand
  <2>4. SkillsStand'
    BY <2>1 DEF SkillsStand
  <2> QED
    BY <2>2, <2>3, <2>4
<1>2. NotYet'
  BY DEF IInv, NotYet
<1> QED
  BY <1>1, <1>2 DEF Standing

LEMMA ReadExistingInv ==
    ASSUME NEW r \in Scorings, IInv, ReadExisting(r)
    PROVE  Standing' /\ NotYet'
<1>0. ScoringTypeOK
  BY DEF IInv
<1>1. CASE Answer(r, rows)
  <2>1. Answered(r, rows)
    BY <1>0, <1>1, AnswerType
  <2> QED
    BY <1>0, <2>1, ReadingKeeps DEF ScoringTypeOK, ReadExisting, Answered
<1>2. CASE /\ Goto(r, "backfill") /\ answer' = [answer EXCEPT ![r] = rows]
           /\ UNCHANGED <<loaded, target>>
  BY <1>0, <1>2, ReadingKeeps DEF ScoringTypeOK, ReadExisting, Goto
<1> QED
  BY <1>1, <1>2 DEF ReadExisting

LEMMA RefreshInv ==
    ASSUME NEW r \in Scorings, IInv, Refresh(r)
    PROVE  Standing' /\ NotYet'
<1>1. Answered(r, RowsOf(r, draft[r])) /\ RowsOf(r, draft[r]) \subseteq rows
  BY AnswerType DEF IInv, Refresh
<1> QED
  BY <1>1, ReadingKeeps DEF IInv, ScoringTypeOK, Refresh, Answered

\* The steps of the other requests that store nothing of the session.
LEMMA OtherReadingInv ==
    ASSUME IInv,
           \/ \E r \in Scorings, forced \in BOOLEAN : StartScoring(r, forced)
           \/ \E g \in Reports : CachedReport(g) \/ StartReport(g)
           \/ \E w \in Rewinds :
                  StartRewind(w) \/ \E score \in RewindScores : FinishRewind(w, score)
           \/ \E p \in ScoringRequests : ScoringFails(p)
           \/ WordsExpire
           \/ UNCHANGED scoringVars
    PROVE  Standing' /\ NotYet'
<1>0. ScoringTypeOK
  BY DEF IInv
<1>1. ASSUME NEW r \in Scorings, NEW forced \in BOOLEAN, StartScoring(r, forced)
      PROVE  Standing' /\ NotYet'
  BY <1>0, <1>1, ReadingKeeps DEF ScoringTypeOK, StartScoring, Begin, Goto, MayArrive
<1>2. ASSUME NEW g \in Reports, CachedReport(g)
      PROVE  Standing' /\ NotYet'
  <2>1. Answered(g, session.lint[Kind(g)])
    BY <1>0, <1>2, AnswerType DEF CachedReport
  <2> QED
    BY <1>0, <1>2, <2>1, ReadingKeeps DEF ScoringTypeOK, CachedReport, Answered
<1>3. ASSUME NEW g \in Reports, StartReport(g)
      PROVE  Standing' /\ NotYet'
  BY <1>0, <1>3, ReadingKeeps DEF ScoringTypeOK, StartReport, Begin, Goto
<1>4. ASSUME NEW w \in Rewinds, StartRewind(w)
      PROVE  Standing' /\ NotYet'
  BY <1>0, <1>4, ReadingKeeps DEF ScoringTypeOK, StartRewind, Begin, Goto
<1>5. ASSUME NEW w \in Rewinds, NEW score \in RewindScores, FinishRewind(w, score)
      PROVE  Standing' /\ NotYet'
  <2>1. Answered(w, <<target[w][1], score>>)
    BY <1>0, <1>5, AnswerType DEF FinishRewind
  <2> QED
    BY <1>0, <1>5, <2>1, ReadingKeeps DEF ScoringTypeOK, FinishRewind, Answered
<1>6. ASSUME NEW p \in ScoringRequests, ScoringFails(p)
      PROVE  Standing' /\ NotYet'
  BY <1>0, <1>6, ReadingKeeps DEF ScoringTypeOK, ScoringFails, Goto, Close
<1>7. CASE WordsExpire
  BY <1>7, ReadingKeeps DEF WordsExpire, scoringRequest
<1>8. CASE UNCHANGED scoringVars
  BY <1>8, ReadingKeeps DEF scoringVars
<1> QED
  BY <1>1, <1>2, <1>3, <1>4, <1>5, <1>6, <1>7, <1>8

\* The rows that are applied include all of Legacy's; another scoring's were
\* applied before.
LEMMA BackfillInv ==
    ASSUME NEW r \in Scorings, IInv, Backfill(r)
    PROVE  Standing' /\ NotYet'
<1>1. /\ session \in Session /\ loaded[r] \in Session /\ loaded[r] # None
      /\ answer[r] \subseteq rows
      /\ \A id \in rows : id[1] = Legacy => id \in answer[r]
      /\ LintStands /\ AnswersStand /\ SkillsStand
  BY DEF IInv, ScoringTypeOK, Standing, AnswersStand, Backfill
<1>2. Answered(r, answer[r])
  BY AnswerType DEF IInv, Backfill
<1>3. session'.lint.scored = loaded[r].lint.scored
  BY <1>1 DEF Backfill, Session, Lint
<1>4. /\ \A id \in Rows : skills'[id] >= skills[id]
      /\ \A id \in answer[r] : skills'[id] > 0
      /\ \A id \in Rows \ answer[r] : skills'[id] = skills[id]
  BY <1>1 DEF IInv, ScoringTypeOK, Backfill
<1>5. rows' = rows /\ draft' = draft /\ rows \subseteq Rows
  BY DEF IInv, ScoringTypeOK, Backfill
<1>6. \A id \in rows : skills[id] > 0 => skills'[id] > 0
  BY <1>4, <1>5 DEF IInv, ScoringTypeOK
<1>7. LintStands'
  <2>1. SummaryStands(loaded[r]) /\ LegacyApplied(loaded[r])
    BY <1>1 DEF LintStands
  <2>2. SummaryStands(session)'
    BY <1>3, <1>5, <2>1 DEF SummaryStands
  <2>3. LegacyApplied(session)'
    BY <1>1, <1>4, <1>5 DEF LegacyApplied
  <2>4. \A p \in Scorings \cup Reports :
          loaded'[p] # None => loaded'[p] = loaded[p] /\ loaded[p] # None
    BY <1>2 DEF Answered
  <2>5. \A p \in Scorings \cup Reports :
          loaded[p] # None => SummaryStands(loaded[p]) /\ LegacyApplied(loaded[p])
    BY <1>1 DEF LintStands
  <2>6. \A p \in Scorings \cup Reports : loaded'[p] # None => SummaryStands(loaded[p])'
    BY <1>5, <2>4, <2>5 DEF SummaryStands
  <2>7. \A p \in Scorings \cup Reports : loaded'[p] # None => LegacyApplied(loaded[p])'
    BY <1>5, <1>6, <2>4, <2>5 DEF LegacyApplied
  <2> QED
    BY <2>2, <2>3, <2>6, <2>7 DEF LintStands
<1>8. AnswersStand'
  BY <1>1, <1>2, <1>5 DEF AnswersStand, Answered, IInv, ScoringTypeOK
<1>9. SkillsStand'
  BY <1>1, <1>4, <1>5, <1>6 DEF SkillsStand
<1>10. NotYet'
  BY <1>1, <1>2, <1>3, <1>5 DEF IInv, NotYet, Answered, ScoringTypeOK
<1> QED
  BY <1>7, <1>8, <1>9, <1>10 DEF Standing

\* The lint_results that a report writes back is one that stands.
LEMMA FinishReportInv ==
    ASSUME NEW g \in Reports, IInv, FinishReport(g)
    PROVE  Standing' /\ NotYet'
<1>1. /\ session \in Session /\ loaded[g] \in Session /\ loaded[g] # None
      /\ LintStands /\ AnswersStand /\ SkillsStand
  BY DEF IInv, ScoringTypeOK, Standing, FinishReport
<1>2. Answered(g, Content(g))
  BY AnswerType DEF IInv, FinishReport
<1>3. /\ session'.lint.scored = loaded[g].lint.scored
      /\ session'.lint.updated = loaded[g].lint.updated
  BY <1>1, MergedType DEF FinishReport
<1>4. rows' = rows /\ draft' = draft /\ skills' = skills
  BY DEF FinishReport
<1>5. \A r \in Scorings : spc'[r] = spc[r] /\ answer'[r] = answer[r]
  BY <1>2 DEF Answered, IInv, ScoringTypeOK
<1>6. LintStands'
  <2>1. SummaryStands(loaded[g]) /\ LegacyApplied(loaded[g])
    BY <1>1 DEF LintStands
  <2>2. SummaryStands(session)'
    BY <1>3, <1>4, <2>1 DEF SummaryStands
  <2>3. LegacyApplied(session)'
    BY <1>3, <1>4, <2>1 DEF LegacyApplied
  <2>4. \A p \in Scorings \cup Reports :
          loaded'[p] # None => loaded'[p] = loaded[p] /\ loaded[p] # None
    BY <1>2 DEF Answered
  <2>5. \A p \in Scorings \cup Reports :
          loaded[p] # None => SummaryStands(loaded[p]) /\ LegacyApplied(loaded[p])
    BY <1>1 DEF LintStands
  <2>6. \A p \in Scorings \cup Reports :
          loaded'[p] # None => SummaryStands(loaded[p])' /\ LegacyApplied(loaded[p])'
    BY <1>4, <2>4, <2>5 DEF SummaryStands, LegacyApplied
  <2> QED
    BY <2>2, <2>3, <2>6 DEF LintStands
<1>7. AnswersStand' /\ SkillsStand'
  BY <1>1, <1>4, <1>5 DEF AnswersStand, SkillsStand
<1>8. NotYet'
  BY <1>1, <1>2, <1>3, <1>4, <1>5 DEF IInv, NotYet, Answered, ScoringTypeOK
<1> QED
  BY <1>6, <1>7, <1>8 DEF Standing

\* Only now does anything name the scoring r: its rows, its summary and its
\* skill updates become visible together.
LEMMA CommitScoresInv ==
    ASSUME NEW r \in Scorings, IInv, CommitScores(r)
    PROVE  Standing' /\ NotYet'
<1>1. PICK outcomes \in [Segments -> Outcomes] :
        /\ draft' = [draft EXCEPT ![r] = outcomes]
        /\ \/ /\ RowsOf(r, outcomes) = {}
              /\ UNCHANGED <<session, rows, skills>>
           \/ /\ RowsOf(r, outcomes) # {} /\ session # None
              /\ rows' = StoredRows(r, outcomes)
              /\ skills' = [id \in Rows |->
                              IF id[1] = r /\ outcomes[id[2]] = "scored" THEN skills[id] + 1
                              ELSE skills[id]]
              /\ session' = ScoredSession(r)
  BY DEF CommitScores, Outcomes
<1>2. /\ spc[r] = "llm" /\ spc' = [spc EXCEPT ![r] = "refresh"]
      /\ loaded' = loaded /\ answer' = answer
      /\ loaded[r] \in Session /\ r # Legacy /\ r # None
  BY DEF IInv, ScoringTypeOK, CommitScores, Goto
<1>3. /\ session # None => session.lint.scored # r
      /\ \A p \in Scorings \cup Reports : loaded[p] # None => loaded[p].lint.scored # r
      /\ \A id \in rows : id[1] # r
  BY <1>2 DEF IInv, NotYet
<1>4. draft'[r] = outcomes /\ \A q \in Scorers : q # r => draft'[q] = draft[q]
  BY <1>1 DEF IInv, ScoringTypeOK
<1>5. RowsOf(r, outcomes) = {id \in Rows : id[1] = r /\ outcomes[id[2]] # "failed"}
  BY DEF RowsOf
<1>6. /\ rows \subseteq rows' /\ rows' \subseteq Rows
      /\ \A id \in rows' : id \in rows \/ id \in RowsOf(r, outcomes)
  BY <1>1, <1>5 DEF StoredRows, IInv, ScoringTypeOK
<1>7. /\ \A id \in Rows : skills[id] > 0 => skills'[id] > 0
      /\ \A id \in Rows : id[1] # r => skills'[id] = skills[id]
  BY <1>1 DEF IInv, ScoringTypeOK
<1>8. ASSUME session' # None
      PROVE  LintStands' /\ AnswersStand' /\ SkillsStand'
  <2>1. session # None /\ LintStands /\ AnswersStand /\ SkillsStand
    BY <1>1, <1>8 DEF IInv, Standing
  <2>2. \A p \in Scorings \cup Reports :
          loaded[p] # None => /\ loaded[p] \in Session /\ loaded[p].lint.scored # r
                            /\ SummaryStands(loaded[p]) /\ LegacyApplied(loaded[p])
    BY <1>3, <2>1 DEF IInv, ScoringTypeOK, LintStands
  <2>3. \A s \in Session : s.lint.scored \in Scorers \cup {None}
    BY DEF Session, Lint
  <2>4. \A p \in Scorings \cup Reports : loaded'[p] # None => SummaryStands(loaded[p])'
    BY <1>2, <1>4, <1>6, <2>2, <2>3 DEF SummaryStands
  <2>5. \A p \in Scorings \cup Reports : loaded'[p] # None => LegacyApplied(loaded[p])'
    BY <1>2, <1>5, <1>6, <1>7, <2>2 DEF LegacyApplied, IInv, ScoringTypeOK
  <2>6. SummaryStands(session)' /\ LegacyApplied(session)'
    <3>1. CASE /\ session' = ScoredSession(r) /\ RowsOf(r, outcomes) # {}
               /\ rows' = StoredRows(r, outcomes)
      <4>1. session'.lint.scored = r
        BY <1>2, <3>1, ScoredSessionType
      <4>2. RowsOf(r, outcomes) \subseteq rows'
        BY <3>1 DEF StoredRows
      <4> QED
        BY <1>2, <1>4, <3>1, <4>1, <4>2 DEF SummaryStands, LegacyApplied
    <3>2. CASE UNCHANGED <<session, rows, skills>>
      <4>1. /\ session \in Session /\ session.lint.scored # r
            /\ SummaryStands(session) /\ LegacyApplied(session)
        BY <1>3, <2>1 DEF IInv, ScoringTypeOK, LintStands
      <4> QED
        BY <1>4, <2>3, <3>2, <4>1 DEF SummaryStands, LegacyApplied
    <3> QED
      BY <1>1, <3>1, <3>2
  <2>7. LintStands'
    BY <2>4, <2>5, <2>6 DEF LintStands
  <2>8. AnswersStand'
    BY <1>2, <1>5, <1>6, <2>1 DEF AnswersStand, IInv, ScoringTypeOK
  <2>9. SkillsStand'
    <3>1. \A id \in rows : id[1] # r
      BY <1>3
    <3>2. CASE UNCHANGED <<session, rows, skills>>
      BY <1>3, <1>4, <2>1, <3>2 DEF SkillsStand
    <3>3. CASE /\ rows' = StoredRows(r, outcomes)
               /\ skills' = [id \in Rows |->
                               IF id[1] = r /\ outcomes[id[2]] = "scored" THEN skills[id] + 1
                               ELSE skills[id]]
      <4>1. ASSUME NEW id \in Rows, id[1] = r
            PROVE  /\ skills'[id] > 0 => id \in rows'
                   /\ draft'[id[1]][id[2]] = "scored" => skills'[id] > 0
        BY <1>3, <1>4, <1>5, <2>1, <3>3, <4>1 DEF SkillsStand, StoredRows, IInv, ScoringTypeOK
      <4>2. ASSUME NEW id \in Rows, id[1] # r
            PROVE  /\ skills'[id] = skills[id] /\ draft'[id[1]] = draft[id[1]]
                   /\ id \in rows' <=> id \in rows
        BY <1>4, <1>5, <1>6, <1>7, <4>2
      <4> QED
        BY <2>1, <4>1, <4>2 DEF SkillsStand
    <3> QED
      BY <1>1, <3>2, <3>3
  <2> QED
    BY <2>7, <2>8, <2>9
<1>9. NotYet'
  <2>1. ASSUME NEW q \in Scorings, spc'[q] \in {"idle", "llm"}
        PROVE  q # r /\ spc[q] \in {"idle", "llm"}
    BY <1>2, <2>1 DEF IInv, ScoringTypeOK
  <2>2. session' # session => session'.lint.scored = r
    BY <1>1, <1>2, ScoredSessionType
  <2> QED
    BY <1>2, <1>5, <1>6, <2>1, <2>2 DEF IInv, NotYet
<1> QED
  BY <1>8, <1>9 DEF Standing

LEMMA DeleteSessionInv ==
    ASSUME IInv, DeleteSession
    PROVE  Standing' /\ NotYet'
  BY DEF IInv, Standing, NotYet, DeleteSession, scoringRequest

LEMMA NextInv == IInv /\ [ScoringNext]_scoringVars => IInv'
<1> SUFFICES ASSUME IInv, [ScoringNext]_scoringVars
             PROVE  Standing' /\ NotYet'
  BY NextType DEF IInv
<1>1. CASE \E r \in Scorings : \E forced \in BOOLEAN : StartScoring(r, forced)
  BY <1>1, OtherReadingInv
<1>2. CASE \E r \in Scorings : ReadExisting(r) \/ Backfill(r) \/ CommitScores(r) \/ Refresh(r)
  BY <1>2, ReadExistingInv, BackfillInv, CommitScoresInv, RefreshInv
<1>3. CASE \E g \in Reports : CachedReport(g) \/ StartReport(g)
  BY <1>3, OtherReadingInv
<1>4. CASE \E g \in Reports : FinishReport(g)
  BY <1>4, FinishReportInv
<1>5. CASE \E w \in Rewinds :
             StartRewind(w) \/ \E score \in RewindScores : FinishRewind(w, score)
  BY <1>5, OtherReadingInv
<1>6. CASE \E p \in ScoringRequests : ScoringFails(p)
  BY <1>6, OtherReadingInv
<1>7. CASE WordsExpire
  BY <1>7, OtherReadingInv
<1>8. CASE DeleteSession
  BY <1>8, DeleteSessionInv
<1>9. CASE UNCHANGED scoringVars
  BY <1>9, OtherReadingInv
<1> QED
  BY <1>1, <1>2, <1>3, <1>4, <1>5, <1>6, <1>7, <1>8, <1>9 DEF ScoringNext

LEMMA Invariance == ScoringSpec => []IInv
  BY InitInv, NextInv, PTL DEF ScoringSpec

-----------------------------------------------------------------------------
(* Theorems *)

\* Whatever old lint_results a request writes back over a newer one, its
\* summary has its rows, and what a scoring has answered is stored.
THEOREM SummaryHasRows == ScoringSpec => []RowsStand
<1>1. IInv => RowsStand
  BY DEF IInv, Standing, LintStands, SummaryStands, AnswersStand, RowsStand
<1> QED
  BY Invariance, <1>1, PTL

\* A stored segment has moved the skill graph and no other one has, even if
\* scorings, backfills and failures overlap.
THEOREM SkillsMatchRows == ScoringSpec => []SkillsFollowRows
<1>1. IInv => SkillsFollowRows
  BY DEF IInv, Standing, LintStands, LegacyApplied, SkillsStand, SkillsFollowRows
<1> QED
  BY Invariance, <1>1, PTL

-----------------------------------------------------------------------------
(* Requests that do not overlap *)


Sole == \A p, q \in ScoringRequests : UnderWay(p) /\ UnderWay(q) => p = q

\* What a request has read is what the database has.
Current ==
    /\ \A p \in Scorings \cup Reports :
          spc[p] \in {"llm", "existing", "backfill", "report"} /\ session # None =>
              loaded[p] = session
    /\ \A w \in Rewinds : spc[w] = "rewind" => target[w][2] = rewound[target[w][1]]

(* The flag is set with the first update of the skill graph, the summary with the first row;
   a backfill was begun without the flag, and an unforced scoring without a summary. *)
Once ==
    /\ session # None /\ ~session.lint.updated => \A id \in Rows : skills[id] = 0
    /\ session # None /\ session.lint.scored = None => rows = {}
    /\ \A id \in Rows : skills[id] <= 1
    /\ \A r \in Scorings : spc[r] = "backfill" => ~loaded[r].lint.updated
    /\ \A r \in Scorings : spc[r] = "llm" /\ ~force[r] => loaded[r].lint.scored = None

(* A report under way found none, and one that was answered is cached. *)
ReportsOnce ==
    /\ \A g \in Reports : spc[g] = "report" => loaded[g].lint[Kind(g)] = None
    /\ session # None => \A g \in Reports : spc[g] = "done" => /\ answer[g] # None
                                                              /\ session.lint[Kind(g)] = answer[g]
    /\ \A g, h \in Reports :
          Kind(g) = Kind(h) /\ spc[g] = "done" /\ spc[h] = "done" => answer[g] = answer[h]

DoneOn(id) == {w \in Rewinds : spc[w] = "done" /\ answer[w][1] = id}

Counted ==
    /\ \A w \in Rewinds : spc[w] = "done" => answer[w] \in Rows \X RewindScores
    /\ \A id \in Rows : /\ rewound[id].count = Cardinality(DoneOn(id))
                        /\ \A w \in DoneOn(id) : answer[w][2] <= rewound[id].best

Alone == Sole /\ Current /\ Once /\ ReportsOnce /\ Counted

-------------------------------------------------------------------------------
(* What a step leaves as it was *)

LEMMA SoleKept ==
    ASSUME Sole, \A q \in ScoringRequests : UnderWay(q)' => UnderWay(q)
    PROVE  Sole'
  BY DEF Sole

\* The columns of a session that ReportsOnce and Once speak of.
SameReports ==
    session' # None =>
        /\ session # None
        /\ \A g \in Reports : session'.lint[Kind(g)] = session.lint[Kind(g)]

LEMMA ReportsKept ==
    ASSUME ReportsOnce, SameReports,
           \A g \in Reports : /\ spc'[g] = "done" <=> spc[g] = "done"
                              /\ spc[g] = "done" => answer'[g] = answer[g]
                              /\ spc'[g] = "report" => spc[g] = "report" /\ loaded'[g] = loaded[g]
    PROVE  ReportsOnce'
<1>1. \A g \in Reports : Kind(g)' = Kind(g)
  BY DEF Kind
<1>2. \A g \in Reports : spc'[g] = "report" => loaded'[g].lint[Kind(g)] = None
  BY DEF ReportsOnce
<1>3. session' # None => \A g \in Reports : spc'[g] = "done" =>
         answer'[g] # None /\ session'.lint[Kind(g)] = answer'[g]
  BY DEF ReportsOnce, SameReports
<1>4. \A g, h \in Reports :
          Kind(g) = Kind(h) /\ spc'[g] = "done" /\ spc'[h] = "done" => answer'[g] = answer'[h]
  BY DEF ReportsOnce
<1> QED
  BY <1>1, <1>2, <1>3, <1>4 DEF ReportsOnce

LEMMA CountedKept ==
    ASSUME Counted, rewound' = rewound,
           \A w \in Rewinds : /\ spc'[w] = "done" <=> spc[w] = "done"
                              /\ spc[w] = "done" => answer'[w] = answer[w]
    PROVE  Counted'
<1>1. \A id \in Rows : DoneOn(id)' = DoneOn(id)
  BY DEF DoneOn
<1> QED
  BY <1>1 DEF Counted, DoneOn

LEMMA OnceKept ==
    ASSUME Once, UNCHANGED skills, rows' \subseteq rows,
           session' # None => /\ session # None
                              /\ session'.lint.scored = session.lint.scored
                              /\ session'.lint.updated = session.lint.updated,
           \A r \in Scorings : spc'[r] \in {"llm", "backfill"} =>
               /\ spc'[r] = spc[r] /\ loaded'[r] = loaded[r] /\ force'[r] = force[r]
    PROVE  Once'
  BY DEF Once

LEMMA CurrentKept ==
    ASSUME Current, session' \in {session, None}, UNCHANGED rewound,
           \A p \in Scorings \cup Reports :
               spc'[p] \in {"llm", "existing", "backfill", "report"} =>
                   spc[p] \in {"llm", "existing", "backfill", "report"} /\ loaded'[p] = loaded[p],
           \A w \in Rewinds : spc'[w] = "rewind" => spc[w] = "rewind" /\ target'[w] = target[w]
    PROVE  Current'
  BY DEF Current

\* The only request under way ends: no object is held that could be out of date.
LEMMA NoneHeld ==
    ASSUME \A q \in ScoringRequests : ~UnderWay(q)'
    PROVE  Sole' /\ Current'
  BY DEF Sole, Current, UnderWay

-------------------------------------------------------------------------------
(* Each action *)

LEMMA InitAlone == ScoringInit => Alone
<1> SUFFICES ASSUME ScoringInit PROVE Alone
  OBVIOUS
<1>1. /\ \A p \in ScoringRequests : spc[p] = "idle"
      /\ \A id \in Rows : skills[id] = 0 /\ rewound[id] = [count |-> 0, best |-> 0]
  BY DEF ScoringInit
<1>2. session.lint.scored = None => rows = {}
  <2>1. session \in {Fresh, ScoredBefore} /\ (session = Fresh => rows = {})
    BY DEF ScoringInit
  <2>2. ScoredBefore.lint.scored = Legacy
    BY DEF ScoredBefore, NoLint
  <2> QED
    BY <2>1, <2>2
<1>3. Sole /\ Current /\ Once /\ ReportsOnce
  BY <1>1, <1>2 DEF Sole, Current, Once, ReportsOnce, UnderWay
<1>4. Counted
  <2>1. \A id \in Rows : DoneOn(id) = {}
    BY <1>1 DEF DoneOn
  <2> QED
    BY <1>1, <2>1, FS_EmptySet DEF Counted
<1> QED
  BY <1>3, <1>4 DEF Alone

\* A request that arrives when none is under way is the only one.
LEMMA BeginAlone ==
    ASSUME ScoringTypeOK, NEW p \in ScoringRequests, NEW place, Begin(p, place), ~overlapped'
    PROVE  /\ ~overlapped /\ spc[p] = "idle"
           /\ \A q \in ScoringRequests : ~UnderWay(q) /\ (UnderWay(q)' => q = p)
           /\ \A q \in ScoringRequests \ {p} : spc'[q] = spc[q]
           /\ spc'[p] = IF session = None THEN "failed" ELSE place
           /\ Sole'
<1>1. ~overlapped /\ \A q \in ScoringRequests : ~UnderWay(q)
  BY DEF Begin
<1>2. spc' = [spc EXCEPT ![p] = IF session = None THEN "failed" ELSE place] /\ spc[p] = "idle"
  BY DEF Begin, Goto, MayArrive
<1>3. /\ \A q \in ScoringRequests \ {p} : spc'[q] = spc[q]
      /\ spc'[p] = IF session = None THEN "failed" ELSE place
  BY <1>2 DEF ScoringTypeOK
<1>4. \A q \in ScoringRequests : UnderWay(q)' => q = p
  BY <1>1, <1>3 DEF UnderWay
<1> QED
  BY <1>1, <1>2, <1>3, <1>4 DEF Sole

LEMMA StartScoringAlone ==
    ASSUME NEW r \in Scorings, NEW forced \in BOOLEAN, ScoringTypeOK, Alone, StartScoring(r, forced),
           ~overlapped'
    PROVE  Alone'
<1> DEFINE place == IF session # None /\ session.lint.scored # None /\ ~forced
                    THEN "existing" ELSE "llm"
<1>1. /\ \A q \in ScoringRequests : ~UnderWay(q) /\ (UnderWay(q)' => q = r)
      /\ \A q \in ScoringRequests \ {r} : spc'[q] = spc[q]
      /\ spc[r] = "idle" /\ spc'[r] = IF session = None THEN "failed" ELSE place
      /\ Sole'
  BY BeginAlone DEF StartScoring
<1>2. /\ UNCHANGED <<session, rows, rewound, skills, answer>>
      /\ loaded'[r] = session /\ \A q \in Reports : loaded'[q] = loaded[q]
      /\ force'[r] = forced
  BY DEF StartScoring, ScoringTypeOK
<1>3. \A q \in ScoringRequests : spc'[q] \notin {"idle", "done", "failed"} => q = r
  BY <1>1 DEF UnderWay
<1>4. Current'
  BY <1>2, <1>3 DEF Current
<1>5. Once'
  <2>1. spc'[r] = "llm" /\ ~force'[r] => session.lint.scored = None
    BY <1>1, <1>2
  <2>2. spc'[r] # "backfill"
    BY <1>1
  <2> QED
    BY <1>2, <1>3, <2>1, <2>2 DEF Once, Alone
<1>6. ReportsOnce'
  BY <1>1, <1>2, <1>3, ReportsKept DEF Alone, SameReports
<1>7. Counted'
  BY <1>1, <1>2, CountedKept DEF Alone
<1> QED
  BY <1>1, <1>4, <1>5, <1>6, <1>7 DEF Alone

LEMMA StartReportAlone ==
    ASSUME NEW g \in Reports, ScoringTypeOK, Alone, StartReport(g), ~overlapped'
    PROVE  Alone'
<1>1. /\ \A q \in ScoringRequests : ~UnderWay(q) /\ (UnderWay(q)' => q = g)
      /\ \A q \in ScoringRequests \ {g} : spc'[q] = spc[q]
      /\ spc[g] = "idle" /\ spc'[g] = IF session = None THEN "failed" ELSE "report"
      /\ Sole'
  BY BeginAlone DEF StartReport
<1>2. /\ UNCHANGED <<session, rows, rewound, skills, answer, force>>
      /\ loaded'[g] = session /\ ~Cached(g)
  BY DEF StartReport, ScoringTypeOK
<1>3. \A q \in ScoringRequests : spc'[q] \notin {"idle", "done", "failed"} => q = g
  BY <1>1 DEF UnderWay
<1>4. Current'
  BY <1>2, <1>3 DEF Current
<1>5. Once'
  BY <1>2, <1>3 DEF Once, Alone
<1>6. ReportsOnce'
  <2>1. spc'[g] = "report" => loaded'[g].lint[Kind(g)] = None
    BY <1>1, <1>2 DEF Cached
  <2>2. \A h \in Reports : spc'[h] = "done" <=> spc[h] = "done"
    BY <1>1
  <2> QED
    BY <1>2, <1>3, <2>1, <2>2 DEF ReportsOnce, Alone, Kind
<1>7. Counted'
  BY <1>1, <1>2, CountedKept DEF Alone
<1> QED
  BY <1>1, <1>4, <1>5, <1>6, <1>7 DEF Alone

LEMMA StartRewindAlone ==
    ASSUME NEW w \in Rewinds, ScoringTypeOK, Alone, StartRewind(w), ~overlapped'
    PROVE  Alone'
<1>1. /\ \A q \in ScoringRequests : ~UnderWay(q) /\ (UnderWay(q)' => q = w)
      /\ \A q \in ScoringRequests \ {w} : spc'[q] = spc[q]
      /\ spc[w] = "idle" /\ spc'[w] = IF session = None THEN "failed" ELSE "rewind"
      /\ Sole'
  BY BeginAlone DEF StartRewind
<1>2. UNCHANGED <<session, rows, rewound, skills, answer, force, loaded>>
  BY DEF StartRewind
<1>3. PICK id \in rows : target' = [target EXCEPT ![w] = <<id, rewound[id]>>]
  BY DEF StartRewind
<1>4. \A q \in ScoringRequests : spc'[q] \notin {"idle", "done", "failed"} => q = w
  BY <1>1 DEF UnderWay
<1>5. Current'
  <2>1. target'[w] = <<id, rewound[id]>>
    BY <1>3 DEF ScoringTypeOK
  <2> QED
    BY <1>2, <1>4, <2>1 DEF Current
<1>6. Once'
  BY <1>2, <1>4 DEF Once, Alone
<1>7. ReportsOnce'
  BY <1>1, <1>2, <1>4, ReportsKept DEF Alone, SameReports
<1>8. Counted'
  BY <1>1, <1>2, CountedKept DEF Alone
<1> QED
  BY <1>1, <1>5, <1>6, <1>7, <1>8 DEF Alone

\* The only request under way is answered.
LEMMA AnsweredAlone ==
    ASSUME NEW p \in ScoringRequests, NEW what, ScoringTypeOK, Sole, UnderWay(p), Answered(p, what)
    PROVE  /\ Sole' /\ Current'
           /\ \A q \in ScoringRequests : ~UnderWay(q)'
           /\ spc'[p] = "done" /\ answer'[p] = what
           /\ \A q \in ScoringRequests \ {p} : spc'[q] = spc[q] /\ answer'[q] = answer[q]
<1>1. /\ spc'[p] = "done" /\ answer'[p] = what
      /\ \A q \in ScoringRequests \ {p} : spc'[q] = spc[q] /\ answer'[q] = answer[q]
  BY DEF Answered, ScoringTypeOK
<1>2. \A q \in ScoringRequests : ~UnderWay(q)'
  BY <1>1 DEF Sole, UnderWay
<1> QED
  BY <1>1, <1>2, NoneHeld

\* A scoring is answered, and nothing else changes.
LEMMA QuietAlone ==
    ASSUME NEW r \in Scorings, NEW what, ScoringTypeOK, Alone, UnderWay(r), Answered(r, what),
           UNCHANGED <<session, rows, rewound, skills, force>>
    PROVE  Alone'
<1>1. /\ Sole' /\ Current'
      /\ \A q \in ScoringRequests : ~UnderWay(q)'
      /\ spc'[r] = "done"
      /\ \A q \in ScoringRequests \ {r} : spc'[q] = spc[q] /\ answer'[q] = answer[q]
  BY AnsweredAlone DEF Alone
<1>2. Once'
  BY <1>1, OnceKept DEF Alone, UnderWay
<1>3. ReportsOnce'
  BY <1>1, ReportsKept DEF Alone, SameReports, UnderWay
<1>4. Counted'
  BY <1>1, CountedKept DEF Alone
<1> QED
  BY <1>1, <1>2, <1>3, <1>4 DEF Alone

LEMMA ReadExistingAlone ==
    ASSUME NEW r \in Scorings, ScoringTypeOK, Alone, ReadExisting(r)
    PROVE  Alone'
<1>1. UNCHANGED <<session, rows, rewound, skills, force>> /\ spc[r] = "existing"
  BY DEF ReadExisting
<1>2. CASE Answer(r, rows)
  <2>1. UnderWay(r) /\ Answered(r, rows)
    BY <1>1, <1>2, AnswerType DEF UnderWay
  <2> QED
    BY <1>1, <2>1, QuietAlone
<1>3. CASE /\ ~loaded[r].lint.updated /\ Goto(r, "backfill")
           /\ answer' = [answer EXCEPT ![r] = rows]
           /\ UNCHANGED <<loaded, target>>
  <2>1. /\ spc'[r] = "backfill" /\ \A q \in ScoringRequests \ {r} : spc'[q] = spc[q]
        /\ \A q \in ScoringRequests \ {r} : answer'[q] = answer[q]
    BY <1>3 DEF Goto, ScoringTypeOK
  <2>2. Sole'
    BY <1>1, <2>1, SoleKept DEF Alone, UnderWay
  <2>3. Current'
    BY <1>1, <1>3, <2>1, CurrentKept DEF Alone
  <2>4. Once'
    BY <1>1, <1>3, <2>1 DEF Once, Alone
  <2>5. ReportsOnce'
    BY <1>1, <1>3, <2>1, ReportsKept DEF Alone, SameReports
  <2>6. Counted'
    BY <1>1, <2>1, CountedKept DEF Alone
  <2> QED
    BY <2>2, <2>3, <2>4, <2>5, <2>6 DEF Alone
<1> QED
  BY <1>2, <1>3 DEF ReadExisting

LEMMA RefreshAlone ==
    ASSUME NEW r \in Scorings, ScoringTypeOK, Alone, Refresh(r)
    PROVE  Alone'
<1>1. UnderWay(r) /\ Answered(r, RowsOf(r, draft[r]))
  BY AnswerType DEF Refresh, UnderWay
<1> QED
  BY <1>1, QuietAlone DEF Refresh

\* The backfill finds a session that has moved no skill.
LEMMA BackfillAlone ==
    ASSUME NEW r \in Scorings, ScoringTypeOK, Alone, Backfill(r)
    PROVE  Alone'
<1>1. UnderWay(r) /\ Answered(r, answer[r])
  BY AnswerType DEF Backfill, UnderWay
<1>2. /\ Sole' /\ Current'
      /\ \A q \in ScoringRequests : ~UnderWay(q)'
      /\ spc'[r] = "done"
      /\ \A q \in ScoringRequests \ {r} : spc'[q] = spc[q] /\ answer'[q] = answer[q]
  BY <1>1, AnsweredAlone DEF Alone
<1>3. /\ session # None /\ loaded[r] = session /\ ~session.lint.updated
      /\ \A id \in Rows : skills[id] = 0
  BY DEF Backfill, Alone, Current, Once
<1>4. /\ session'.lint.updated
      /\ session'.lint.scored = session.lint.scored
      /\ \A g \in Reports : session'.lint[Kind(g)] = session.lint[Kind(g)]
  <2>1. session \in Session
    BY <1>3 DEF ScoringTypeOK
  <2>2. session' = [session EXCEPT !.lint = [session.lint EXCEPT !.updated = TRUE]]
    BY <1>3 DEF Backfill
  <2> QED
    BY <2>1, <2>2 DEF Session, Lint, Kind
<1>5. rows' = rows /\ rewound' = rewound
  BY DEF Backfill
<1>6. Once'
  <2>1. \A id \in Rows : skills'[id] <= 1
    BY <1>3 DEF Backfill
  <2> QED
    BY <1>2, <1>3, <1>4, <1>5, <2>1 DEF Once, Alone, UnderWay
<1>7. ReportsOnce'
  BY <1>2, <1>3, <1>4, ReportsKept DEF Alone, SameReports, UnderWay
<1>8. Counted'
  BY <1>2, <1>5, CountedKept DEF Alone
<1> QED
  BY <1>2, <1>6, <1>7, <1>8 DEF Alone

\* The rows of a scoring that commits are new, so their skills have not moved.
LEMMA CommitScoresAlone ==
    ASSUME NEW r \in Scorings, IInv, Alone, CommitScores(r)
    PROVE  Alone'
<1>1. ScoringTypeOK /\ spc[r] = "llm" /\ UnderWay(r)
  BY DEF IInv, CommitScores, UnderWay
<1>2. /\ spc'[r] = "refresh" /\ \A q \in ScoringRequests \ {r} : spc'[q] = spc[q]
      /\ UNCHANGED <<rewound, force, loaded, target, answer>>
  BY <1>1 DEF CommitScores, Goto, ScoringTypeOK
<1>3. \A q \in ScoringRequests : UnderWay(q) => q = r
  BY <1>1 DEF Alone, Sole
<1>4. \A q \in ScoringRequests : spc'[q] \notin {"idle", "done", "failed"} => q = r
  BY <1>2, <1>3 DEF UnderWay
<1>5. Sole'
  BY <1>4 DEF Sole, UnderWay
<1>6. Current'
  BY <1>2, <1>4 DEF Current
<1>7. Counted'
  BY <1>1, <1>2, CountedKept DEF Alone
<1>8. PICK outcomes \in [Segments -> Outcomes] :
        \/ UNCHANGED <<session, rows, skills>>
        \/ /\ session # None
           /\ skills' = [id \in Rows |->
                           IF id[1] = r /\ outcomes[id[2]] = "scored" THEN skills[id] + 1
                           ELSE skills[id]]
           /\ session' = ScoredSession(r)
  BY DEF CommitScores, Outcomes
<1>9. CASE UNCHANGED <<session, rows, skills>>
  <2>1. Once'
    BY <1>2, <1>4, <1>9 DEF Once, Alone
  <2>2. ReportsOnce'
    BY <1>1, <1>2, <1>9, ReportsKept DEF Alone, SameReports
  <2> QED
    BY <1>5, <1>6, <1>7, <2>1, <2>2 DEF Alone
<1>10. CASE /\ session # None
            /\ skills' = [id \in Rows |->
                            IF id[1] = r /\ outcomes[id[2]] = "scored" THEN skills[id] + 1
                            ELSE skills[id]]
            /\ session' = ScoredSession(r)
  <2>1. loaded[r] = session /\ session \in Session
    BY <1>1, <1>10 DEF Alone, Current, ScoringTypeOK
  <2>2. /\ session'.lint.updated /\ session'.lint.scored = r
        /\ \A g \in Reports : session'.lint[Kind(g)] = session.lint[Kind(g)]
    BY <1>10, <2>1 DEF ScoredSession, Session, Lint, Kind
  <2>3. \A id \in Rows : skills'[id] <= 1
    <3>1. \A id \in Rows : id[1] = r => ~(skills[id] > 0)
      BY <1>1, <1>10 DEF IInv, NotYet, Standing, SkillsStand
    <3>2. \A id \in Rows : skills[id] \in Nat /\ skills[id] <= 1
      BY <1>1 DEF ScoringTypeOK, Alone, Once
    <3> QED
      BY <1>10, <3>1, <3>2
  <2>4. Once'
    BY <1>2, <1>4, <2>2, <2>3 DEF Once
  <2>5. ReportsOnce'
    BY <1>1, <1>2, <1>10, <2>2, ReportsKept DEF Alone, SameReports
  <2> QED
    BY <1>5, <1>6, <1>7, <2>4, <2>5 DEF Alone
<1> QED
  BY <1>8, <1>9, <1>10

\* A cached report is answered at once, while another request may be under way.
LEMMA CachedReportAlone ==
    ASSUME NEW g \in Reports, ScoringTypeOK, Alone, CachedReport(g)
    PROVE  Alone'
<1>1. /\ session # None /\ session.lint[Kind(g)] # None /\ spc[g] = "idle"
      /\ Answered(g, session.lint[Kind(g)])
      /\ UNCHANGED <<session, rows, rewound, skills, force>>
  BY AnswerType DEF CachedReport, Cached, MayArrive
<1>2. /\ spc'[g] = "done" /\ answer'[g] = session.lint[Kind(g)]
      /\ \A q \in ScoringRequests \ {g} : spc'[q] = spc[q] /\ answer'[q] = answer[q]
      /\ \A q \in (Scorings \cup Reports) \ {g} : loaded'[q] = loaded[q]
      /\ \A w \in Rewinds : target'[w] = target[w]
  BY <1>1 DEF Answered, ScoringTypeOK
<1>3. Sole'
  BY <1>2, SoleKept DEF Alone, UnderWay
<1>4. Current'
  BY <1>1, <1>2, CurrentKept DEF Alone
<1>5. Once'
  BY <1>1, <1>2, OnceKept DEF Alone
<1>6. ReportsOnce'
  <2>1. \A h \in Reports : spc'[h] = "report" => loaded'[h].lint[Kind(h)] = None
    BY <1>2 DEF Alone, ReportsOnce
  <2>2. \A h \in Reports : spc'[h] = "done" =>
           answer'[h] # None /\ session.lint[Kind(h)] = answer'[h]
    BY <1>1, <1>2 DEF Alone, ReportsOnce
  <2>3. \A h, k \in Reports :
           Kind(h) = Kind(k) /\ spc'[h] = "done" /\ spc'[k] = "done" => answer'[h] = answer'[k]
    BY <2>2
  <2>4. session' = session
    BY <1>1
  <2> QED
    BY <2>1, <2>2, <2>3, <2>4 DEF ReportsOnce, Kind
<1>7. Counted'
  BY <1>1, <1>2, CountedKept DEF Alone
<1> QED
  BY <1>3, <1>4, <1>5, <1>6, <1>7 DEF Alone

\* A report is made where none of its kind is, so none of its kind was answered.
LEMMA FinishReportAlone ==
    ASSUME NEW g \in Reports, ScoringTypeOK, Alone, FinishReport(g)
    PROVE  Alone'
<1>1. /\ session # None /\ spc[g] = "report"
      /\ UnderWay(g) /\ Answered(g, Content(g))
      /\ UNCHANGED <<rows, rewound, skills, force>>
  BY AnswerType DEF FinishReport, UnderWay
<1>2. /\ Sole' /\ Current'
      /\ \A q \in ScoringRequests : ~UnderWay(q)'
      /\ spc'[g] = "done" /\ answer'[g] = Content(g)
      /\ \A q \in ScoringRequests \ {g} : spc'[q] = spc[q] /\ answer'[q] = answer[q]
  BY <1>1, AnsweredAlone DEF Alone
<1>3. loaded[g] = session /\ session \in Session /\ session.lint[Kind(g)] = None
  BY <1>1 DEF Alone, Current, ReportsOnce, ScoringTypeOK
<1>4. /\ session'.lint.scored = session.lint.scored
      /\ session'.lint.updated = session.lint.updated
      /\ session'.lint[Kind(g)] = Content(g)
      /\ \A h \in Reports : Kind(h) # Kind(g) => session'.lint[Kind(h)] = session.lint[Kind(h)]
  <2>1. session' = [session EXCEPT !.lint = [session.lint EXCEPT ![Kind(g)] = Content(g)]]
    BY <1>3 DEF FinishReport
  <2> QED
    BY <1>3, <2>1 DEF Session, Lint, Kind
<1>5. Content(g) # None
  BY DEF Content
<1>6. Once'
  BY <1>1, <1>2, <1>4, OnceKept DEF Alone, UnderWay
<1>7. ReportsOnce'
  <2>1. \A h \in Reports : spc'[h] # "report"
    BY <1>2 DEF UnderWay
  <2>2. \A h \in Reports \ {g} : spc'[h] = "done" =>
           /\ Kind(h) # Kind(g)
           /\ answer'[h] # None /\ session'.lint[Kind(h)] = answer'[h]
    BY <1>1, <1>2, <1>3, <1>4 DEF Alone, ReportsOnce
  <2>3. \A h \in Reports : spc'[h] = "done" =>
           answer'[h] # None /\ session'.lint[Kind(h)] = answer'[h]
    BY <1>2, <1>4, <1>5, <2>2
  <2>4. \A h, k \in Reports :
           Kind(h) = Kind(k) /\ spc'[h] = "done" /\ spc'[k] = "done" => answer'[h] = answer'[k]
    BY <2>3
  <2> QED
    BY <2>1, <2>3, <2>4 DEF ReportsOnce, Kind
<1>8. Counted'
  BY <1>1, <1>2, CountedKept DEF Alone
<1> QED
  BY <1>2, <1>6, <1>7, <1>8 DEF Alone

\* The row of a rewind is as it was read: its count is one behind the answers.
LEMMA FinishRewindAlone ==
    ASSUME NEW w \in Rewinds, NEW score \in RewindScores, ScoringTypeOK, Alone, FinishRewind(w, score)
    PROVE  Alone'
<1>1. PICK id \in Rows, t \in Tracking : target[w] = <<id, t>>
  BY DEF ScoringTypeOK, FinishRewind
<1>2. /\ spc[w] = "rewind" /\ UnderWay(w) /\ Answered(w, <<id, score>>)
      /\ UNCHANGED <<session, rows, skills, force>>
  BY <1>1, AnswerType DEF FinishRewind, UnderWay
<1>3. /\ Sole' /\ Current'
      /\ \A q \in ScoringRequests : ~UnderWay(q)'
      /\ spc'[w] = "done" /\ answer'[w] = <<id, score>>
      /\ \A q \in ScoringRequests \ {w} : spc'[q] = spc[q] /\ answer'[q] = answer[q]
  BY <1>2, AnsweredAlone DEF Alone
<1>4. Once'
  BY <1>2, <1>3, OnceKept DEF Alone, UnderWay
<1>5. ReportsOnce'
  BY <1>2, <1>3, ReportsKept DEF Alone, SameReports, UnderWay
<1>6. /\ rewound'[id].count = rewound[id].count + 1
      /\ rewound'[id].best = Larger(rewound[id].best, score)
      /\ \A j \in Rows \ {id} : rewound'[j] = rewound[j]
      /\ rewound[id].count \in Nat /\ rewound[id].best \in Nat
  <2>1. t = rewound[id]
    BY <1>1, <1>2 DEF Alone, Current
  <2>2. rewound \in [Rows -> Tracking]
    BY DEF ScoringTypeOK
  <2>3. rewound' = [rewound EXCEPT ![id] = [count |-> t.count + 1, best |-> Larger(t.best, score)]]
    BY <1>1 DEF FinishRewind
  <2> QED
    BY <2>1, <2>2, <2>3 DEF Tracking
<1>7. /\ DoneOn(id)' = DoneOn(id) \cup {w} /\ w \notin DoneOn(id)
      /\ \A j \in Rows \ {id} : DoneOn(j)' = DoneOn(j)
  BY <1>2, <1>3 DEF DoneOn
<1>8. Cardinality(DoneOn(id)') = Cardinality(DoneOn(id)) + 1
  <2>1. IsFiniteSet(DoneOn(id))
    BY FS_Subset DEF DoneOn
  <2> QED
    BY <1>7, <2>1, FS_AddElement
<1>9. \A v \in DoneOn(id)' : answer'[v][2] <= rewound'[id].best
  <2>1. \A v \in DoneOn(id) : /\ answer[v][2] <= rewound[id].best
                              /\ answer[v][2] \in Nat /\ answer'[v] = answer[v]
    <3> SUFFICES ASSUME NEW v \in DoneOn(id)
                 PROVE  /\ answer[v][2] <= rewound[id].best
                        /\ answer[v][2] \in Nat /\ answer'[v] = answer[v]
      OBVIOUS
    <3>1. v \in Rewinds /\ spc[v] = "done" /\ v # w
      BY <1>7 DEF DoneOn
    <3>2. answer[v] \in Rows \X RewindScores
      BY <3>1 DEF Alone, Counted
    <3>3. answer[v][2] \in RewindScores
      BY <3>2
    <3>4. answer[v][2] <= rewound[id].best
      BY DEF Alone, Counted
    <3>5. answer'[v] = answer[v]
      BY <1>3, <3>1
    <3>6. RewindScores \subseteq Nat
      OBVIOUS
    <3> QED
      BY <3>3, <3>4, <3>5, <3>6
  <2>2. score \in Nat
    OBVIOUS
  <2> QED
    BY <1>3, <1>6, <1>7, <2>1, <2>2 DEF Larger
<1>10. Counted'
  <2>1. \A v \in Rewinds : spc'[v] = "done" => answer'[v] \in Rows \X RewindScores
    BY <1>3 DEF Alone, Counted
  <2>2. rewound'[id].count = Cardinality(DoneOn(id)')
    BY <1>6, <1>8 DEF Alone, Counted
  <2>3. \A j \in Rows \ {id} : /\ rewound'[j].count = Cardinality(DoneOn(j)')
                               /\ \A v \in DoneOn(j)' : answer'[v][2] <= rewound'[j].best
    BY <1>2, <1>3, <1>6, <1>7 DEF Alone, Counted, DoneOn
  <2> QED
    BY <1>9, <2>1, <2>2, <2>3 DEF Counted
<1> QED
  BY <1>3, <1>4, <1>5, <1>10 DEF Alone

LEMMA FailAlone ==
    ASSUME NEW p \in ScoringRequests, ScoringTypeOK, Alone, ScoringFails(p)
    PROVE  Alone'
<1>1. /\ spc'[p] = "failed" /\ \A q \in ScoringRequests \ {p} : spc'[q] = spc[q] /\ answer'[q] = answer[q]
      /\ UnderWay(p) /\ UNCHANGED <<session, rows, rewound, skills, force>>
  BY DEF ScoringFails, Goto, ScoringTypeOK
<1>2. \A q \in ScoringRequests : ~UnderWay(q)'
  BY <1>1 DEF Alone, Sole, UnderWay
<1>3. Sole' /\ Current'
  BY <1>2, NoneHeld
<1>4. Once'
  BY <1>1, <1>2, OnceKept DEF Alone, UnderWay
<1>5. ReportsOnce'
  BY <1>1, <1>2, ReportsKept DEF Alone, SameReports, UnderWay
<1>6. Counted'
  BY <1>1, CountedKept DEF Alone, UnderWay
<1> QED
  BY <1>3, <1>4, <1>5, <1>6 DEF Alone

\* No request moves; the session may go, and its rows with it.
LEMMA OutsideAlone ==
    ASSUME Alone, session' \in {session, None}, rows' \subseteq rows,
           UNCHANGED <<rewound, skills, spc, scoringRequest, answer>>
    PROVE  Alone'
<1>1. UNCHANGED <<force, loaded, target>>
  BY DEF scoringRequest
<1>2. Sole'
  BY SoleKept DEF Alone, UnderWay
<1>3. Current'
  BY <1>1, CurrentKept DEF Alone
<1>4. Once'
  BY <1>1, OnceKept DEF Alone
<1>5. ReportsOnce'
  BY <1>1, ReportsKept DEF Alone, SameReports
<1>6. Counted'
  BY CountedKept DEF Alone
<1> QED
  BY <1>2, <1>3, <1>4, <1>5, <1>6 DEF Alone

-------------------------------------------------------------------------------
(* The theorems *)

AloneInv == ~overlapped => Alone

LEMMA NextAlone == IInv /\ AloneInv /\ [ScoringNext]_scoringVars => AloneInv'
<1> SUFFICES ASSUME IInv, AloneInv, [ScoringNext]_scoringVars, ~overlapped'
             PROVE  Alone'
  BY DEF AloneInv
<1>1. ScoringTypeOK
  BY DEF IInv
<1>2. overlapped => overlapped'
  BY DEF Begin, ScoringNext, scoringVars, StartScoring, ReadExisting, Backfill, CommitScores, Refresh,
         CachedReport, StartReport, FinishReport, StartRewind, FinishRewind, ScoringFails,
         WordsExpire, DeleteSession
<1>3. ~overlapped /\ Alone
  BY <1>2 DEF AloneInv
<1>4. CASE \E r \in Scorings :
             \/ \E forced \in BOOLEAN : StartScoring(r, forced)
             \/ ReadExisting(r) \/ Backfill(r) \/ CommitScores(r) \/ Refresh(r)
  BY <1>1, <1>3, <1>4, StartScoringAlone, ReadExistingAlone, BackfillAlone, CommitScoresAlone,
     RefreshAlone
<1>5. CASE \E g \in Reports : CachedReport(g) \/ StartReport(g) \/ FinishReport(g)
  BY <1>1, <1>3, <1>5, CachedReportAlone, StartReportAlone, FinishReportAlone
<1>6. CASE \E w \in Rewinds :
             StartRewind(w) \/ \E score \in RewindScores : FinishRewind(w, score)
  BY <1>1, <1>3, <1>6, StartRewindAlone, FinishRewindAlone
<1>7. CASE \E p \in ScoringRequests : ScoringFails(p)
  BY <1>1, <1>3, <1>7, FailAlone
<1>8. CASE WordsExpire \/ DeleteSession \/ UNCHANGED scoringVars
  BY <1>3, <1>8, OutsideAlone DEF WordsExpire, DeleteSession, scoringVars, scoringRequest
<1> QED
  BY <1>4, <1>5, <1>6, <1>7, <1>8 DEF ScoringNext

LEMMA AloneHolds == ScoringSpec => []AloneInv
<1>1. ScoringInit => AloneInv
  BY InitAlone DEF AloneInv
<1> QED
  BY <1>1, NextAlone, Invariance, PTL DEF ScoringSpec

\* Without overlapping requests no segment moves the skill graph twice: not by a
\* forced scoring, not by the backfill of an earlier version's session, not by a
\* retry after a failure (_update_skill_graph, scoring.py).
THEOREM SkillsMovedOnce == ScoringSpec => []SkillsOnce
<1>1. AloneInv => SkillsOnce
  BY DEF AloneInv, Alone, Once, SkillsOnce
<1> QED
  BY <1>1, AloneHolds, PTL

\* Without overlapping requests a report is computed once and stays what it was,
\* whatever scorings write to lint_results afterwards (get_delivery_analysis,
\* get_negotiation_analysis).
THEOREM ReportsNeverChange == ScoringSpec => []ReportsStable
<1>1. AloneInv => ReportsStable
  BY DEF AloneInv, Alone, ReportsOnce, ReportsStable
<1> QED
  BY <1>1, AloneHolds, PTL

\* Without overlapping requests rewind_count and best_rewind_score are the number
\* and the maximum of the answers given (score_rewind).
THEOREM RewindsCounted == ScoringSpec => []RewindsKept
<1>1. IInv /\ AloneInv => RewindsKept
  <2> SUFFICES ASSUME Counted, NEW id \in rows, id \in Rows
               PROVE  LET of == {w \in Rewinds : spc[w] = "done" /\ answer[w][1] = id}
                      IN  /\ rewound[id].count = Cardinality(of)
                          /\ \A w \in of : answer[w][2] <= rewound[id].best
    BY DEF IInv, ScoringTypeOK, AloneInv, Alone, RewindsKept
  <2> QED
    BY DEF Counted, DoneOn
<1> QED
  BY <1>1, AloneHolds, Invariance, PTL

\* Without overlapping requests a scoring without force_rescore adds rows only to a
\* session without any ("Idempotent", score_session).
THEOREM Idempotent == ScoringSpec => IdempotentAlone
<1>1. IInv /\ AloneInv /\ [ScoringNext]_scoringVars => [~overlapped => AddsOnlyToUnscored]_scoringVars
  <2> SUFFICES ASSUME IInv, Alone, ScoringNext, NEW r \in Scorings, ~force[r],
                      NEW s \in Segments, <<r, s>> \in rows' \ rows
               PROVE  rows = {}
    BY DEF AloneInv, AddsOnlyToUnscored
  <2>1. CommitScores(r)
    <3>1. PICK q \in Scorings : CommitScores(q) /\ <<r, s>> \in rows'
      BY DEF ScoringNext, StartScoring, ReadExisting, Backfill, Refresh, CachedReport,
             StartReport, FinishReport, StartRewind, FinishRewind, ScoringFails, WordsExpire, DeleteSession
    <3>2. PICK outcomes : rows' = rows \/ rows' = rows \cup RowsOf(q, outcomes)
      BY <3>1 DEF CommitScores, StoredRows
    <3>3. <<r, s>> \in RowsOf(q, outcomes)
      BY <3>2
    <3> QED
      BY <3>1, <3>3 DEF RowsOf
  <2>2. spc[r] = "llm" /\ session # None
    BY <2>1 DEF CommitScores
  <2> QED
    BY <2>2 DEF Alone, Current, Once
<1> QED
  BY <1>1, AloneHolds, Invariance, PTL DEF ScoringSpec, IdempotentAlone
===============================================================================
