-------------------------------- MODULE Scoring --------------------------------
(***************************************************************************)
(* The requests that work on one interview session after it has ended      *)
(* (backend/app/api/v1/scoring.py, rewind.py, negotiation.py): scoring,    *)
(* the delivery and negotiation reports, rewinds, deletion.  Each request  *)
(* has a database session of its own, reads the row of table "sessions"    *)
(* once, waits for an LLM, and then writes back whole columns computed     *)
(* from what it has read.                                                  *)
(*                                                                         *)
(* A row of table "segment_scores" is named by the request that wrote it   *)
(* and by its segment.                                                     *)
(***************************************************************************)
EXTENDS Naturals, FiniteSets

CONSTANTS
    Scorings,      \* POST score
    Deliveries,    \* GET delivery
    Analyses,      \* GET negotiation analysis
    Rewinds,       \* POST rewind/{segment_id}/score
    Segments,      \* question-answer segments of the transcript
    RewindScores,  \* overall scores the LLM gives to a rewind
    MaxRequests,   \* bound: how many of the requests arrive
    MayFail,       \* do LLM, database and connection fail?
    MayDelete,     \* may the user delete the session?
    Legacy,        \* the scoring of a session scored before skill_graph_updated existed
    None

Reports == Deliveries \cup Analyses
ScoringRequests == Scorings \cup Reports \cup Rewinds
Scorers == Scorings \cup {Legacy}
Rows == Scorers \X Segments

ASSUME ConstantsAssumption ==
    /\ Legacy \notin Scorings /\ None \notin Scorers \cup Analyses \cup {"words", "turns"}
    /\ Scorings \cap Reports = {} /\ Scorings \cap Rewinds = {} /\ Reports \cap Rewinds = {}
    /\ Deliveries \cap Analyses = {}
    /\ Segments # {} /\ IsFiniteSet(Rewinds)
    /\ RewindScores \subseteq 0..100
    /\ MaxRequests \in Nat
    /\ MayFail \in BOOLEAN /\ MayDelete \in BOOLEAN

VARIABLES
    session,   \* the row of "sessions": lint_results and total_cost_usd, None once deleted
    rows,      \* the rows of "segment_scores"
    rewound,   \* their rewind_count and best_rewind_score
    skills,    \* how often the segment of a row has been applied to the skill graph
    words,     \* are there rows in transcript_words (kept for 14 days)?
    spc,       \* where each request is
    force,     \* force_rescore of a scoring
    loaded,    \* the session object of a request
    target,    \* the segment object of a rewind
    draft,     \* what the LLM made of each segment
    answer,    \* what a request has answered
    overlapped \* has a request started while another one was under way?

scoringVars == <<session, rows, rewound, skills, words, spc, force, loaded, target, draft, answer,
          overlapped>>
scoringRequest == <<force, loaded, target, draft>>

-----------------------------------------------------------------------------
(* Data *)

\* lint_results: whose summary it holds, the flag beside it, and the cached reports.
NoLint == [scored |-> None, updated |-> FALSE, delivery |-> None, analysis |-> None]

Lint ==
    [scored : Scorers \cup {None}, updated : BOOLEAN,
     delivery : {None, "words", "turns"}, analysis : Analyses \cup {None}]

Session == [lint : Lint, cost : SUBSET Scorers]

\* A segment is scored with usable memory hints, with hints that the skill
\* update chokes on, or not at all.
Outcomes == {"scored", "malformed", "failed"}

RowsOf(r, outcomes) == {r} \X {s \in Segments : outcomes[s] # "failed"}

Tracking == [count : Nat, best : Nat]

Larger(m, n) == IF m >= n THEN m ELSE n

\* Every place of a request has the objects it writes back.
ScoringTypeOK ==
    /\ session \in Session \cup {None}
    /\ rows \subseteq Rows
    /\ rewound \in [Rows -> Tracking]
    /\ skills \in [Rows -> Nat]
    /\ words \in BOOLEAN
    /\ spc \in [ScoringRequests -> {"idle", "llm", "existing", "backfill", "refresh", "report",
                            "rewind", "done", "failed"}]
    /\ force \in [Scorings -> BOOLEAN]
    /\ loaded \in [Scorings \cup Reports -> Session \cup {None}]
    /\ target \in [Rewinds -> (Rows \X Tracking) \cup {None}]
    /\ draft \in [Scorers -> [Segments -> Outcomes]]
    /\ DOMAIN answer = ScoringRequests
    /\ \A r \in Scorings : answer[r] \in (SUBSET Rows) \cup {None}
    /\ \A g \in Deliveries : answer[g] \in {"words", "turns", None}
    /\ \A g \in Analyses : answer[g] \in Analyses \cup {None}
    /\ \A w \in Rewinds : answer[w] \in (Rows \X RewindScores) \cup {None}
    /\ overlapped \in BOOLEAN
    /\ \A p \in Scorings \cup Reports :
         spc[p] \in {"llm", "existing", "backfill", "report"} => loaded[p] \in Session \ {None}
    /\ \A w \in Rewinds : spc[w] = "rewind" => target[w] \in Rows \X Tracking

Fresh == [lint |-> NoLint, cost |-> {}]
ScoredBefore == [lint |-> [NoLint EXCEPT !.scored = Legacy], cost |-> {Legacy}]

\* The session has ended; it may have been scored by an earlier version.
ScoringInit ==
    /\ session \in {Fresh, ScoredBefore}
    /\ rows = IF session = Fresh THEN {} ELSE {Legacy} \X Segments
    /\ rewound = [id \in Rows |-> [count |-> 0, best |-> 0]]
    /\ skills = [id \in Rows |-> 0]
    /\ words = TRUE
    /\ spc = [p \in ScoringRequests |-> "idle"]
    /\ force = [r \in Scorings |-> FALSE]
    /\ loaded = [p \in Scorings \cup Reports |-> None]
    /\ target = [w \in Rewinds |-> None]
    /\ draft = [r \in Scorers |-> [s \in Segments |-> IF r = Legacy THEN "scored" ELSE "failed"]]
    /\ answer = [p \in ScoringRequests |-> None]
    /\ overlapped = FALSE

UnderWay(p) == spc[p] \notin {"idle", "done", "failed"}
Goto(p, place) == spc' = [spc EXCEPT ![p] = place]

\* get_db closes the database session of a request that returns or raises.
Close(p) ==
    /\ loaded' = [q \in DOMAIN loaded |-> IF q = p THEN None ELSE loaded[q]]
    /\ target' = [q \in DOMAIN target |-> IF q = p THEN None ELSE target[q]]

Answer(p, what) == Goto(p, "done") /\ answer' = [answer EXCEPT ![p] = what] /\ Close(p)

MayArrive(p) == spc[p] = "idle" /\ Cardinality({q \in ScoringRequests : spc[q] # "idle"}) < MaxRequests

\* A request arrives; 404 when the session is gone.
Begin(p, place) ==
    /\ MayArrive(p)
    /\ Goto(p, IF session = None THEN "failed" ELSE place)
    /\ overlapped' = (overlapped \/ \E q \in ScoringRequests : UnderWay(q))

-----------------------------------------------------------------------------
(* score_session *)

\* The session is read; a summary in lint_results means that it is scored.
StartScoring(r, forced) ==
    /\ Begin(r, IF session # None /\ session.lint.scored # None /\ ~forced
                THEN "existing" ELSE "llm")
    /\ loaded' = [loaded EXCEPT ![r] = session]
    /\ force' = [force EXCEPT ![r] = forced]
    /\ UNCHANGED <<session, rows, rewound, skills, words, target, draft, answer>>

\* The scores are read, and answered if the skill graph had its update.
ReadExisting(r) ==
    /\ spc[r] = "existing"
    /\ \/ loaded[r].lint.updated /\ Answer(r, rows)
       \/ /\ ~loaded[r].lint.updated /\ Goto(r, "backfill")
          /\ answer' = [answer EXCEPT ![r] = rows]
          /\ UNCHANGED <<loaded, target>>
    /\ UNCHANGED <<session, rows, rewound, skills, words, force, draft, overlapped>>

\* mutant: the flag is not set
Backfill_NoFlag(r) ==
    /\ spc[r] = "backfill" /\ session # None
    /\ skills' = [id \in Rows |-> IF id \in answer[r] THEN skills[id] + 1 ELSE skills[id]]
    /\ session' = [session EXCEPT !.lint = loaded[r].lint]
    /\ Answer(r, answer[r])
    /\ UNCHANGED <<rows, rewound, words, force, draft, overlapped>>

\* Every row is applied to the skill graph and the flag is set, in one commit.
Backfill(r) ==
    /\ spc[r] = "backfill" /\ session # None
    /\ skills' = [id \in Rows |-> IF id \in answer[r] THEN skills[id] + 1 ELSE skills[id]]
    /\ session' = [session EXCEPT !.lint = [loaded[r].lint EXCEPT !.updated = TRUE]]
    /\ Answer(r, answer[r])
    /\ UNCHANGED <<rows, rewound, words, force, draft, overlapped>>

\* mutant: lint_results is overwritten
ScoredSession_Overwrites(r) ==
    [lint |-> [NoLint EXCEPT !.scored = r, !.updated = TRUE], cost |-> loaded[r].cost \cup {r}]

\* "merge, don't overwrite": into the lint_results and the cost that were read.
ScoredSession(r) ==
    [lint |-> [loaded[r].lint EXCEPT !.scored = r, !.updated = TRUE],
     cost |-> loaded[r].cost \cup {r}]

\* mutant: a scoring deletes the rows of the one before it
StoredRows_Replaced(r, outcomes) == RowsOf(r, outcomes)

StoredRows(r, outcomes) == rows \cup RowsOf(r, outcomes)

\* All calls of the LLM have returned.  Rows, skill updates, the merged
\* summary and the cost are committed together; without a scored segment
\* nothing is.  A skill update that raises is logged and skipped.
CommitScores(r) ==
    /\ spc[r] = "llm"
    /\ \E outcomes \in [Segments -> IF MayFail THEN Outcomes ELSE {"scored"}] :
         /\ draft' = [draft EXCEPT ![r] = outcomes]
         /\ \/ /\ RowsOf(r, outcomes) = {}
               /\ UNCHANGED <<session, rows, skills>>
            \/ /\ RowsOf(r, outcomes) # {} /\ session # None
               /\ rows' = StoredRows(r, outcomes)
               /\ skills' = [id \in Rows |->
                               IF id[1] = r /\ outcomes[id[2]] = "scored" THEN skills[id] + 1
                               ELSE skills[id]]
               /\ session' = ScoredSession(r)
    /\ Goto(r, "refresh")
    /\ UNCHANGED <<rewound, words, force, loaded, target, answer, overlapped>>

\* db.refresh of every new row, build_memory is started, the scores are answered.
Refresh(r) ==
    /\ spc[r] = "refresh"
    /\ RowsOf(r, draft[r]) \subseteq rows
    /\ Answer(r, RowsOf(r, draft[r]))
    /\ UNCHANGED <<session, rows, rewound, skills, words, force, draft, overlapped>>

-----------------------------------------------------------------------------
(* get_delivery_analysis, get_negotiation_analysis *)

Kind(g) == IF g \in Deliveries THEN "delivery" ELSE "analysis"

Cached(g) == session # None /\ session.lint[Kind(g)] # None

\* A report in lint_results is answered as it is.
CachedReport(g) ==
    /\ Cached(g) /\ MayArrive(g)
    /\ Answer(g, session.lint[Kind(g)])
    /\ UNCHANGED <<session, rows, rewound, skills, words, force, draft, overlapped>>

StartReport(g) ==
    /\ ~Cached(g)
    /\ Begin(g, "report")
    /\ loaded' = [loaded EXCEPT ![g] = session]
    /\ UNCHANGED <<session, rows, rewound, skills, words, force, target, draft, answer>>

\* The delivery of the words while there are any, then of the turns; an LLM's
\* analysis of a negotiation is one of a kind.
Content(g) == IF g \in Analyses THEN g ELSE IF words THEN "words" ELSE "turns"

\* mutant: lint_results is replaced
FinishReport_Replaces(g) ==
    /\ spc[g] = "report" /\ session # None
    /\ session' = [session EXCEPT !.lint = [NoLint EXCEPT ![Kind(g)] = Content(g)]]
    /\ Answer(g, Content(g))
    /\ UNCHANGED <<rows, rewound, skills, words, force, draft, overlapped>>

\* The report is merged into the lint_results that were read.
FinishReport(g) ==
    /\ spc[g] = "report" /\ session # None
    /\ session' = [session EXCEPT !.lint = [loaded[g].lint EXCEPT ![Kind(g)] = Content(g)]]
    /\ Answer(g, Content(g))
    /\ UNCHANGED <<rows, rewound, skills, words, force, draft, overlapped>>

\* The TTL of transcript_words.
WordsExpire ==
    /\ words
    /\ words' = FALSE
    /\ UNCHANGED <<session, rows, rewound, skills, spc, scoringRequest, answer, overlapped>>

-----------------------------------------------------------------------------
(* score_rewind, delete_session, failures *)

\* The segment row is read.
StartRewind(w) ==
    /\ Begin(w, "rewind")
    /\ \E id \in rows : target' = [target EXCEPT ![w] = <<id, rewound[id]>>]
    /\ UNCHANGED <<session, rows, rewound, skills, words, force, loaded, draft, answer>>

\* mutant: the score of the last rewind
FinishRewind_Latest(w, score) ==
    /\ spc[w] = "rewind" /\ target[w][1] \in rows
    /\ rewound' = [rewound EXCEPT ![target[w][1]] =
                     [count |-> target[w][2].count + 1, best |-> score]]
    /\ Answer(w, <<target[w][1], score>>)
    /\ UNCHANGED <<session, rows, skills, words, force, draft, overlapped>>

\* The answer is scored, and count and best, as computed from the row that was
\* read, are committed; an UPDATE of a deleted row fails.
FinishRewind(w, score) ==
    /\ spc[w] = "rewind" /\ target[w][1] \in rows
    /\ rewound' = [rewound EXCEPT ![target[w][1]] =
                     [count |-> target[w][2].count + 1,
                      best |-> Larger(target[w][2].best, score)]]
    /\ Answer(w, <<target[w][1], score>>)
    /\ UNCHANGED <<session, rows, skills, words, force, draft, overlapped>>

\* The rows of the session go with it; the skill graph keeps what it learned.
DeleteSession ==
    /\ MayDelete /\ session # None
    /\ session' = None /\ rows' = {} /\ words' = FALSE
    /\ UNCHANGED <<rewound, skills, spc, scoringRequest, answer, overlapped>>

\* The LLM, the database or the connection fails, or the row to be written is
\* gone: the transaction is rolled back.
ScoringFails(p) ==
    /\ UnderWay(p)
    /\ MayFail \/ session = None
    /\ Goto(p, "failed")
    /\ answer' = [answer EXCEPT ![p] = None]
    /\ Close(p)
    /\ UNCHANGED <<session, rows, rewound, skills, words, force, draft, overlapped>>

-----------------------------------------------------------------------------

ScoringNext ==
    \/ \E r \in Scorings :
         \/ \E forced \in BOOLEAN : StartScoring(r, forced)
         \/ ReadExisting(r) \/ Backfill(r) \/ CommitScores(r) \/ Refresh(r)
    \/ \E g \in Reports : CachedReport(g) \/ StartReport(g) \/ FinishReport(g)
    \/ \E w \in Rewinds : StartRewind(w) \/ \E score \in RewindScores : FinishRewind(w, score)
    \/ \E p \in ScoringRequests : ScoringFails(p)
    \/ WordsExpire
    \/ DeleteSession

ScoringSpec == ScoringInit /\ [][ScoringNext]_scoringVars

-----------------------------------------------------------------------------
(* Properties *)

\* What lint_results summarises and what a scoring has answered is in
\* segment_scores, however many requests write back the lint_results they
\* have read before others added theirs.
RowsStand ==
    session # None =>
        /\ session.lint.scored # None =>
             LET r == session.lint.scored
             IN  RowsOf(r, draft[r]) # {} /\ RowsOf(r, draft[r]) \subseteq rows
        /\ \A r \in Scorings : spc[r] = "done" => answer[r] \subseteq rows

\* A segment has moved the skill graph exactly if its row is stored, whatever
\* failed, was retried or overlapped (its hints may have been malformed); the
\* flag says so of an earlier version's rows.
SkillsFollowRows ==
    session # None =>
        \A id \in Rows :
            /\ skills[id] > 0 => id \in rows
            /\ id \in rows /\ id[1] # Legacy /\ draft[id[1]][id[2]] = "scored" => skills[id] > 0
            /\ id \in rows /\ id[1] = Legacy /\ session.lint.scored = Legacy
                 /\ session.lint.updated => skills[id] > 0

\* No segment moves the skill graph twice, without overlapping requests.  (A
\* backfill that overlaps a scoring applies the new rows a second time.)
SkillsOnce == ~overlapped => \A id \in Rows : skills[id] <= 1

\* A scoring without force_rescore adds rows only to a session without any.
AddsOnlyToUnscored ==
    \A r \in Scorings : ~force[r] /\ (\E s \in Segments : <<r, s>> \in rows' \ rows) => rows = {}

\* "Idempotent: returns existing scores unless force_rescore=True", when
\* requests do not overlap.
IdempotentAlone == [][~overlapped => AddsOnlyToUnscored]_scoringVars

\* "cached after first computation": without overlapping requests a report
\* never changes, although scorings write lint_results in between and the
\* words it was computed from expire.
ReportsStable ==
    ~overlapped =>
        \A g, h \in Reports :
            Kind(g) = Kind(h) /\ spc[g] = "done" /\ spc[h] = "done" => answer[g] = answer[h]

\* rewind_count counts the answered rewinds of a row and best_rewind_score is
\* their best, without overlapping requests.
RewindsKept ==
    ~overlapped => \A id \in rows :
        LET of == {w \in Rewinds : spc[w] = "done" /\ answer[w][1] = id}
        IN  /\ rewound[id].count = Cardinality(of)
            /\ \A w \in of : answer[w][2] <= rewound[id].best
=============================================================================
