------------------------------ MODULE SkillGraph ------------------------------
(***************************************************************************)
(* The skill graph of one user (services/memory/skill_graph.py) under the  *)
(* HTTP requests that update it: scoring a session and scoring a rewind,   *)
(* each in a database transaction of its own.                              *)
(*                                                                         *)
(* A request runs update_from_scoring_result for its segments one after    *)
(* the other and commits once.  For each signalled skill it selects the    *)
(* node, or inserts it, and changes the object in memory.  The ORM session *)
(* flushes that change, an UPDATE of the columns that differ, before its   *)
(* next query or at the commit; a flushed row stays locked until the       *)
(* transaction ends.  The database is PostgreSQL at READ COMMITTED: a      *)
(* SELECT sees committed rows, a second writer of a row waits for the      *)
(* first, and a cycle of waiting writers loses one of them.                *)
(***************************************************************************)
EXTENDS Integers, Sequences, FiniteSets, SequencesExt

CONSTANTS
    Skills,        \* names of _SKILL_CATEGORY
    Primary,       \* type_primary_skills of the session type, in list order
    Results,       \* scoring results a segment may get
    Requests,      \* score and rewind requests
    MaxSegments,   \* segments scored by one request
    InitialNodes,  \* nodes the user may already have
    EvidenceCap,   \* evidence links kept (20 in the code)
    MistakesCap,   \* typical mistakes kept (5 in the code)
    Serial,        \* does the client wait for one request before the next?
    NoNode         \* the skill has no row

Trends == {"improving", "declining", "stable"}
Directions == {"positive", "negative"}
Scores == 0..100

\* Where a signal came from: its note, wording abstracted.  A base note names
\* the overall score.
Notes == [from : {"rule", "hint", "base"}, overall : Scores]

\* A scoring result: the overall score, the skills RULE_SKILL_MAP gives for the
\* rules that fired, and the direction of each skill in memory_hints.skill_signals.
Result == [overall : Scores, rules : SUBSET Skills,
           hints : UNION {[S -> Directions] : S \in SUBSET Skills}]

\* Columns written only when their value changed; evidence_links and
\* next_review_due change with every signal.
Columns == {"score", "best", "trend", "mistakes"}

Node == [score : Scores, best : Scores, trend : Trends, days : Nat,
         mistakes : Seq(Notes), links : Seq([req : Requests \cup {"earlier"}, score : Scores])]

ASSUME SkillGraphAssumption ==
    /\ Primary \in Seq(Skills)
    /\ Results \subseteq Result
    /\ "earlier" \notin Requests
    /\ MaxSegments \in Nat
    /\ InitialNodes \subseteq {n \in Node : \A l \in ToSet(n.links) : l.req = "earlier"}
    /\ EvidenceCap \in Nat \ {0}
    /\ MistakesCap \in Nat \ {0}
    /\ Serial \in BOOLEAN
    /\ NoNode \notin Node \cup Requests \cup Skills \cup Results

VARIABLES
    row,      \* the committed row of each skill
    holder,   \* the transaction that has written the row and not ended
    pc,       \* where each request is
    result,   \* the result of the segment being applied
    todo,     \* its skills not yet applied
    segs,     \* segments the request has started
    copy,     \* the request's latest object of each node it has changed
    dirty,    \* the node whose change it has not flushed
    written   \* the columns its UPDATEs of a row name

request == <<pc, result, todo, segs>>
vars == <<row, holder, request, copy, dirty, written>>

-----------------------------------------------------------------------------
(* The arithmetic of one update *)

Least(a, b) == IF a <= b THEN a ELSE b
Greatest(a, b) == IF a >= b THEN a ELSE b

AdjustedScore(dir, old, overall) ==
    IF dir = "positive"
    THEN Least(100, old + Greatest(5, Least(15, (overall - old) \div 3)))
    ELSE Greatest(0, old - Greatest(3, Least(10, (old - overall) \div 3 + 5)))

ComputeTrend(old, new) ==
    CASE new - old >= 5 -> "improving"
      [] old - new >= 5 -> "declining"
      [] OTHER -> "stable"

NextReviewDays(score, trend) ==
    CASE score < 40 -> 1
      [] score >= 40 /\ score < 60 -> IF trend = "declining" THEN 3 ELSE 4
      [] score >= 60 /\ score < 80 -> IF trend = "declining" THEN 7 ELSE 10
      [] OTHER -> IF trend = "declining" THEN 7 ELSE 14

KeepLast(s, n) == IF Len(s) <= n THEN s ELSE SubSeq(s, Len(s) - n + 1, Len(s))

-----------------------------------------------------------------------------
(* The signals of a scoring result *)

SignalledSkills(res) == res.rules \cup DOMAIN res.hints \cup ToSet(Primary)

\* A hint replaces a rule's signal only when it is positive.
FromHint(res, s) ==
    s \in DOMAIN res.hints /\ (s \notin res.rules \/ res.hints[s] = "positive")

SignalNote(res, s) ==
    CASE FromHint(res, s) -> [from |-> "hint", overall |-> 0]
      [] ~FromHint(res, s) /\ s \in res.rules -> [from |-> "rule", overall |-> 0]
      [] OTHER -> [from |-> "base", overall |-> res.overall]

Direction(res, s) ==
    CASE FromHint(res, s) -> res.hints[s]
      [] ~FromHint(res, s) /\ s \in res.rules -> "negative"
      [] OTHER -> IF res.overall >= 60 THEN "positive" ELSE "negative"

\* skill_signals is a dict, applied in insertion order: the rules' skills in
\* the order of a set, then the hints', then the primary skills in list order.
SignalRank(res, s) ==
    CASE s \in res.rules -> 0
      [] s \notin res.rules /\ s \in DOMAIN res.hints -> 1
      [] OTHER -> 1 + CHOOSE i \in DOMAIN Primary : Primary[i] = s

NewNode == [score |-> 0, best |-> 0, trend |-> "stable", days |-> 0,
            mistakes |-> <<>>, links |-> <<>>]

\* mutant: a new record is not kept
BestAfter_Kept(node, new) == node.best

BestAfter(node, new) == Greatest(node.best, new)

\* The node object after one signal.
AfterSignal(r, node, res, s) ==
    LET dir == Direction(res, s)
        note == SignalNote(res, s)
        new == AdjustedScore(dir, node.score, res.overall)
        trend == ComputeTrend(node.score, new)
    IN  [score |-> new,
         best |-> BestAfter(node, new),
         trend |-> trend,
         days |-> NextReviewDays(new, trend),
         mistakes |-> IF dir = "negative" /\ note \notin ToSet(node.mistakes)
                      THEN KeepLast(Append(node.mistakes, note), MistakesCap)
                      ELSE node.mistakes,
         links |-> KeepLast(Append(node.links, [req |-> r, score |-> new]), EvidenceCap)]

-----------------------------------------------------------------------------
(* Requests *)

Init ==
    /\ row \in [Skills -> InitialNodes \cup {NoNode}]
    /\ holder = [s \in Skills |-> NoNode]
    /\ pc = [r \in Requests |-> "idle"]
    /\ result = [r \in Requests |-> NoNode]
    /\ todo = [r \in Requests |-> {}]
    /\ segs = [r \in Requests |-> 0]
    /\ copy = [r \in Requests |-> [s \in Skills |-> NoNode]]
    /\ dirty = [r \in Requests |-> NoNode]
    /\ written = [r \in Requests |-> [s \in Skills |-> {}]]

Running == {r \in Requests : pc[r] \in {"update", "insert"}}

\* update_from_scoring_result is called for one (more) scored segment.
StartSegment(r) ==
    /\ segs[r] < MaxSegments
    /\ \/ pc[r] = "idle" /\ (Serial => Running = {})
       \/ pc[r] = "update" /\ todo[r] = {}
    /\ \E res \in Results :
         /\ result' = [result EXCEPT ![r] = res]
         /\ todo' = [todo EXCEPT ![r] = SignalledSkills(res)]
    /\ pc' = [pc EXCEPT ![r] = "update"]
    /\ segs' = [segs EXCEPT ![r] = @ + 1]
    /\ UNCHANGED <<row, holder, copy, dirty, written>>

MayLock(r, s) == holder[s] \in {NoNode, r}

\* mutant: every flush is a transaction of its own
Flush_Autocommits(r) ==
    /\ pc[r] = "update"
    /\ dirty[r] # NoNode
    /\ row' = [row EXCEPT ![dirty[r]] = copy[r][dirty[r]]]
    /\ dirty' = [dirty EXCEPT ![r] = NoNode]
    /\ UNCHANGED <<holder, request, copy, written>>

\* The flush before the next query or the commit: an UPDATE, which locks the row.
Flush(r) ==
    /\ pc[r] = "update"
    /\ dirty[r] # NoNode
    /\ MayLock(r, dirty[r])
    /\ holder' = [holder EXCEPT ![dirty[r]] = r]
    /\ dirty' = [dirty EXCEPT ![r] = NoNode]
    /\ UNCHANGED <<row, request, copy, written>>

\* The next skill of the dict.
NextSkill(r, s) ==
    /\ s \in todo[r]
    /\ \A t \in todo[r] : SignalRank(result[r], s) <= SignalRank(result[r], t)

Changed(old, new) == {c \in Columns : old[c] # new[c]}

\* The loop body after get_or_create_node has returned `node`: no await follows.
Apply(r, s, node) ==
    LET new == AfterSignal(r, node, result[r], s)
    IN  /\ copy' = [copy EXCEPT ![r][s] = new]
        /\ written' = [written EXCEPT ![r][s] = @ \cup Changed(node, new)]
        /\ dirty' = [dirty EXCEPT ![r] = s]
        /\ todo' = [todo EXCEPT ![r] = @ \ {s}]

\* The value of column c of a row the transaction has updated.
Column(r, s, c) == IF c \in written[r][s] THEN copy[r][s][c] ELSE row[s][c]

\* A row updated by the columns the transaction has written; the evidence
\* links and the review date are among them each time.
UpdatedRow(r, s) ==
    [score |-> Column(r, s, "score"),
     best |-> Column(r, s, "best"),
     trend |-> Column(r, s, "trend"),
     days |-> copy[r][s].days,
     mistakes |-> Column(r, s, "mistakes"),
     links |-> copy[r][s].links]

\* mutants: evidence_links appended in place, which the ORM does not notice;
\* next_review_due left out
CommittedRow_LinksInPlace(r, s) ==
    IF row[s] = NoNode THEN copy[r][s] ELSE [UpdatedRow(r, s) EXCEPT !.links = row[s].links]
CommittedRow_StaleReview(r, s) ==
    IF row[s] = NoNode THEN copy[r][s] ELSE [UpdatedRow(r, s) EXCEPT !.days = row[s].days]

CommittedRow(r, s) == IF row[s] = NoNode THEN copy[r][s] ELSE UpdatedRow(r, s)

\* The row as the transaction sees it.  No node object outlives the call that
\* loaded it, so a later segment loads the row again.
Seen(r, s) == IF copy[r][s] = NoNode THEN row[s] ELSE CommittedRow(r, s)

\* SELECT finds the node.
Select(r, s) ==
    /\ pc[r] = "update" /\ dirty[r] = NoNode
    /\ NextSkill(r, s)
    /\ Seen(r, s) # NoNode
    /\ Apply(r, s, Seen(r, s))
    /\ UNCHANGED <<row, holder, pc, result, segs>>

\* SELECT finds no node.
SelectNone(r, s) ==
    /\ pc[r] = "update" /\ dirty[r] = NoNode
    /\ NextSkill(r, s)
    /\ Seen(r, s) = NoNode
    /\ pc' = [pc EXCEPT ![r] = "insert"]
    /\ UNCHANGED <<row, holder, result, todo, segs, copy, dirty, written>>

\* db.add and db.flush: the INSERT waits while another transaction has
\* inserted the same (user, skill).
Insert(r, s) ==
    /\ pc[r] = "insert"
    /\ NextSkill(r, s)
    /\ row[s] = NoNode /\ holder[s] = NoNode
    /\ holder' = [holder EXCEPT ![s] = r]
    /\ Apply(r, s, NewNode)
    /\ pc' = [pc EXCEPT ![r] = "update"]
    /\ UNCHANGED <<row, result, segs>>

\* mutant: the row locks outlive the transaction
EndTransaction_KeepsLocks(r) ==
    /\ copy' = [copy EXCEPT ![r] = [s \in Skills |-> NoNode]]
    /\ dirty' = [dirty EXCEPT ![r] = NoNode]
    /\ written' = [written EXCEPT ![r] = [s \in Skills |-> {}]]
    /\ result' = [result EXCEPT ![r] = NoNode]
    /\ todo' = [todo EXCEPT ![r] = {}]
    /\ UNCHANGED <<segs, holder>>

EndTransaction(r) ==
    /\ holder' = [s \in Skills |-> IF holder[s] = r THEN NoNode ELSE holder[s]]
    /\ copy' = [copy EXCEPT ![r] = [s \in Skills |-> NoNode]]
    /\ dirty' = [dirty EXCEPT ![r] = NoNode]
    /\ written' = [written EXCEPT ![r] = [s \in Skills |-> {}]]
    /\ result' = [result EXCEPT ![r] = NoNode]
    /\ todo' = [todo EXCEPT ![r] = {}]
    /\ UNCHANGED segs

\* The transaction fails in a flush, so the ORM session can do nothing but
\* roll back: the warning in score_session swallows the error, and the commit
\* that follows raises.
Fail(r) ==
    /\ r \in Running
    /\ pc' = [pc EXCEPT ![r] = "failed"]
    /\ EndTransaction(r)
    /\ UNCHANGED row

\* uq_skill_graph_user_skill: the other request's INSERT has committed.
InsertConflict(r, s) ==
    /\ pc[r] = "insert"
    /\ NextSkill(r, s)
    /\ row[s] # NoNode /\ MayLock(r, s)
    /\ Fail(r)

\* The request that r's statement waits for.
WaitsFor(r, q) ==
    /\ q # r
    /\ \/ pc[r] = "update" /\ dirty[r] # NoNode /\ holder[dirty[r]] = q
       \/ pc[r] = "insert" /\ \E s \in Skills : NextSkill(r, s) /\ holder[s] = q

\* PostgreSQL ends one transaction of a waiting cycle.
DeadlockVictim(r) ==
    /\ \E C \in SUBSET Requests :
         /\ r \in C
         /\ \A q \in C : \E p \in C : WaitsFor(q, p)
         /\ \A q \in C : \E p \in C : WaitsFor(p, q)
    /\ Fail(r)

\* The connection or the process is lost before the commit.
LoseConnection(r) == Fail(r)

Commit(r) ==
    /\ pc[r] = "update" /\ todo[r] = {} /\ dirty[r] = NoNode
    /\ row' = [s \in Skills |-> IF holder[s] = r THEN CommittedRow(r, s) ELSE row[s]]
    /\ pc' = [pc EXCEPT ![r] = "done"]
    /\ EndTransaction(r)

Update(r) ==
    \/ StartSegment(r)
    \/ Flush(r)
    \/ \E s \in Skills : Select(r, s) \/ SelectNone(r, s) \/ Insert(r, s) \/ InsertConflict(r, s)
    \/ DeadlockVictim(r)
    \/ Commit(r)

Next == \E r \in Requests : Update(r) \/ LoseConnection(r)

Spec == Init /\ [][Next]_vars

\* The server keeps running a request and the database answers; nothing is
\* assumed about when the client sends one.
Fairness == \A r \in Requests : WF_vars(pc[r] # "idle" /\ Update(r))

FairSpec == Spec /\ Fairness

-----------------------------------------------------------------------------
(* Properties *)

\* The columns keep their types; in particular every score an update computes
\* or commits is within 0..100.
TypeOK ==
    /\ row \in [Skills -> Node \cup {NoNode}]
    /\ holder \in [Skills -> Requests \cup {NoNode}]
    /\ pc \in [Requests -> {"idle", "update", "insert", "done", "failed"}]
    /\ result \in [Requests -> Results \cup {NoNode}]
    /\ todo \in [Requests -> SUBSET Skills]
    /\ segs \in [Requests -> 0..MaxSegments]
    /\ copy \in [Requests -> [Skills -> Node \cup {NoNode}]]
    /\ dirty \in [Requests -> Skills \cup {NoNode}]
    /\ written \in [Requests -> [Skills -> SUBSET Columns]]

\* A node's best score is at least its current score: drill_planner.py shows
\* it as the "previous record" to beat and its lead as the gap.
BestCoversScore == \A s \in Skills : row[s] # NoNode => row[s].best >= row[s].score

\* No commit lowers a node's best score.
BestNeverDrops == [][\A s \in Skills : row[s] # NoNode => row'[s].best >= row[s].best]_row

LinksOf(r, links) == {i \in DOMAIN links : links[i].req = r}

\* A committed request has left one evidence link per segment in every primary
\* skill, as long as the list has never been trimmed: no other request's commit
\* has overwritten it.
EveryUpdateKept ==
    \A r \in Requests, s \in ToSet(Primary) :
        pc[r] = "done" =>
            LET links == row[s].links
            IN  \/ Len(links) = EvidenceCap
                \/ Cardinality(LinksOf(r, links)) = segs[r]

\* The review date of a row is the one its own score and trend call for, so a
\* weak or slipping skill is never scheduled as a strong one.
ReviewMatchesScore ==
    \A s \in Skills : row[s] # NoNode => row[s].days = NextReviewDays(row[s].score, row[s].trend)

\* A request that failed left nothing behind: neither a partial update of some
\* of its skills nor a node it created.
FailedLeavesNoTrace ==
    \A r \in Requests, s \in Skills :
        pc[r] = "failed" /\ row[s] # NoNode => \A l \in ToSet(row[s].links) : l.req # r

\* Requests that lock the same skills in different orders, or create the same
\* node, do not hold each other up for ever: each one commits or fails.
RequestsEnd == \A r \in Requests : pc[r] # "idle" ~> pc[r] \in {"done", "failed"}

=============================================================================
