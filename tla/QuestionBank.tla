----------------------------- MODULE QuestionBank -----------------------------
(***************************************************************************)
(* Questions (api/v1/questions.py), their moderation (admin.py) and the    *)
(* company tips (companies.py).  A request selects a row, adds 1 to a      *)
(* counter in Python and commits; several run at once.                     *)
(***************************************************************************)
EXTENDS Naturals, FiniteSets

CONSTANTS Visitors,     \* the requests
          Voters,       \* the users who send them
          Seeded, Offered, Tips,        \* questions of the bank, contributions, tips
          SkillsTested, TypeOf, CompanyOf,   \* attributes of the questions
          Window,       \* rows a selection looks at: 50 with skills, 20 without
          NoRow

VARIABLES
    question,   \* question -> status, times_used, upvotes; NoRow
    tip,        \* tip -> upvotes; NoRow
    upvotes,    \* question_upvotes: pairs of a question and a user, unique
    qreq,       \* the requests: what they selected and the row as it was
    goneVoters, \* users whose account is deleted
    served,     \* history: how often a question was served, a tip upvoted
    orphaned,   \* history: votes of deleted users
    raced       \* history: rows that overlapping requests have counted on

bankVars == <<question, tip, upvotes, qreq, goneVoters, served, orphaned, raced>>

Questions == Seeded \cup Offered
Rows == Questions \cup Tips

QuestionRow == [status : {"pending", "approved", "rejected"}, used : Nat, votes : Nat]
TipRow == [votes : Nat]

ASSUME BankAssumption ==
    /\ Questions \cap Tips = {}
    /\ NoRow \notin {"next", "vote", "tip"} \cup QuestionRow \cup TipRow

NewQuestion(status) == [status |-> status, used |-> 0, votes |-> 0]
Free == [at |-> "new", does |-> NoRow, row |-> NoRow, user |-> NoRow, copy |-> NoRow]

BankInit ==
    /\ question = [q \in Questions |-> IF q \in Seeded THEN NewQuestion("approved") ELSE NoRow]
    /\ tip = [t \in Tips |-> NoRow]
    /\ upvotes = {}
    /\ qreq = [v \in Visitors |-> Free]
    /\ goneVoters = {}
    /\ served = [x \in Rows |-> 0]
    /\ orphaned = [q \in Questions |-> 0]
    /\ raced = {}

Leave(v) == qreq' = [qreq EXCEPT ![v] = [Free EXCEPT !.at = "end"]]

(* The request has selected a row, and will commit a change of it. *)
Hold(v, does, row, user, copy) ==
    /\ qreq' = [qreq EXCEPT ![v] = [at |-> "commit", does |-> does, row |-> row,
                                    user |-> user, copy |-> copy]]
    /\ raced' = IF \E o \in Visitors : qreq[o].row = row /\ qreq[o].does = does
                THEN raced \cup {row} ELSE raced

-------------------------------------------------------------------------------
(* get_next_question *)

Approved(type) == {q \in Questions : /\ question[q] # NoRow /\ question[q].status = "approved"
                                     /\ TypeOf[q] = type}

(* ORDER BY times_used, random() LIMIT: the sets of rows the query may return. *)
Leading(rows) ==
    {front \in SUBSET rows :
        /\ Cardinality(front) = IF Cardinality(rows) < Window THEN Cardinality(rows) ELSE Window
        /\ \A q \in front, p \in rows \ front : question[q].used <= question[p].used}

LeastUsed(rows) == {q \in rows : \A p \in rows : question[q].used <= question[p].used}

(* _select_question: the first candidate that tests a target skill, else the first. *)
Selected(rows, skills) ==
    UNION {LET matching == {q \in front : SkillsTested[q] \cap skills # {}}
           IN LeastUsed(IF matching # {} THEN matching ELSE front) : front \in Leading(rows)}

(* Company questions first, then any of the type; 404 if there are none. *)
NextQuestion(v, skills, type, company) ==
    LET tagged == {q \in Approved(type) : CompanyOf[q] = company}
        rows == IF tagged # {} THEN tagged ELSE Approved(type)
    IN /\ qreq[v].at = "new"
       /\ \/ rows = {} /\ Leave(v) /\ UNCHANGED raced
          \/ \E q \in Selected(rows, skills) : Hold(v, "next", q, NoRow, question[q])
       /\ UNCHANGED <<question, tip, upvotes, served, goneVoters, orphaned>>

CommitNext(v) ==
    LET q == qreq[v].row IN
    /\ qreq[v].does = "next"
    /\ question' = [question EXCEPT ![q].used = qreq[v].copy.used + 1]
    /\ served' = [served EXCEPT ![q] = @ + 1]
    /\ Leave(v)
    /\ UNCHANGED <<tip, upvotes, raced, goneVoters, orphaned>>

-------------------------------------------------------------------------------
(* upvote_question: the insert of the pair refuses a second vote of the same user. *)

UpvoteQuestion(v, q, u) ==
    /\ qreq[v].at = "new"
    /\ IF question[q] = NoRow
       THEN Leave(v) /\ UNCHANGED raced
       ELSE Hold(v, "vote", q, u, question[q])
    /\ UNCHANGED <<question, tip, upvotes, served, goneVoters, orphaned>>

\* mutant: a repeated vote is counted again
CommitVote_CountsAgain(v) ==
    LET q == qreq[v].row IN
    /\ qreq[v].does = "vote"
    /\ upvotes' = upvotes \cup {<<q, qreq[v].user>>}
    /\ question' = [question EXCEPT ![q].votes = qreq[v].copy.votes + 1]
    /\ Leave(v)
    /\ UNCHANGED <<tip, served, raced, goneVoters, orphaned>>

CommitVote(v) ==
    LET q == qreq[v].row IN
    /\ qreq[v].does = "vote"
    /\ IF <<q, qreq[v].user>> \in upvotes \/ qreq[v].user \in goneVoters
       THEN UNCHANGED <<question, upvotes>>                \* 409; no such user
       ELSE /\ upvotes' = upvotes \cup {<<q, qreq[v].user>>}
            /\ question' = [question EXCEPT ![q].votes = qreq[v].copy.votes + 1]
    /\ Leave(v)
    /\ UNCHANGED <<tip, served, raced, goneVoters, orphaned>>

-------------------------------------------------------------------------------
(* delete_account: the rows of question_upvotes go with the user, the counters stay. *)
VoterLeaves(u) ==
    /\ u \notin goneVoters
    /\ goneVoters' = goneVoters \cup {u}
    /\ upvotes' = {p \in upvotes : p[2] # u}
    /\ orphaned' = [q \in Questions |-> orphaned[q] + IF <<q, u>> \in upvotes THEN 1 ELSE 0]
    /\ UNCHANGED <<question, tip, qreq, served, raced>>

-------------------------------------------------------------------------------
(* contribute_question; approve_question and reject_question, whatever the status was. *)

Contribute(v, q) ==
    /\ qreq[v].at = "new"
    /\ \/ UNCHANGED question                                \* 422
       \/ /\ question[q] = NoRow
          /\ question' = [question EXCEPT ![q] = NewQuestion("pending")]
    /\ Leave(v)
    /\ UNCHANGED <<tip, upvotes, served, raced, goneVoters, orphaned>>

Moderate(v, q, status) ==
    /\ qreq[v].at = "new"
    /\ question[q] # NoRow
    /\ question' = [question EXCEPT ![q].status = status]
    /\ Leave(v)
    /\ UNCHANGED <<tip, upvotes, served, raced, goneVoters, orphaned>>

(* What list_questions and list_pending_questions show, and list_my_contributions. *)
Listed == {q \in Questions : question[q] # NoRow}
Pending == {q \in Listed : question[q].status = "pending"}

-------------------------------------------------------------------------------
(* submit_company_intel, approved at once; upvote_intel, as often as a user likes. *)

SubmitTip(v, t) ==
    /\ qreq[v].at = "new"
    /\ \/ UNCHANGED tip                                     \* 422
       \/ tip[t] = NoRow /\ tip' = [tip EXCEPT ![t] = [votes |-> 0]]
    /\ Leave(v)
    /\ UNCHANGED <<question, upvotes, served, raced, goneVoters, orphaned>>

UpvoteTip(v, t) ==
    /\ qreq[v].at = "new"
    /\ IF tip[t] = NoRow
       THEN Leave(v) /\ UNCHANGED raced
       ELSE Hold(v, "tip", t, NoRow, tip[t])
    /\ UNCHANGED <<question, tip, upvotes, served, goneVoters, orphaned>>

CommitTip(v) ==
    LET t == qreq[v].row IN
    /\ qreq[v].does = "tip"
    /\ tip' = [tip EXCEPT ![t].votes = qreq[v].copy.votes + 1]
    /\ served' = [served EXCEPT ![t] = @ + 1]
    /\ Leave(v)
    /\ UNCHANGED <<question, upvotes, raced, goneVoters, orphaned>>

(* list_company_intel: the tips, most upvotes first. *)
TipBefore(s, t) == tip[s].votes >= tip[t].votes

-------------------------------------------------------------------------------
BankNext ==
    \/ \E u \in Voters : VoterLeaves(u)
    \/ \E v \in Visitors :
       \/ \E skills \in SUBSET UNION {SkillsTested[q] : q \in Questions},
             type \in {TypeOf[q] : q \in Questions},
             company \in {CompanyOf[q] : q \in Questions} : NextQuestion(v, skills, type, company)
       \/ \E q \in Questions, u \in Voters \ goneVoters : UpvoteQuestion(v, q, u)
       \/ \E q \in Offered : Contribute(v, q)
       \/ \E q \in Questions, s \in {"approved", "rejected"} : Moderate(v, q, s)
       \/ \E t \in Tips : SubmitTip(v, t) \/ UpvoteTip(v, t)
       \/ CommitNext(v) \/ CommitVote(v) \/ CommitTip(v)

BankSpec == BankInit /\ [][BankNext]_bankVars

-------------------------------------------------------------------------------
(* Counters agree with what they count: upvotes with the rows of question_upvotes (one per
   user) and the votes of deleted accounts, times_used and a tip's upvotes with the requests
   that were answered.  Requests that overlap on a row may lose an increment, never add
   one. *)
CountersTrue ==
    /\ \A q \in Listed :
          LET votes == Cardinality({p \in upvotes : p[1] = q}) + orphaned[q] IN
           /\ question[q].votes <= votes /\ question[q].used <= served[q]
           /\ q \notin raced => question[q].votes = votes /\ question[q].used = served[q]
    /\ \A t \in Tips : tip[t] # NoRow =>
           /\ tip[t].votes <= served[t]
           /\ t \notin raced => tip[t].votes = served[t]
=============================================================================
