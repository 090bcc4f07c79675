--------------------------- MODULE SessionLifecycle ---------------------------
(***************************************************************************)
(* One user's interview sessions (api/v1/sessions.py): creation with the   *)
(* free first session, the end of a session by a request or by its voice   *)
(* pipeline, scoring, the cached PDF report (services/report/generator.py) *)
(* and deletion.  A request selects rows, awaits, and commits what it made *)
(* of them; a voice connection holds its copy of the session for its whole *)
(* life.  The pipeline and the scoring are VoicePipeline and Scoring; here *)
(* they only read and write the row.                                       *)
(***************************************************************************)
EXTENDS Naturals, FiniteSets

CONSTANTS Sessions,     \* ids
          SessionRequests, Sockets,
          MaxTurns,     \* bounds the turns of one connection
          Nil, Deleted

VARIABLES
    row,        \* session -> its row, Nil, or Deleted
    account,    \* the user: alive, byok_keys has "anthropic"
    platformKey,    \* settings.anthropic_api_key is set
    sreq,       \* the requests
    sock,       \* the voice connections
    score,      \* session -> the transcript its scores are of
    cached,     \* session -> the scores the cached report is of
    overlapped, \* history: two creations have overlapped
    rescored    \* history: sessions whose scores were replaced

sessionVars == <<row, account, platformKey, sreq, sock, score, cached, overlapped, rescored>>

(* What create_session may be asked for; start_negotiation adds "negotiation". *)
Types == {"diagnostic", "behavioral"}

(* A transcript: whose turns, and how many. *)
Transcripts == [by : Sockets \cup {Nil}, turns : 0..MaxTurns]
NoTurns == [by |-> Nil, turns |-> 0]

Row == [status : {"active", "completed", "abandoned"}, type : Types \cup {"negotiation"},
        paid : BOOLEAN, transcript : Transcripts]

(* The scores of a transcript; `alone` notes that no connection was open when it was read. *)
Scores == [of : Transcripts, alone : BOOLEAN]

ASSUME SessionAssumption ==
    /\ IsFiniteSet(Sessions) /\ MaxTurns \in Nat
    /\ Nil # Deleted
    /\ {Nil, Deleted} \cap (Sessions \cup Row \cup Scores) = {}

NewSession(type, paid) ==
    [status |-> "active", type |-> type, paid |-> paid, transcript |-> NoTurns]

Exists(s) == row[s] \notin {Nil, Deleted}
Existing == {s \in Sessions : Exists(s)}

Waiting == [kind |-> Nil, at |-> "new", session |-> Nil, saw |-> Nil, first |-> FALSE, paid |-> FALSE]
Apart == [at |-> "new", session |-> Nil, turns |-> 0, saved |-> NoTurns]

Answered(r) == sreq' = [sreq EXCEPT ![r] = [Waiting EXCEPT !.at = "end"]]
Keep(r, kind, s, saw) ==
    sreq' = [sreq EXCEPT ![r] = [Waiting EXCEPT !.kind = kind, !.at = "commit",
                                                !.session = s, !.saw = saw]]
Committing(r, kind) == sreq[r].kind = kind /\ sreq[r].at = "commit"

OpenOn(s) == {p \in Sockets : sock[p].at = "open" /\ sock[p].session = s}

SessionInit ==
    /\ \E s \in Sessions, first \in {Nil, NewSession("diagnostic", FALSE)} :
          row = [x \in Sessions |-> IF x = s THEN first ELSE Nil]
    /\ account \in [alive : {TRUE}, key : BOOLEAN]
    /\ platformKey \in BOOLEAN
    /\ sreq = [r \in SessionRequests |-> Waiting]
    /\ sock = [p \in Sockets |-> Apart]
    /\ score = [s \in Sessions |-> Nil]
    /\ cached = [s \in Sessions |-> Nil]
    /\ overlapped = FALSE
    /\ rescored = {}

-------------------------------------------------------------------------------
\* mutant: sessions that have ended do not count
SessionCount_Active == Cardinality({s \in Existing : row[s].status = "active"})

(* The sessions of the user that exist now. *)
SessionCount == Cardinality(Existing)

(* create_session.  get_current_user has loaded the keys; then the count; past the first
   session, 402 without a key of one's own or the platform's. *)

CountSessions(r) ==
    LET count == SessionCount
        paid == account.key \/ platformKey
    IN /\ sreq[r].at = "new" /\ account.alive
       /\ IF count >= 1 /\ ~paid
          THEN Answered(r)
          ELSE sreq' = [sreq EXCEPT ![r] = [Waiting EXCEPT !.kind = "create", !.at = "commit",
                                                !.first = (count = 0), !.paid = paid]]
       /\ overlapped' = (overlapped \/ \E o \in SessionRequests : Committing(o, "create"))
       /\ UNCHANGED <<row, account, platformKey, sock, score, cached, rescored>>

(* The first session is a diagnostic one whatever the user chose. *)
InsertSession(r) ==
    /\ Committing(r, "create")
    /\ IF account.alive
       THEN \E s \in {x \in Sessions : row[x] = Nil}, type \in Types :
               row' = [row EXCEPT ![s] =
                   NewSession(IF sreq[r].first THEN "diagnostic" ELSE type, sreq[r].paid)]
       ELSE UNCHANGED row              \* the foreign key
    /\ Answered(r)
    /\ UNCHANGED <<account, platformKey, sock, score, cached, overlapped, rescored>>

(* start_negotiation (api/v1/negotiation.py) asks neither for the count nor for a key. *)
StartNegotiation(r) ==
    /\ sreq[r].at = "new" /\ account.alive
    /\ \E s \in {x \in Sessions : row[x] = Nil} :
          row' = [row EXCEPT ![s] = NewSession("negotiation", account.key \/ platformKey)]
    /\ Answered(r)
    /\ UNCHANGED <<account, platformKey, sock, score, cached, overlapped, rescored>>

-------------------------------------------------------------------------------
(* end_session (409 unless active), delete_session (409 if active): _get_owned_session, then
   the commit.  The UPDATE of a row that is gone fails; a DELETE of it does nothing. *)

\* mutant: the status is not checked
SelectSession_AnyStatus(r, kind, s) ==
    /\ sreq[r].at = "new" /\ account.alive
    /\ kind \in {"completed", "abandoned", "delete"}
    /\ IF Exists(s) THEN Keep(r, kind, s, Nil) ELSE Answered(r)
    /\ UNCHANGED <<row, account, platformKey, sock, score, cached, overlapped, rescored>>

SelectSession(r, kind, s) ==
    /\ sreq[r].at = "new" /\ account.alive
    /\ kind \in {"completed", "abandoned", "delete"}
    /\ IF Exists(s) /\ (row[s].status = "active" <=> kind # "delete")
       THEN Keep(r, kind, s, Nil)
       ELSE Answered(r)
    /\ UNCHANGED <<row, account, platformKey, sock, score, cached, overlapped, rescored>>

EndSession(r) ==
    LET s == sreq[r].session IN
    /\ \E status \in {"completed", "abandoned"} :
          /\ Committing(r, status)
          /\ row' = IF Exists(s) THEN [row EXCEPT ![s].status = status] ELSE row
    /\ Answered(r)
    /\ UNCHANGED <<account, platformKey, sock, score, cached, overlapped, rescored>>

RemoveSession(r) ==
    LET s == sreq[r].session IN
    /\ Committing(r, "delete")
    /\ row' = [row EXCEPT ![s] = Deleted]
    /\ score' = [score EXCEPT ![s] = Nil]
    /\ Answered(r)
    /\ UNCHANGED <<account, platformKey, sock, cached, overlapped, rescored>>

-------------------------------------------------------------------------------
(* voice_websocket: the session must be active when the connection loads it; the pipeline
   then starts with an empty conversation, whatever the transcript was. *)

\* mutant: a session that has ended may be talked to
Connect_AnyStatus(p, s) ==
    /\ sock[p].at = "new"
    /\ IF account.alive /\ Exists(s)
       THEN sock' = [sock EXCEPT ![p] = [at |-> "open", session |-> s, turns |-> 0,
                                         saved |-> row[s].transcript]]
       ELSE sock' = [sock EXCEPT ![p].at = "closed"]
    /\ UNCHANGED <<row, account, platformKey, sreq, score, cached, overlapped, rescored>>

Connect(p, s) ==
    /\ sock[p].at = "new"
    /\ IF account.alive /\ Exists(s) /\ row[s].status = "active"
       THEN sock' = [sock EXCEPT ![p] = [at |-> "open", session |-> s, turns |-> 0,
                                         saved |-> row[s].transcript]]
       ELSE sock' = [sock EXCEPT ![p].at = "closed"]
    /\ UNCHANGED <<row, account, platformKey, sreq, score, cached, overlapped, rescored>>

Closed(p) == [Apart EXCEPT !.at = "closed"]

(* A turn ends: the conversation replaces the transcript (_save_transcript_turn).  Without
   the row the UPDATE fails, and the pipeline with it. *)
SaveTurn(p) ==
    LET s == sock[p].session
        now == [by |-> p, turns |-> sock[p].turns + 1]
    IN /\ sock[p].at = "open" /\ sock[p].turns < MaxTurns
       /\ IF Exists(s)
          THEN /\ row' = [row EXCEPT ![s].transcript = now]
               /\ sock' = [sock EXCEPT ![p].turns = @ + 1, ![p].saved = now]
          ELSE sock' = [sock EXCEPT ![p] = Closed(p)] /\ UNCHANGED row
       /\ UNCHANGED <<account, platformKey, sreq, score, cached, overlapped, rescored>>

(* _finalize_session writes status and, where it differs from what this connection saved
   last, the transcript - also over what a request or another connection wrote. *)
Finalize(p) ==
    LET s == sock[p].session
        now == [by |-> p, turns |-> sock[p].turns]
    IN /\ sock[p].at = "open"
       /\ row' = IF ~Exists(s) THEN row
                 ELSE [row EXCEPT ![s].status = "completed",
                           ![s].transcript = IF now = sock[p].saved THEN @ ELSE now]
       /\ sock' = [sock EXCEPT ![p] = Closed(p)]
       /\ UNCHANGED <<account, platformKey, sreq, score, cached, overlapped, rescored>>

(* The connection is cancelled, its commit fails or the process dies before that. *)
Break(p) ==
    /\ sock[p].at = "open"
    /\ sock' = [sock EXCEPT ![p] = Closed(p)]
    /\ UNCHANGED <<row, account, platformKey, sreq, score, cached, overlapped, rescored>>

-------------------------------------------------------------------------------
(* scoring: 409 while active, 422 without turns. *)
ReadTranscript(r, s) ==
    /\ sreq[r].at = "new" /\ account.alive
    /\ IF Exists(s) /\ row[s].status # "active" /\ row[s].transcript.turns > 0
       THEN Keep(r, "score", s, [of |-> row[s].transcript, alone |-> OpenOn(s) = {}])
       ELSE Answered(r)
    /\ UNCHANGED <<row, account, platformKey, sock, score, cached, overlapped, rescored>>

SaveScores(r) ==
    LET s == sreq[r].session IN
    /\ Committing(r, "score")
    /\ IF Exists(s)
       THEN /\ score' = [score EXCEPT ![s] = sreq[r].saw]
            /\ rescored' = IF score[s] = Nil THEN rescored ELSE rescored \cup {s}
       ELSE UNCHANGED <<score, rescored>>
    /\ Answered(r)
    /\ UNCHANGED <<row, account, platformKey, sock, cached, overlapped>>

-------------------------------------------------------------------------------
(* get_session_report, generate_session_pdf: 503 without the platform key; the cache is
   asked before the session; 422 unless completed and scored. *)
AskReport(r, s) ==
    /\ sreq[r].at = "new" /\ account.alive
    /\ \/ Answered(r)                       \* no key, or the file is cached, or the LLM fails
       \/ /\ platformKey
          /\ Exists(s) /\ row[s].status = "completed" /\ score[s] # Nil
          /\ Keep(r, "report", s, score[s])
    /\ UNCHANGED <<row, account, platformKey, sock, score, cached, overlapped, rescored>>

\* mutant: the key of the cache names no session
CacheReport_OneKey(r) ==
    /\ Committing(r, "report")
    /\ \/ UNCHANGED cached
       \/ Exists(sreq[r].session) /\ cached' = [s \in Sessions |-> sreq[r].saw]
    /\ Answered(r)
    /\ UNCHANGED <<row, account, platformKey, sock, score, overlapped, rescored>>

(* The usage row needs the session and the user; then the cache, unless Redis fails. *)
CacheReport(r) ==
    LET s == sreq[r].session IN
    /\ Committing(r, "report")
    /\ \/ UNCHANGED cached
       \/ Exists(s) /\ cached' = [cached EXCEPT ![s] = sreq[r].saw]
    /\ Answered(r)
    /\ UNCHANGED <<row, account, platformKey, sock, score, overlapped, rescored>>

CacheExpires(s) ==
    /\ cached[s] # Nil
    /\ cached' = [cached EXCEPT ![s] = Nil]
    /\ UNCHANGED <<row, account, platformKey, sreq, sock, score, overlapped, rescored>>

-------------------------------------------------------------------------------
(* The user's settings: the own key comes and goes, the account goes. *)
ChangeKey ==
    /\ account.alive
    /\ account' = [account EXCEPT !.key = ~@]
    /\ UNCHANGED <<row, platformKey, sreq, sock, score, cached, overlapped, rescored>>

DeleteAccount ==
    /\ account.alive
    /\ account' = [account EXCEPT !.alive = FALSE]
    /\ row' = [s \in Sessions |-> IF Exists(s) THEN Deleted ELSE row[s]]
    /\ score' = [s \in Sessions |-> Nil]
    /\ UNCHANGED <<platformKey, sreq, sock, cached, overlapped, rescored>>

-------------------------------------------------------------------------------
SessionNext ==
    \/ \E r \in SessionRequests :
          \/ CountSessions(r) \/ InsertSession(r) \/ StartNegotiation(r)
          \/ EndSession(r) \/ RemoveSession(r)
          \/ SaveScores(r) \/ CacheReport(r)
          \/ \E s \in Sessions :
                \/ \E kind \in {"completed", "abandoned", "delete"} : SelectSession(r, kind, s)
                \/ ReadTranscript(r, s) \/ AskReport(r, s)
    \/ \E p \in Sockets :
          \/ \E s \in Sessions : Connect(p, s)
          \/ SaveTurn(p) \/ Finalize(p) \/ Break(p)
    \/ \E s \in Sessions : CacheExpires(s)
    \/ ChangeKey \/ DeleteAccount

SessionSpec == SessionInit /\ [][SessionNext]_sessionVars

-------------------------------------------------------------------------------
(* The promise, seen in a state of this module: the stage of a row, the connections open on
   it, and its transcript. *)
StageOf(s) == CASE row[s] = Nil -> "none"
                [] row[s] = Deleted -> "gone"
                [] OTHER -> IF row[s].status = "active" THEN "active" ELSE "ended"

TextOf(s) == IF Exists(s) THEN row[s].transcript ELSE NoTurns

Promise == INSTANCE SessionPromise WITH
    Texts <- Transcripts,
    Blank <- NoTurns,
    stage <- [s \in Sessions |-> StageOf(s)],
    joined <- [s \in Sessions |-> OpenOn(s)],
    text <- [s \in Sessions |-> TextOf(s)]

(* The sessions keep the promise, though every request and connection acts on what it read:
   a session is active once, deleted only after its end, and for good, and without an
   open connection its transcript stands. *)
PromiseKept == Promise!PromiseSpec

(* "First session is free ... From session 2 onwards the user must supply their own Anthropic
   key": of the sessions create_session made at most one was made without a key, a diagnostic
   one, unless two creations overlapped - whatever keys and sessions came and went, and
   though negotiations start without that gate. *)
FreeSessionOnce ==
    LET free == {s \in Existing : ~row[s].paid /\ row[s].type # "negotiation"} IN
    /\ ~overlapped => Cardinality(free) <= 1
    /\ \A s \in free : row[s].type = "diagnostic"

(* Scores are of the whole transcript: what was scored when no connection was open is what
   the session will always show.  (With one open, finalisation may still add a turn.) *)
ScoresCoverTranscript ==
    \A s \in Existing : score[s] # Nil /\ score[s].alone => score[s].of = row[s].transcript

(* A cached report shows the scores the session has, unless it has been scored again. *)
ReportsTrue ==
    \A s \in Existing \ rescored :
        cached[s] # Nil => cached[s] = score[s] /\ row[s].status # "active"
=============================================================================
