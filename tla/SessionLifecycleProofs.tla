------------------------- MODULE SessionLifecycleProofs -------------------------
(***************************************************************************)
(* Proofs about SessionLifecycle, for any number of sessions, requests and *)
(* connections:                                                            *)
(*   - it implements SessionPromise;                                       *)
(*   - one free session, scores of the whole transcript, true reports.     *)
(*                                                                         *)
(* The idea: a request acts on what it read, but all it relies on stays    *)
(* true once it is: a row that exists never becomes Nil again, and one     *)
(* that has ended never becomes active (Standing).                         *)
(***************************************************************************)
EXTENDS SessionLifecycle, FiniteSetTheorems, TLAPS

Kinds == {"create", "completed", "abandoned", "delete", "score", "report"}

RequestRecord ==
    [kind : Kinds \cup {Nil}, at : {"new", "commit", "end"}, session : Sessions \cup {Nil},
     saw : Scores \cup {Nil}, first : BOOLEAN, paid : BOOLEAN]

(* A request about to commit has loaded its session, and a report its scores. *)
RequestState ==
    {q \in RequestRecord :
        q.at = "commit" /\ q.kind # "create" =>
            /\ q.session \in Sessions
            /\ q.kind \in {"score", "report"} => q.saw \in Scores}

SocketRecord ==
    [at : {"new", "open", "closed"}, session : Sessions \cup {Nil}, turns : 0..MaxTurns,
     saved : Transcripts]

SocketState == {c \in SocketRecord : c.at = "open" => c.session \in Sessions}

Rows == [Sessions -> Row \cup {Nil, Deleted}]

TypeOK ==
    /\ row \in Rows
    /\ account \in [alive : BOOLEAN, key : BOOLEAN]
    /\ platformKey \in BOOLEAN
    /\ sreq \in [SessionRequests -> RequestState]
    /\ sock \in [Sockets -> SocketState]
    /\ score \in [Sessions -> Scores \cup {Nil}]
    /\ cached \in [Sessions -> Scores \cup {Nil}]
    /\ overlapped \in BOOLEAN
    /\ rescored \subseteq Sessions

Ended(s) == row[s].status # "active"

(* r has loaded session s and is about to commit. *)
Loaded(r, s) == sreq[r].at = "commit" /\ sreq[r].kind # "create" /\ sreq[r].session = s

(* What a request read still holds at its commit, as far as the row still exists; a connection
   and a score are of a session that was created. *)
Standing ==
    /\ \A r \in SessionRequests, s \in Sessions :
          Loaded(r, s) =>
              /\ row[s] # Nil
              /\ sreq[r].kind \in {"delete", "score", "report"} /\ Exists(s) => Ended(s)
    /\ \A p \in Sockets, s \in Sessions :
          sock[p].at = "open" /\ sock[p].session = s => row[s] # Nil
    /\ \A s \in Sessions : score[s] # Nil => row[s] # Nil /\ (Exists(s) => Ended(s))

-------------------------------------------------------------------------------
(* Type correctness, and what each action does to rows, requests and connections *)

LEMMA Constants ==
    /\ NoTurns \in Transcripts
    /\ Waiting \in RequestState /\ Apart \in SocketState
    /\ \A p \in Sockets, n \in 0..MaxTurns : [by |-> p, turns |-> n] \in Transcripts
    /\ \A t \in Types \cup {"negotiation"}, b \in BOOLEAN : NewSession(t, b) \in Row
    /\ Nil \notin Row /\ Deleted \notin Row /\ Nil # Deleted /\ Nil \notin Scores
    /\ Nil \notin Sessions
<1>1. NoTurns \in Transcripts
  BY SessionAssumption DEF NoTurns, Transcripts
<1>2. Waiting \in RequestState
  BY DEF Waiting, RequestState, RequestRecord
<1>3. Apart \in SocketState
  BY <1>1, SessionAssumption DEF Apart, SocketState, SocketRecord
<1>4. \A p \in Sockets, n \in 0..MaxTurns : [by |-> p, turns |-> n] \in Transcripts
  BY DEF Transcripts
<1>5. \A t \in Types \cup {"negotiation"}, b \in BOOLEAN : NewSession(t, b) \in Row
  BY <1>1 DEF NewSession, Row
<1> QED
  BY <1>1, <1>2, <1>3, <1>4, <1>5, SessionAssumption

LEMMA Existence ==
    ASSUME TypeOK, NEW s \in Sessions
    PROVE  /\ Exists(s) <=> row[s] \in Row
           /\ ~Exists(s) <=> row[s] = Nil \/ row[s] = Deleted
           /\ Exists(s) => row[s].transcript \in Transcripts
  BY Constants DEF TypeOK, Rows, Exists, Row

LEMMA ExistenceNext ==
    ASSUME TypeOK', NEW s \in Sessions
    PROVE  /\ Exists(s)' <=> row'[s] \in Row
           /\ ~Exists(s)' <=> row'[s] = Nil \/ row'[s] = Deleted
           /\ Exists(s)' => row'[s].transcript \in Transcripts
  BY Constants DEF TypeOK, Rows, Exists, Row

\* An answer ends the request.
LEMMA AnsweredType ==
    ASSUME TypeOK, NEW r \in SessionRequests, Answered(r)
    PROVE  /\ sreq' \in [SessionRequests -> RequestState]
           /\ sreq'[r].at = "end"
           /\ \A q \in SessionRequests \ {r} : sreq'[q] = sreq[q]
<1> DEFINE done == [Waiting EXCEPT !.at = "end"]
<1>1. done \in RequestState /\ done.at = "end"
  BY Constants DEF RequestState, RequestRecord, Waiting
<1>2. sreq' = [sreq EXCEPT ![r] = done]
  BY DEF Answered
<1> HIDE DEF done
<1> QED
  BY <1>1, <1>2 DEF TypeOK

\* A request that loaded a session holds it for its commit.
LEMMA KeepType ==
    ASSUME TypeOK, NEW r \in SessionRequests, NEW kind \in Kinds \ {"create"},
           NEW s \in Sessions, NEW saw \in Scores \cup {Nil},
           kind \in {"score", "report"} => saw \in Scores,
           Keep(r, kind, s, saw)
    PROVE  /\ sreq' \in [SessionRequests -> RequestState]
           /\ sreq'[r].at = "commit" /\ sreq'[r].kind = kind
           /\ sreq'[r].session = s /\ sreq'[r].saw = saw
           /\ \A q \in SessionRequests \ {r} : sreq'[q] = sreq[q]
<1> DEFINE held == [Waiting EXCEPT !.kind = kind, !.at = "commit", !.session = s, !.saw = saw]
<1>1. /\ held \in RequestState
      /\ held.at = "commit" /\ held.kind = kind /\ held.session = s /\ held.saw = saw
  BY Constants DEF RequestState, RequestRecord, Waiting
<1>2. sreq' = [sreq EXCEPT ![r] = held]
  BY DEF Keep
<1> HIDE DEF held
<1> QED
  BY <1>1, <1>2 DEF TypeOK

\* What a committing request holds.
LEMMA CommittingType ==
    ASSUME TypeOK, NEW r \in SessionRequests, NEW kind \in Kinds \ {"create"},
           Committing(r, kind)
    PROVE  /\ sreq[r].session \in Sessions
           /\ kind \in {"score", "report"} => sreq[r].saw \in Scores
  BY DEF TypeOK, RequestState, Committing

\* An open connection.
LEMMA OpenType ==
    ASSUME TypeOK, NEW p \in Sockets, sock[p].at = "open"
    PROVE  sock[p].session \in Sessions /\ sock[p].turns \in 0..MaxTurns
           /\ sock[p].saved \in Transcripts
  BY DEF TypeOK, SocketState, SocketRecord

LEMMA ClosedType == \A p \in Sockets : Closed(p) \in SocketState /\ Closed(p).at = "closed"
  BY Constants DEF Closed, Apart, SocketState, SocketRecord

LEMMA InitType == SessionInit => TypeOK
<1> SUFFICES ASSUME SessionInit PROVE TypeOK
  OBVIOUS
<1>1. row \in Rows
  <2>1. NewSession("diagnostic", FALSE) \in Row
    BY Constants DEF Types
  <2> QED
    BY <2>1 DEF SessionInit, Rows
<1>2. account \in [alive : BOOLEAN, key : BOOLEAN]
  BY DEF SessionInit
<1> QED
  BY <1>1, <1>2, Constants DEF SessionInit, TypeOK

\* The count is loaded: an answer, or a creation that without a key is the first.
LEMMA CountSessionsStep ==
    ASSUME TypeOK, NEW r \in SessionRequests, CountSessions(r)
    PROVE  /\ TypeOK'
           /\ \A q \in SessionRequests \ {r} : sreq'[q] = sreq[q]
           /\ \/ sreq'[r].at = "end"
              \/ /\ sreq'[r].at = "commit" /\ sreq'[r].kind = "create"
                 /\ ~sreq'[r].paid => sreq'[r].first /\ Existing = {}
<1> DEFINE paid == account.key \/ platformKey
           held == [Waiting EXCEPT !.kind = "create", !.at = "commit",
                                   !.first = (SessionCount = 0), !.paid = paid]
<1>1. paid \in BOOLEAN /\ (SessionCount = 0) \in BOOLEAN
  OBVIOUS
<1> HIDE DEF paid
<1>2. /\ held \in RequestState
      /\ held.at = "commit" /\ held.kind = "create"
      /\ held.paid = paid /\ held.first = (SessionCount = 0)
  BY <1>1, Constants DEF RequestState, RequestRecord, Waiting, Kinds
<1> HIDE DEF held
<1>3. \/ Answered(r)
      \/ /\ sreq' = [sreq EXCEPT ![r] = held]
         /\ ~(SessionCount >= 1 /\ ~paid)
  BY DEF CountSessions, held, paid
<1>4. SessionCount \in Nat /\ (SessionCount = 0 => Existing = {})
  <2>1. IsFiniteSet(Existing)
    BY SessionAssumption, FS_Subset DEF Existing
  <2> QED
    BY <2>1, FS_CardinalityType, FS_EmptySet DEF SessionCount
<1>5. sreq' \in [SessionRequests -> RequestState]
  BY <1>2, <1>3, AnsweredType DEF TypeOK
<1>6. overlapped' \in BOOLEAN
  BY DEF CountSessions
<1>7. TypeOK'
  BY <1>5, <1>6 DEF TypeOK, CountSessions
<1>8. CASE Answered(r)
  BY <1>7, <1>8, AnsweredType
<1>9. CASE sreq' = [sreq EXCEPT ![r] = held] /\ ~(SessionCount >= 1 /\ ~paid)
  <2>1. sreq'[r] = held /\ \A q \in SessionRequests \ {r} : sreq'[q] = sreq[q]
    BY <1>9 DEF TypeOK
  <2>2. ~paid => SessionCount = 0
    BY <1>4, <1>9
  <2> QED
    BY <1>2, <1>4, <1>7, <2>1, <2>2
<1> QED
  BY <1>3, <1>8, <1>9

\* A session is inserted, active, without a transcript.
Inserted(s, new) ==
    /\ row[s] = Nil /\ row' = [row EXCEPT ![s] = new]
    /\ new \in Row /\ new.status = "active" /\ new.transcript = NoTurns

LEMMA InsertSessionStep ==
    ASSUME TypeOK, NEW r \in SessionRequests, InsertSession(r)
    PROVE  /\ TypeOK'
           /\ \/ UNCHANGED row
              \/ \E s \in Sessions, new \in Row :
                    /\ Inserted(s, new) /\ new.paid = sreq[r].paid
                    /\ sreq[r].first => new.type = "diagnostic"
<1> DEFINE new(type) == NewSession(IF sreq[r].first THEN "diagnostic" ELSE type, sreq[r].paid)
<1>1. sreq[r].paid \in BOOLEAN
  BY DEF TypeOK, RequestState, RequestRecord
<1>2. \A type \in Types :
         /\ new(type) \in Row /\ new(type).status = "active" /\ new(type).transcript = NoTurns
         /\ new(type).paid = sreq[r].paid
         /\ sreq[r].first => new(type).type = "diagnostic"
  <2> TAKE type \in Types
  <2>1. (IF sreq[r].first THEN "diagnostic" ELSE type) \in Types
    BY DEF Types
  <2>2. new(type) \in Row
    BY <1>1, <2>1, Constants
  <2> QED
    BY <2>2 DEF NewSession
<1> HIDE DEF new
<1>3. \/ UNCHANGED row
      \/ \E s \in {x \in Sessions : row[x] = Nil}, type \in Types :
            row' = [row EXCEPT ![s] = new(type)]
  BY DEF InsertSession, new
<1>4. row' \in Rows
  BY <1>2, <1>3 DEF TypeOK, Rows
<1>5. sreq' \in [SessionRequests -> RequestState]
  BY AnsweredType DEF InsertSession
<1>6. TypeOK'
  BY <1>4, <1>5 DEF TypeOK, InsertSession
<1>7. \/ UNCHANGED row
      \/ \E s \in Sessions, n \in Row :
            /\ Inserted(s, n) /\ n.paid = sreq[r].paid
            /\ sreq[r].first => n.type = "diagnostic"
  BY <1>2, <1>3 DEF Inserted
<1> QED
  BY <1>6, <1>7

LEMMA StartNegotiationStep ==
    ASSUME TypeOK, NEW r \in SessionRequests, StartNegotiation(r)
    PROVE  /\ TypeOK'
           /\ \E s \in Sessions, new \in Row : Inserted(s, new) /\ new.type = "negotiation"
<1> DEFINE new == NewSession("negotiation", account.key \/ platformKey)
<1>1. (account.key \/ platformKey) \in BOOLEAN
  OBVIOUS
<1>2. new \in Row
  BY <1>1, Constants
<1>3. new.status = "active" /\ new.transcript = NoTurns /\ new.type = "negotiation"
  BY DEF NewSession
<1> HIDE DEF new
<1>4. PICK s \in {x \in Sessions : row[x] = Nil} : row' = [row EXCEPT ![s] = new]
  BY DEF StartNegotiation, new
<1>5. row' \in Rows
  BY <1>2, <1>4 DEF TypeOK, Rows
<1>6. sreq' \in [SessionRequests -> RequestState]
  BY AnsweredType DEF StartNegotiation
<1>7. TypeOK'
  BY <1>5, <1>6 DEF TypeOK, StartNegotiation
<1> QED
  BY <1>2, <1>3, <1>4, <1>7 DEF Inserted

\* A request holds a session that exists.
LEMMA SelectSessionStep ==
    ASSUME TypeOK, NEW r \in SessionRequests, NEW kind, NEW s \in Sessions,
           SelectSession(r, kind, s)
    PROVE  /\ TypeOK'
           /\ \A q \in SessionRequests \ {r} : sreq'[q] = sreq[q]
           /\ \/ sreq'[r].at = "end"
              \/ /\ sreq'[r].at = "commit" /\ sreq'[r].kind = kind /\ sreq'[r].session = s
                 /\ kind \in {"completed", "abandoned", "delete"}
                 /\ Exists(s) /\ (kind = "delete" => Ended(s))
<1>1. kind \in Kinds \ {"create"} /\ kind \notin {"score", "report"}
  BY DEF SelectSession, Kinds
<1>2. \/ Answered(r)
      \/ Keep(r, kind, s, Nil) /\ Exists(s) /\ (kind = "delete" => Ended(s))
  BY DEF SelectSession, Ended
<1>3. CASE Answered(r)
  BY <1>3, AnsweredType DEF TypeOK, SelectSession
<1>4. CASE Keep(r, kind, s, Nil) /\ Exists(s) /\ (kind = "delete" => Ended(s))
  <2>1. /\ sreq' \in [SessionRequests -> RequestState]
        /\ sreq'[r].at = "commit" /\ sreq'[r].kind = kind /\ sreq'[r].session = s
        /\ \A q \in SessionRequests \ {r} : sreq'[q] = sreq[q]
    BY <1>1, <1>4, KeepType
  <2>2. TypeOK'
    BY <2>1 DEF TypeOK, SelectSession
  <2> QED
    BY <1>4, <2>1, <2>2 DEF SelectSession
<1> QED
  BY <1>2, <1>3, <1>4

\* The status of a row that still exists is written.
LEMMA EndSessionStep ==
    ASSUME TypeOK, NEW r \in SessionRequests, EndSession(r)
    PROVE  /\ TypeOK'
           /\ sreq[r].session \in Sessions
           /\ \/ UNCHANGED row
              \/ LET s == sreq[r].session IN
                 /\ Exists(s) /\ row'[s] \in Row
                 /\ row'[s].status # "active" /\ row'[s].transcript = row[s].transcript
                 /\ row'[s].type = row[s].type /\ row'[s].paid = row[s].paid
                 /\ row' = [row EXCEPT ![s] = row'[s]]
<1> DEFINE s == sreq[r].session
<1>1. PICK status \in {"completed", "abandoned"} :
         /\ Committing(r, status)
         /\ row' = IF Exists(s) THEN [row EXCEPT ![s].status = status] ELSE row
  BY DEF EndSession
<1>2. s \in Sessions
  BY <1>1, CommittingType DEF Kinds
<1>3. sreq' \in [SessionRequests -> RequestState]
  BY AnsweredType DEF EndSession
<1> HIDE DEF s
<1>4. CASE ~Exists(s)
  <2>1. UNCHANGED row
    BY <1>1, <1>4
  <2>2. TypeOK'
    BY <1>3, <2>1 DEF TypeOK, EndSession
  <2> QED
    BY <1>2, <2>1, <2>2 DEF s
<1>5. CASE Exists(s)
  <2> DEFINE new == [row[s] EXCEPT !.status = status]
  <2>1. row[s] \in Row
    BY <1>2, <1>5, Existence
  <2>2. /\ new \in Row /\ new.status # "active" /\ new.transcript = row[s].transcript
        /\ new.type = row[s].type /\ new.paid = row[s].paid
    BY <2>1 DEF Row
  <2>3. row' = [row EXCEPT ![s] = new]
    BY <1>1, <1>5
  <2> HIDE DEF new
  <2>4. row'[s] = new /\ row' \in Rows
    BY <1>2, <2>2, <2>3 DEF TypeOK, Rows
  <2>5. TypeOK'
    BY <1>3, <2>4 DEF TypeOK, EndSession
  <2> QED
    BY <1>2, <1>5, <2>2, <2>3, <2>4, <2>5 DEF s
<1> QED
  BY <1>4, <1>5

LEMMA RemoveSessionStep ==
    ASSUME TypeOK, NEW r \in SessionRequests, RemoveSession(r)
    PROVE  TypeOK' /\ sreq[r].session \in Sessions
<1>1. sreq' \in [SessionRequests -> RequestState]
  BY AnsweredType DEF RemoveSession
<1>2. sreq[r].session \in Sessions
  BY CommittingType DEF RemoveSession, Kinds
<1>3. row' \in Rows /\ score' \in [Sessions -> Scores \cup {Nil}]
  BY <1>2 DEF TypeOK, Rows, RemoveSession
<1> QED
  BY <1>1, <1>2, <1>3 DEF TypeOK, RemoveSession

\* A connection is refused, or opens on a session that is active.
LEMMA ConnectStep ==
    ASSUME TypeOK, NEW p \in Sockets, NEW s \in Sessions, Connect(p, s)
    PROVE  /\ TypeOK'
           /\ \A o \in Sockets \ {p} : sock'[o] = sock[o]
           /\ sock[p].at = "new"
           /\ \/ sock'[p].at = "closed"
              \/ /\ sock'[p].at = "open" /\ sock'[p].session = s
                 /\ Exists(s) /\ ~Ended(s)
<1> DEFINE open == [at |-> "open", session |-> s, turns |-> 0, saved |-> row[s].transcript]
           shut == [sock[p] EXCEPT !.at = "closed"]
<1>1. shut \in SocketState /\ shut.at = "closed"
  BY DEF TypeOK, SocketState, SocketRecord
<1>2. Exists(s) => open \in SocketState /\ open.at = "open" /\ open.session = s
  BY Existence, SessionAssumption DEF SocketState, SocketRecord
<1>3. \/ sock' = [sock EXCEPT ![p] = open] /\ Exists(s) /\ ~Ended(s)
      \/ sock' = [sock EXCEPT ![p] = shut]
  BY DEF Connect, Ended
<1> HIDE DEF open, shut
<1>4. sock' \in [Sockets -> SocketState] /\ \A o \in Sockets \ {p} : sock'[o] = sock[o]
  BY <1>1, <1>2, <1>3 DEF TypeOK
<1>5. sock'[p] = shut \/ (sock'[p] = open /\ Exists(s) /\ ~Ended(s))
  BY <1>3 DEF TypeOK
<1>6. TypeOK'
  BY <1>4 DEF TypeOK, Connect
<1> QED
  BY <1>1, <1>2, <1>4, <1>5, <1>6 DEF Connect

\* An open connection saves a turn, or finds no row and closes.
LEMMA SaveTurnStep ==
    ASSUME TypeOK, NEW p \in Sockets, SaveTurn(p)
    PROVE  /\ TypeOK'
           /\ sock[p].at = "open" /\ sock[p].session \in Sessions
           /\ \A o \in Sockets \ {p} : sock'[o] = sock[o]
           /\ LET s == sock[p].session IN
              \/ UNCHANGED row /\ sock'[p].at = "closed"
              \/ /\ Exists(s) /\ row'[s] \in Row
                 /\ row'[s].status = row[s].status
                 /\ row'[s].type = row[s].type /\ row'[s].paid = row[s].paid
                 /\ row' = [row EXCEPT ![s] = row'[s]]
                 /\ sock'[p].at = "open" /\ sock'[p].session = s
<1> DEFINE s == sock[p].session
           now == [by |-> p, turns |-> sock[p].turns + 1]
           talking == [sock[p] EXCEPT !.turns = @ + 1, !.saved = now]
           new == [row[s] EXCEPT !.transcript = now]
<1>1. sock[p].at = "open" /\ sock[p].turns < MaxTurns
  BY DEF SaveTurn
<1>2. s \in Sessions /\ sock[p].turns + 1 \in 0..MaxTurns
  BY <1>1, OpenType, SessionAssumption
<1>3. now \in Transcripts
  BY <1>2, Constants
<1>4. /\ talking \in SocketState /\ talking.at = "open" /\ talking.session = s
  BY <1>1, <1>2, <1>3 DEF TypeOK, SocketState, SocketRecord
<1>5. Exists(s) => /\ new \in Row /\ new.status = row[s].status
                   /\ new.type = row[s].type /\ new.paid = row[s].paid
  <2> HIDE DEF s, now
  <2> QED
    BY <1>2, <1>3, Existence DEF Row
<1>6. \/ /\ Exists(s)
         /\ row' = [row EXCEPT ![s] = new] /\ sock' = [sock EXCEPT ![p] = talking]
      \/ UNCHANGED row /\ sock' = [sock EXCEPT ![p] = Closed(p)]
  BY DEF SaveTurn
<1> HIDE DEF s, now, talking, new
<1>7. CASE Exists(s) /\ row' = [row EXCEPT ![s] = new] /\ sock' = [sock EXCEPT ![p] = talking]
  <2>1. row'[s] = new /\ row' \in Rows
    BY <1>2, <1>5, <1>7 DEF TypeOK, Rows
  <2>2. /\ sock' \in [Sockets -> SocketState] /\ sock'[p] = talking
        /\ \A o \in Sockets \ {p} : sock'[o] = sock[o]
    BY <1>4, <1>7 DEF TypeOK
  <2>3. TypeOK'
    BY <2>1, <2>2 DEF TypeOK, SaveTurn
  <2> QED
    BY <1>1, <1>2, <1>4, <1>5, <1>7, <2>1, <2>2, <2>3 DEF s
<1>8. CASE UNCHANGED row /\ sock' = [sock EXCEPT ![p] = Closed(p)]
  <2>1. /\ sock' \in [Sockets -> SocketState] /\ sock'[p].at = "closed"
        /\ \A o \in Sockets \ {p} : sock'[o] = sock[o]
    BY <1>8, ClosedType DEF TypeOK
  <2>2. TypeOK'
    BY <1>8, <2>1 DEF TypeOK, SaveTurn
  <2> QED
    BY <1>1, <1>2, <1>8, <2>1, <2>2 DEF s
<1> QED
  BY <1>6, <1>7, <1>8

\* An open connection closes, and what still exists of its session has ended.
LEMMA FinalizeStep ==
    ASSUME TypeOK, NEW p \in Sockets, Finalize(p)
    PROVE  /\ TypeOK'
           /\ sock[p].at = "open" /\ sock[p].session \in Sessions
           /\ \A o \in Sockets \ {p} : sock'[o] = sock[o]
           /\ sock'[p].at = "closed"
           /\ LET s == sock[p].session IN
              \/ UNCHANGED row
              \/ /\ Exists(s) /\ row'[s] \in Row
                 /\ row'[s].status # "active"
                 /\ row'[s].type = row[s].type /\ row'[s].paid = row[s].paid
                 /\ row' = [row EXCEPT ![s] = row'[s]]
<1> DEFINE s == sock[p].session
           now == [by |-> p, turns |-> sock[p].turns]
           text == IF now = sock[p].saved THEN row[s].transcript ELSE now
           new == [row[s] EXCEPT !.status = "completed", !.transcript = text]
<1>1. sock[p].at = "open"
  BY DEF Finalize
<1>2. s \in Sessions /\ now \in Transcripts
  BY <1>1, OpenType, Constants
<1>3. /\ sock' \in [Sockets -> SocketState] /\ sock'[p].at = "closed"
      /\ \A o \in Sockets \ {p} : sock'[o] = sock[o]
  BY ClosedType DEF TypeOK, Finalize
<1>4. CASE ~Exists(s)
  <2>1. UNCHANGED row
    BY <1>4 DEF Finalize
  <2>2. TypeOK'
    BY <1>3, <2>1 DEF TypeOK, Finalize
  <2> QED
    BY <1>1, <1>2, <1>3, <2>1, <2>2
<1>5. CASE Exists(s)
  <2>1. row[s] \in Row /\ text \in Transcripts
    BY <1>2, <1>5, Existence
  <2>2. row' = [row EXCEPT ![s] = new]
    <3>1. row' = [row EXCEPT ![s].status = "completed",
                      ![s].transcript = IF now = sock[p].saved THEN @ ELSE now]
      BY <1>5 DEF Finalize
    <3> HIDE DEF now
    <3> QED
      BY <1>2, <2>1, <3>1 DEF TypeOK, Rows, Row
  <2> HIDE DEF text
  <2>3. /\ new \in Row /\ new.status # "active"
        /\ new.type = row[s].type /\ new.paid = row[s].paid
    <3> HIDE DEF s
    <3> QED
      BY <2>1 DEF Row
  <2> HIDE DEF new, s
  <2>4. row'[s] = new /\ row' \in Rows
    BY <1>2, <2>2, <2>3 DEF TypeOK, Rows
  <2>5. TypeOK'
    BY <1>3, <2>4 DEF TypeOK, Finalize
  <2> QED
    BY <1>1, <1>2, <1>3, <1>5, <2>2, <2>3, <2>4, <2>5 DEF s
<1> QED
  BY <1>4, <1>5

LEMMA BreakStep ==
    ASSUME TypeOK, NEW p \in Sockets, Break(p)
    PROVE  /\ TypeOK'
           /\ sock[p].at = "open" /\ sock[p].session \in Sessions
           /\ \A o \in Sockets \ {p} : sock'[o] = sock[o]
           /\ sock'[p].at = "closed" /\ UNCHANGED row
<1>1. /\ sock' \in [Sockets -> SocketState] /\ sock'[p].at = "closed"
      /\ \A o \in Sockets \ {p} : sock'[o] = sock[o]
  BY ClosedType DEF TypeOK, Break
<1>2. sock[p].at = "open" /\ sock[p].session \in Sessions
  BY OpenType DEF Break
<1> QED
  BY <1>1, <1>2 DEF TypeOK, Break

\* A scoring reads the transcript of a session that has ended.
LEMMA ReadTranscriptStep ==
    ASSUME TypeOK, NEW r \in SessionRequests, NEW s \in Sessions, ReadTranscript(r, s)
    PROVE  /\ TypeOK'
           /\ \A q \in SessionRequests \ {r} : sreq'[q] = sreq[q]
           /\ \/ sreq'[r].at = "end"
              \/ /\ sreq'[r].at = "commit" /\ sreq'[r].kind = "score" /\ sreq'[r].session = s
                 /\ sreq'[r].saw = [of |-> row[s].transcript, alone |-> OpenOn(s) = {}]
                 /\ Exists(s) /\ Ended(s)
<1> DEFINE saw == [of |-> row[s].transcript, alone |-> OpenOn(s) = {}]
<1>1. \/ Answered(r)
      \/ Keep(r, "score", s, saw) /\ Exists(s) /\ Ended(s)
  BY DEF ReadTranscript, Ended
<1>2. CASE Answered(r)
  BY <1>2, AnsweredType DEF TypeOK, ReadTranscript
<1>3. CASE Keep(r, "score", s, saw) /\ Exists(s) /\ Ended(s)
  <2>1. saw \in Scores
    BY <1>3, Existence DEF Scores
  <2> HIDE DEF saw
  <2>2. /\ sreq' \in [SessionRequests -> RequestState]
        /\ sreq'[r].at = "commit" /\ sreq'[r].kind = "score" /\ sreq'[r].session = s
        /\ sreq'[r].saw = saw
        /\ \A q \in SessionRequests \ {r} : sreq'[q] = sreq[q]
    BY <1>3, <2>1, KeepType DEF Kinds
  <2>3. TypeOK'
    BY <2>2 DEF TypeOK, ReadTranscript
  <2> QED
    BY <1>3, <2>2, <2>3 DEF saw
<1> QED
  BY <1>1, <1>2, <1>3

LEMMA SaveScoresStep ==
    ASSUME TypeOK, NEW r \in SessionRequests, SaveScores(r)
    PROVE  TypeOK' /\ sreq[r].session \in Sessions /\ sreq[r].saw \in Scores
<1>1. sreq' \in [SessionRequests -> RequestState]
  BY AnsweredType DEF SaveScores
<1>2. sreq[r].session \in Sessions /\ sreq[r].saw \in Scores
  BY CommittingType DEF SaveScores, Kinds
<1>3. score' \in [Sessions -> Scores \cup {Nil}] /\ rescored' \subseteq Sessions
  BY <1>2 DEF TypeOK, SaveScores
<1> QED
  BY <1>1, <1>2, <1>3 DEF TypeOK, SaveScores

\* A report loads the scores of a session that has ended.
LEMMA AskReportStep ==
    ASSUME TypeOK, NEW r \in SessionRequests, NEW s \in Sessions, AskReport(r, s)
    PROVE  /\ TypeOK'
           /\ \A q \in SessionRequests \ {r} : sreq'[q] = sreq[q]
           /\ \/ sreq'[r].at = "end"
              \/ /\ sreq'[r].at = "commit" /\ sreq'[r].kind = "report" /\ sreq'[r].session = s
                 /\ sreq'[r].saw = score[s] /\ score[s] # Nil
                 /\ Exists(s) /\ Ended(s)
<1>1. \/ Answered(r)
      \/ Keep(r, "report", s, score[s]) /\ score[s] # Nil /\ Exists(s) /\ Ended(s)
  BY DEF AskReport, Ended
<1>2. CASE Answered(r)
  BY <1>2, AnsweredType DEF TypeOK, AskReport
<1>3. CASE Keep(r, "report", s, score[s]) /\ score[s] # Nil /\ Exists(s) /\ Ended(s)
  <2>1. score[s] \in Scores
    BY <1>3 DEF TypeOK
  <2>2. /\ sreq' \in [SessionRequests -> RequestState]
        /\ sreq'[r].at = "commit" /\ sreq'[r].kind = "report" /\ sreq'[r].session = s
        /\ sreq'[r].saw = score[s]
        /\ \A q \in SessionRequests \ {r} : sreq'[q] = sreq[q]
    BY <1>3, <2>1, KeepType DEF Kinds
  <2>3. TypeOK'
    BY <2>2 DEF TypeOK, AskReport
  <2> QED
    BY <1>3, <2>2, <2>3
<1> QED
  BY <1>1, <1>2, <1>3

LEMMA CacheReportStep ==
    ASSUME TypeOK, NEW r \in SessionRequests, CacheReport(r)
    PROVE  TypeOK' /\ sreq[r].session \in Sessions /\ sreq[r].saw \in Scores
<1>1. sreq' \in [SessionRequests -> RequestState]
  BY AnsweredType DEF CacheReport
<1>2. sreq[r].session \in Sessions /\ sreq[r].saw \in Scores
  BY CommittingType DEF CacheReport, Kinds
<1>3. cached' \in [Sessions -> Scores \cup {Nil}]
  BY <1>2 DEF TypeOK, CacheReport
<1> QED
  BY <1>1, <1>2, <1>3 DEF TypeOK, CacheReport

LEMMA SettingsStep ==
    ASSUME TypeOK, (\E s \in Sessions : CacheExpires(s)) \/ ChangeKey
    PROVE  TypeOK'
<1>1. CASE \E s \in Sessions : CacheExpires(s)
  BY <1>1 DEF TypeOK, CacheExpires
<1>2. CASE ChangeKey
  <2>1. account' \in [alive : BOOLEAN, key : BOOLEAN]
    BY <1>2 DEF TypeOK, ChangeKey
  <2> QED
    BY <1>2, <2>1 DEF TypeOK, ChangeKey
<1> QED
  BY <1>1, <1>2

LEMMA DeleteAccountStep ==
    ASSUME TypeOK, DeleteAccount
    PROVE  TypeOK'
<1>1. account' \in [alive : BOOLEAN, key : BOOLEAN]
  BY DEF TypeOK, DeleteAccount
<1>2. row' \in Rows
  BY DEF TypeOK, DeleteAccount, Rows
<1>3. score' \in [Sessions -> Scores \cup {Nil}]
  BY DEF TypeOK, DeleteAccount
<1> QED
  BY <1>1, <1>2, <1>3 DEF TypeOK, DeleteAccount

-------------------------------------------------------------------------------
(* What every step does, and the invariants that follow from it alone *)

(* A row that was created stays created; a session that has ended stays so; and an ended
   session that nobody is connected to keeps its transcript and stays so. *)
Forward ==
    \A s \in Sessions :
        /\ row[s] # Nil => row'[s] # Nil
        /\ row[s] # Nil /\ Exists(s)' => Exists(s) /\ (Ended(s) => Ended(s)')
        /\ Exists(s) /\ Exists(s)' /\ Ended(s) /\ OpenOn(s) = {} =>
              OpenOn(s)' = {} /\ row'[s].transcript = row[s].transcript

(* A score read when no connection was open is of the transcript the row has. *)
CoveredBy(read, s) ==
    Exists(s) /\ read.alone => OpenOn(s) = {} /\ read.of = row[s].transcript

(* r has just loaded a session. *)
Fresh(r) ==
    LET q == sreq'[r] IN
    \E s \in Sessions :
        /\ q.session = s /\ Exists(s)
        /\ q.kind \in {"delete", "score", "report"} => Ended(s)
        /\ q.kind = "score" => CoveredBy(q.saw, s)
        /\ q.kind = "report" => q.saw = score[s]

RequestsKept ==
    \A r \in SessionRequests :
        sreq'[r] = sreq[r] \/ sreq'[r].at # "commit" \/ sreq'[r].kind = "create" \/ Fresh(r)

SocketsKept ==
    \A p \in Sockets :
        \/ sock'[p] = sock[p] \/ sock'[p].at # "open"
        \/ \E s \in Sessions : sock'[p].session = s /\ row[s] # Nil
        \/ sock[p].at = "open" /\ sock'[p].session = sock[p].session

(* r, about to commit, has loaded s for this. *)
Saving(r, kind, s) == Committing(r, kind) /\ sreq[r].session = s

ScoresKept ==
    \A s \in Sessions :
        \/ score'[s] = score[s] \/ score'[s] = Nil
        \/ \E r \in SessionRequests : Saving(r, "score", s) /\ score'[s] = sreq[r].saw

ReportsKept ==
    \A s \in Sessions :
        /\ \/ cached'[s] = cached[s] \/ cached'[s] = Nil
           \/ \E r \in SessionRequests : Saving(r, "report", s) /\ cached'[s] = sreq[r].saw
        /\ score'[s] = score[s] \/ score[s] = Nil \/ ~Exists(s)' \/ s \in rescored'
        /\ s \in rescored => s \in rescored'

Step == Forward /\ RequestsKept /\ SocketsKept /\ ScoresKept /\ ReportsKept

Covered ==
    /\ \A s \in Sessions : score[s] # Nil => CoveredBy(score[s], s)
    /\ \A r \in SessionRequests, s \in Sessions :
          Saving(r, "score", s) => CoveredBy(sreq[r].saw, s)

Reported ==
    /\ \A s \in Sessions :
          cached[s] # Nil => /\ row[s] # Nil
                             /\ Exists(s) /\ s \notin rescored => cached[s] = score[s]
    /\ \A r \in SessionRequests, s \in Sessions :
          Saving(r, "report", s) /\ Exists(s) /\ s \notin rescored => sreq[r].saw = score[s]

LEMMA StandingKept ==
    ASSUME TypeOK, TypeOK', Step, Standing
    PROVE  Standing'
<1> USE DEF Step
<1>1. ASSUME NEW r \in SessionRequests, NEW s \in Sessions, Loaded(r, s)'
      PROVE  /\ row'[s] # Nil
             /\ sreq'[r].kind \in {"delete", "score", "report"} /\ Exists(s)' => Ended(s)'
  <2>1. sreq'[r].at = "commit" /\ sreq'[r].kind # "create" /\ sreq'[r].session = s
    BY <1>1 DEF Loaded
  <2>2. /\ row[s] # Nil
        /\ sreq'[r].kind \in {"delete", "score", "report"} /\ Exists(s) => Ended(s)
    <3>1. CASE sreq'[r] = sreq[r]
      BY <2>1, <3>1 DEF Standing, Loaded
    <3>2. CASE Fresh(r)
      BY <2>1, <3>2 DEF Fresh, Exists
    <3> QED
      BY <2>1, <3>1, <3>2 DEF RequestsKept
  <2> QED
    BY <2>2 DEF Forward
<1>2. ASSUME NEW p \in Sockets, NEW s \in Sessions, sock'[p].at = "open", sock'[p].session = s
      PROVE  row'[s] # Nil
  <2>1. row[s] # Nil
    BY <1>2 DEF SocketsKept, Standing
  <2> QED
    BY <2>1 DEF Forward
<1>3. ASSUME NEW s \in Sessions, score'[s] # Nil PROVE row'[s] # Nil /\ (Exists(s)' => Ended(s)')
  <2>1. row[s] # Nil /\ (Exists(s) => Ended(s))
    BY <1>3 DEF ScoresKept, Standing, Saving, Committing, Loaded
  <2> QED
    BY <2>1 DEF Forward
<1> QED
  BY <1>1, <1>2, <1>3 DEF Standing

\* What covers an ended session goes on covering it.
LEMMA CoveredByKept ==
    ASSUME TypeOK, TypeOK', Forward, NEW s \in Sessions, NEW read,
           row[s] # Nil, Exists(s) => Ended(s), CoveredBy(read, s),
           Exists(s)', read.alone
    PROVE  OpenOn(s)' = {} /\ read.of = row'[s].transcript
  BY DEF CoveredBy, Forward

LEMMA CoveredKept ==
    ASSUME TypeOK, TypeOK', Step, Standing, Covered
    PROVE  Covered'
<1> USE DEF Step
<1>1. ASSUME NEW s \in Sessions, score'[s] # Nil, Exists(s)', score'[s].alone
      PROVE  OpenOn(s)' = {} /\ score'[s].of = row'[s].transcript
  <2>1. row[s] # Nil /\ (Exists(s) => Ended(s)) /\ CoveredBy(score'[s], s)
    BY <1>1 DEF ScoresKept, Standing, Saving, Committing, Loaded, Covered
  <2> QED
    BY <1>1, <2>1, CoveredByKept
<1>2. ASSUME NEW r \in SessionRequests, NEW s \in Sessions, Saving(r, "score", s)',
             Exists(s)', sreq'[r].saw.alone
      PROVE  OpenOn(s)' = {} /\ sreq'[r].saw.of = row'[s].transcript
  <2>1. sreq'[r].at = "commit" /\ sreq'[r].kind = "score" /\ sreq'[r].session = s
    BY <1>2 DEF Committing, Saving
  <2>2. row[s] # Nil /\ (Exists(s) => Ended(s)) /\ CoveredBy(sreq'[r].saw, s)
    <3>1. CASE sreq'[r] = sreq[r]
      BY <2>1, <3>1 DEF Standing, Loaded, Saving, Committing, Covered
    <3>2. CASE Fresh(r)
      BY <2>1, <3>2 DEF Fresh, Exists
    <3> QED
      BY <2>1, <3>1, <3>2 DEF RequestsKept
  <2> QED
    BY <1>2, <2>2, CoveredByKept
<1> QED
  BY <1>1, <1>2 DEF Covered, CoveredBy

LEMMA ReportedKept ==
    ASSUME TypeOK, TypeOK', Step, Standing, Reported
    PROVE  Reported'
<1> USE DEF Step
<1>1. ASSUME NEW s \in Sessions, cached'[s] # Nil
      PROVE  /\ row'[s] # Nil
             /\ Exists(s)' /\ s \notin rescored' => cached'[s] = score'[s]
  <2>1. /\ row[s] # Nil
        /\ Exists(s) /\ s \notin rescored => cached'[s] = score[s]
    BY <1>1 DEF ReportsKept, Reported, Standing, Saving, Committing, Loaded
  <2> QED
    BY <1>1, <2>1 DEF Forward, ReportsKept
<1>2. ASSUME NEW r \in SessionRequests, NEW s \in Sessions, Saving(r, "report", s)',
             Exists(s)', s \notin rescored'
      PROVE  sreq'[r].saw = score'[s]
  <2>1. sreq'[r].at = "commit" /\ sreq'[r].kind = "report" /\ sreq'[r].session = s
    BY <1>2 DEF Committing, Saving
  <2>2. sreq'[r].saw # Nil
    BY <2>1, Constants DEF TypeOK, RequestState
  <2>3. row[s] # Nil /\ (Exists(s) /\ s \notin rescored => sreq'[r].saw = score[s])
    <3>1. CASE sreq'[r] = sreq[r]
      BY <2>1, <3>1 DEF Standing, Loaded, Saving, Committing, Reported
    <3>2. CASE Fresh(r)
      BY <2>1, <3>2 DEF Fresh, Exists
    <3> QED
      BY <2>1, <3>1, <3>2 DEF RequestsKept
  <2> QED
    BY <1>2, <2>2, <2>3 DEF Forward, ReportsKept
<1> QED
  BY <1>1, <1>2 DEF Reported

-------------------------------------------------------------------------------
(* The free session *)

FreeOf(s) == Exists(s) /\ ~row[s].paid /\ row[s].type # "negotiation"

(* A creation without a key is of the first session; without overlapping creations there is
   one, and while it waits no session is free. *)
OneFree ==
    /\ \A s \in Sessions : FreeOf(s) => row[s].type = "diagnostic"
    /\ \A r \in SessionRequests : Committing(r, "create") /\ ~sreq[r].paid => sreq[r].first
    /\ ~overlapped =>
          /\ \A q, r \in SessionRequests :
                Committing(q, "create") /\ Committing(r, "create") => q = r
          /\ \A r \in SessionRequests, s \in Sessions :
                Committing(r, "create") /\ ~sreq[r].paid => ~FreeOf(s)
          /\ \A s, t \in Sessions : FreeOf(s) /\ FreeOf(t) => s = t

(* A step that makes no session free and counts none. *)
Plain ==
    /\ \A s \in Sessions : FreeOf(s)' => FreeOf(s) /\ row'[s].type = row[s].type
    /\ \A r \in SessionRequests : Committing(r, "create")' => sreq'[r] = sreq[r]
    /\ overlapped' = overlapped

LEMMA PlainKeeps == ASSUME OneFree, Plain PROVE OneFree'
<1>1. \A r \in SessionRequests :
         Committing(r, "create")' => Committing(r, "create") /\ sreq'[r] = sreq[r]
  BY DEF Plain, Committing
<1> QED
  BY <1>1 DEF OneFree, Plain

-------------------------------------------------------------------------------
(* Each action is such a step *)

LEMMA AtRest ==
    ASSUME TypeOK, UNCHANGED <<row, sock>>
    PROVE  /\ Forward /\ SocketsKept
           /\ \A s \in Sessions : FreeOf(s)' => FreeOf(s) /\ row'[s].type = row[s].type
<1>1. \A s \in Sessions :
         (Exists(s)' <=> Exists(s)) /\ (Ended(s)' <=> Ended(s)) /\ OpenOn(s)' = OpenOn(s)
  BY DEF Exists, Ended, OpenOn
<1> QED
  BY <1>1 DEF Forward, SocketsKept, FreeOf

\* A request that only reads.
Reading(r) ==
    /\ UNCHANGED <<row, sock, score, cached, overlapped, rescored>>
    /\ \A q \in SessionRequests \ {r} : sreq'[q] = sreq[q]
    /\ sreq'[r].at = "end" \/ (sreq'[r].at = "commit" /\ sreq'[r].kind # "create" /\ Fresh(r))

LEMMA ReadingKeeps ==
    ASSUME TypeOK, NEW r \in SessionRequests, Reading(r)
    PROVE  Step /\ Plain
<1>1. RequestsKept
  BY DEF Reading, RequestsKept
<1>2. ScoresKept /\ ReportsKept
  BY DEF Reading, ScoresKept, ReportsKept
<1>3. \A q \in SessionRequests : Committing(q, "create")' => sreq'[q] = sreq[q]
  BY DEF Reading, Committing
<1> QED
  BY <1>1, <1>2, <1>3, AtRest DEF Reading, Step, Plain

LEMMA SelectSessionKeeps ==
    ASSUME TypeOK, NEW r \in SessionRequests, NEW kind, NEW s \in Sessions,
           SelectSession(r, kind, s)
    PROVE  Step /\ Plain
<1>1. sreq'[r].at = "end" \/ (sreq'[r].at = "commit" /\ sreq'[r].kind # "create" /\ Fresh(r))
  BY SelectSessionStep DEF Fresh
<1> QED
  BY <1>1, SelectSessionStep, ReadingKeeps DEF Reading, SelectSession

LEMMA ReadTranscriptKeeps ==
    ASSUME TypeOK, NEW r \in SessionRequests, NEW s \in Sessions, ReadTranscript(r, s)
    PROVE  Step /\ Plain
<1> DEFINE saw == [of |-> row[s].transcript, alone |-> OpenOn(s) = {}]
<1>0. CoveredBy(saw, s)
  <2>1. (saw.alone => OpenOn(s) = {}) /\ saw.of = row[s].transcript
    OBVIOUS
  <2> QED
    BY <2>1 DEF CoveredBy
<1>1. sreq'[r].at = "end" \/ (sreq'[r].at = "commit" /\ sreq'[r].kind # "create" /\ Fresh(r))
  <2>1. CASE sreq'[r].at = "end"
    BY <2>1
  <2>2. CASE sreq'[r].at # "end"
    <3>1. /\ sreq'[r].at = "commit" /\ sreq'[r].kind = "score" /\ sreq'[r].session = s
          /\ sreq'[r].saw = saw /\ Exists(s) /\ Ended(s)
      BY <2>2, ReadTranscriptStep
    <3> HIDE DEF saw
    <3> QED
      BY <1>0, <3>1 DEF Fresh
  <2> QED
    BY <2>1, <2>2
<1> QED
  BY <1>1, ReadTranscriptStep, ReadingKeeps DEF Reading, ReadTranscript

LEMMA AskReportKeeps ==
    ASSUME TypeOK, NEW r \in SessionRequests, NEW s \in Sessions, AskReport(r, s)
    PROVE  Step /\ Plain
<1>1. sreq'[r].at = "end" \/ (sreq'[r].at = "commit" /\ sreq'[r].kind # "create" /\ Fresh(r))
  BY AskReportStep DEF Fresh
<1> QED
  BY <1>1, AskReportStep, ReadingKeeps DEF Reading, AskReport

\* An answer holds nothing.
LEMMA AnsweredKeeps ==
    ASSUME TypeOK, NEW r \in SessionRequests, Answered(r)
    PROVE  /\ RequestsKept
           /\ \A q \in SessionRequests : Committing(q, "create")' => sreq'[q] = sreq[q]
  BY AnsweredType DEF RequestsKept, Committing

LEMMA CountSessionsKeeps ==
    ASSUME TypeOK, NEW r \in SessionRequests, CountSessions(r)
    PROVE  Step
<1>1. RequestsKept
  BY CountSessionsStep DEF RequestsKept
<1> QED
  BY <1>1, AtRest DEF CountSessions, Step, ScoresKept, ReportsKept

\* What an insertion does to the other rows.
LEMMA InsertedKeeps ==
    ASSUME TypeOK, TypeOK', UNCHANGED sock,
           NEW s \in Sessions, NEW new \in Row, Inserted(s, new)
    PROVE  /\ Forward /\ SocketsKept
           /\ row'[s] = new /\ \A t \in Sessions \ {s} : row'[t] = row[t]
<1>1. row'[s] = new /\ \A t \in Sessions \ {s} : row'[t] = row[t]
  BY DEF Inserted, TypeOK, Rows
<1>2. row[s] = Nil /\ ~Exists(s) /\ row'[s] # Nil
  BY <1>1, Constants DEF Inserted, Exists
<1>3. \A t \in Sessions \ {s} :
         (Exists(t)' <=> Exists(t)) /\ (Ended(t)' <=> Ended(t)) /\ OpenOn(t)' = OpenOn(t)
  BY <1>1 DEF Exists, Ended, OpenOn
<1>4. Forward
  BY <1>1, <1>2, <1>3 DEF Forward
<1> QED
  BY <1>1, <1>4 DEF SocketsKept

LEMMA InsertSessionKeeps ==
    ASSUME TypeOK, NEW r \in SessionRequests, InsertSession(r)
    PROVE  Step
<1>1. RequestsKept
  BY AnsweredKeeps DEF InsertSession
<1>2. ScoresKept /\ ReportsKept
  BY DEF InsertSession, ScoresKept, ReportsKept
<1>3. Forward /\ SocketsKept
  BY InsertSessionStep, InsertedKeeps, AtRest DEF InsertSession
<1> QED
  BY <1>1, <1>2, <1>3 DEF Step

LEMMA StartNegotiationKeeps ==
    ASSUME TypeOK, NEW r \in SessionRequests, StartNegotiation(r)
    PROVE  Step /\ Plain
<1>1. PICK s \in Sessions, new \in Row : Inserted(s, new) /\ new.type = "negotiation"
  BY StartNegotiationStep
<1>2. TypeOK' /\ UNCHANGED sock
  BY StartNegotiationStep DEF StartNegotiation
<1>3. /\ Forward /\ SocketsKept
      /\ row'[s] = new /\ \A t \in Sessions \ {s} : row'[t] = row[t]
  BY <1>1, <1>2, InsertedKeeps
<1>4. \A t \in Sessions : FreeOf(t)' => FreeOf(t) /\ row'[t].type = row[t].type
  BY <1>1, <1>3 DEF FreeOf, Exists
<1>5. RequestsKept /\ \A q \in SessionRequests : Committing(q, "create")' => sreq'[q] = sreq[q]
  BY AnsweredKeeps DEF StartNegotiation
<1>6. ScoresKept /\ ReportsKept /\ overlapped' = overlapped
  BY DEF StartNegotiation, ScoresKept, ReportsKept
<1> QED
  BY <1>3, <1>4, <1>5, <1>6 DEF Step, Plain

(* A row that exists is written, its type and price left as they are; what it loses by that
   is what OpenOn(s) = {} excludes. *)
Rewritten(s) ==
    /\ Exists(s) /\ row'[s] \in Row /\ row' = [row EXCEPT ![s] = row'[s]]
    /\ row'[s].type = row[s].type /\ row'[s].paid = row[s].paid
    /\ Ended(s) => Ended(s)'
    /\ Ended(s) /\ OpenOn(s) = {} => row'[s].transcript = row[s].transcript

LEMMA RewrittenKeeps ==
    ASSUME TypeOK, NEW s \in Sessions, Rewritten(s),
           \A t \in Sessions : OpenOn(t) = {} => OpenOn(t)' = {}
    PROVE  /\ Forward
           /\ \A t \in Sessions : FreeOf(t)' => FreeOf(t) /\ row'[t].type = row[t].type
<1>1. \A t \in Sessions \ {s} : row'[t] = row[t]
  BY DEF Rewritten, TypeOK, Rows
<1>2. \A t \in Sessions \ {s} : (Exists(t)' <=> Exists(t)) /\ (Ended(t)' <=> Ended(t))
  BY <1>1 DEF Exists, Ended
<1>3. Exists(s) /\ row'[s] # Nil
  BY Constants DEF Rewritten
<1>4. Forward
  BY <1>1, <1>2, <1>3 DEF Forward, Rewritten
<1> QED
  BY <1>1, <1>2, <1>3, <1>4 DEF FreeOf, Rewritten

LEMMA EndSessionKeeps ==
    ASSUME TypeOK, NEW r \in SessionRequests, EndSession(r)
    PROVE  Step /\ Plain
<1> DEFINE s == sreq[r].session
<1>1. RequestsKept /\ \A q \in SessionRequests : Committing(q, "create")' => sreq'[q] = sreq[q]
  BY AnsweredKeeps DEF EndSession
<1>2. UNCHANGED sock /\ overlapped' = overlapped /\ ScoresKept /\ ReportsKept
  BY DEF EndSession, ScoresKept, ReportsKept
<1>3. SocketsKept /\ \A t \in Sessions : OpenOn(t)' = OpenOn(t)
  BY <1>2 DEF SocketsKept, OpenOn
<1>4. /\ Forward
      /\ \A t \in Sessions : FreeOf(t)' => FreeOf(t) /\ row'[t].type = row[t].type
  <2>1. CASE UNCHANGED row
    BY <1>2, <2>1, AtRest
  <2>2. CASE ~UNCHANGED row
    <3>1. PICK t \in Sessions : t = s
      BY EndSessionStep
    <3>2. Rewritten(t)
      BY <2>2, <3>1, EndSessionStep DEF Rewritten, Ended
    <3> QED
      BY <1>3, <3>2, RewrittenKeeps
  <2> QED
    BY <2>1, <2>2
<1> QED
  BY <1>1, <1>2, <1>3, <1>4 DEF Step, Plain

\* Rows that exist are deleted, with their scores.
LEMMA DeletedKeeps ==
    ASSUME TypeOK, UNCHANGED sock,
           \A s \in Sessions : row'[s] = row[s] \/ (row[s] # Nil /\ row'[s] = Deleted)
    PROVE  /\ Forward /\ SocketsKept
           /\ \A s \in Sessions : FreeOf(s)' => FreeOf(s) /\ row'[s].type = row[s].type
<1>1. \A s \in Sessions : OpenOn(s)' = OpenOn(s) /\ (Exists(s)' => row'[s] = row[s])
  BY DEF OpenOn, Exists
<1>2. \A s \in Sessions : Exists(s)' => Exists(s) /\ (Ended(s)' <=> Ended(s))
  BY <1>1 DEF Exists, Ended
<1>3. Forward
  BY <1>1, <1>2, SessionAssumption DEF Forward
<1> QED
  BY <1>1, <1>2, <1>3 DEF SocketsKept, FreeOf

LEMMA RemoveSessionKeeps ==
    ASSUME TypeOK, Standing, NEW r \in SessionRequests, RemoveSession(r)
    PROVE  Step /\ Plain
<1> DEFINE s == sreq[r].session
<1>1. RequestsKept /\ \A q \in SessionRequests : Committing(q, "create")' => sreq'[q] = sreq[q]
  BY AnsweredKeeps DEF RemoveSession
<1>2. s \in Sessions /\ row[s] # Nil
  BY RemoveSessionStep DEF RemoveSession, Standing, Loaded, Committing
<1>3. /\ row' = [row EXCEPT ![s] = Deleted] /\ score' = [score EXCEPT ![s] = Nil]
      /\ UNCHANGED <<sock, cached, overlapped, rescored>>
  BY DEF RemoveSession
<1> HIDE DEF s
<1>4. \A t \in Sessions : /\ row'[t] = row[t] \/ (row[t] # Nil /\ row'[t] = Deleted)
                          /\ score'[t] = score[t] \/ (score'[t] = Nil /\ ~Exists(t)')
  BY <1>2, <1>3 DEF TypeOK, Rows, Exists
<1>5. ScoresKept /\ ReportsKept
  BY <1>3, <1>4 DEF ScoresKept, ReportsKept
<1> QED
  BY <1>1, <1>3, <1>4, <1>5, DeletedKeeps DEF Step, Plain

LEMMA DeleteAccountKeeps ==
    ASSUME TypeOK, DeleteAccount
    PROVE  Step /\ Plain
<1>1. UNCHANGED <<sreq, sock, cached, overlapped, rescored>>
  BY DEF DeleteAccount
<1>2. \A t \in Sessions : /\ row'[t] = row[t] \/ (row[t] # Nil /\ row'[t] = Deleted)
                          /\ score'[t] = Nil /\ ~Exists(t)'
  BY DEF DeleteAccount, TypeOK, Rows, Exists
<1>3. ScoresKept /\ ReportsKept /\ RequestsKept
  BY <1>1, <1>2 DEF ScoresKept, ReportsKept, RequestsKept
<1> QED
  BY <1>1, <1>2, <1>3, DeletedKeeps DEF Step, Plain

LEMMA ConnectKeeps ==
    ASSUME TypeOK, NEW p \in Sockets, NEW s \in Sessions, Connect(p, s)
    PROVE  Step /\ Plain
<1>1. UNCHANGED <<row, sreq, score, cached, overlapped, rescored>>
  BY DEF Connect
<1>2. \A t \in Sessions : Ended(t) /\ OpenOn(t) = {} => OpenOn(t)' = {}
  BY ConnectStep DEF OpenOn
<1>3. \A t \in Sessions : (Exists(t)' <=> Exists(t)) /\ (Ended(t)' <=> Ended(t))
  BY <1>1 DEF Exists, Ended
<1>4. Forward
  BY <1>1, <1>2, <1>3 DEF Forward
<1>5. SocketsKept
  BY ConnectStep DEF SocketsKept, Exists
<1>6. RequestsKept /\ ScoresKept /\ ReportsKept
  BY <1>1 DEF RequestsKept, ScoresKept, ReportsKept
<1> QED
  BY <1>1, <1>3, <1>4, <1>5, <1>6 DEF Step, Plain, FreeOf

\* A connection that was open on s stays so or closes.
LEMMA TalkingKeeps ==
    ASSUME TypeOK, NEW p \in Sockets, sock[p].at = "open",
           \A o \in Sockets \ {p} : sock'[o] = sock[o],
           sock'[p].at = "closed" \/ sock'[p].session = sock[p].session,
           UNCHANGED <<sreq, score, cached, overlapped, rescored>>,
           NEW s \in Sessions, s = sock[p].session,
           UNCHANGED row \/ Rewritten(s)
    PROVE  Step /\ Plain
<1>1. \A t \in Sessions : OpenOn(t) = {} => OpenOn(t)' = {}
  BY DEF OpenOn
<1>2. SocketsKept
  BY DEF SocketsKept
<1>3. RequestsKept /\ ScoresKept /\ ReportsKept
  BY DEF RequestsKept, ScoresKept, ReportsKept
<1>4. /\ Forward
      /\ \A t \in Sessions : FreeOf(t)' => FreeOf(t) /\ row'[t].type = row[t].type
  <2>1. CASE UNCHANGED row
    <3>1. \A t \in Sessions : (Exists(t)' <=> Exists(t)) /\ (Ended(t)' <=> Ended(t))
      BY <2>1 DEF Exists, Ended
    <3> QED
      BY <1>1, <2>1, <3>1 DEF Forward, FreeOf
  <2>2. CASE Rewritten(s)
    BY <1>1, <2>2, RewrittenKeeps
  <2> QED
    BY <2>1, <2>2
<1> QED
  BY <1>2, <1>3, <1>4 DEF Step, Plain

LEMMA SocketKeeps ==
    ASSUME TypeOK, NEW p \in Sockets, SaveTurn(p) \/ Finalize(p) \/ Break(p)
    PROVE  Step /\ Plain
<1>1. sock[p].at = "open" /\ sock[p].session \in Sessions
  BY SaveTurnStep, FinalizeStep, BreakStep
<1>2. PICK s \in Sessions : s = sock[p].session
  BY <1>1
<1>3. /\ \A o \in Sockets \ {p} : sock'[o] = sock[o]
      /\ sock'[p].at = "closed" \/ sock'[p].session = sock[p].session
  BY SaveTurnStep, FinalizeStep, BreakStep
<1>4. UNCHANGED <<sreq, score, cached, overlapped, rescored>>
  BY DEF SaveTurn, Finalize, Break
<1>5. OpenOn(s) # {}
  BY <1>1, <1>2 DEF OpenOn
<1>6. UNCHANGED row \/ Rewritten(s)
  BY <1>2, <1>5, SaveTurnStep, FinalizeStep, BreakStep DEF Rewritten, Ended
<1> QED
  BY <1>1, <1>2, <1>3, <1>4, <1>6, TalkingKeeps

LEMMA SaveScoresKeeps ==
    ASSUME TypeOK, NEW r \in SessionRequests, SaveScores(r)
    PROVE  Step /\ Plain
<1> DEFINE s == sreq[r].session
<1>1. RequestsKept /\ \A q \in SessionRequests : Committing(q, "create")' => sreq'[q] = sreq[q]
  BY AnsweredKeeps DEF SaveScores
<1>2. /\ s \in Sessions /\ Committing(r, "score")
      /\ UNCHANGED <<row, sock, cached, overlapped>>
      /\ \/ UNCHANGED <<score, rescored>>
         \/ /\ score' = [score EXCEPT ![s] = sreq[r].saw]
            /\ rescored' = IF score[s] = Nil THEN rescored ELSE rescored \cup {s}
  BY SaveScoresStep DEF SaveScores
<1>3. \A t \in Sessions :
         score'[t] = score[t] \/ (t = s /\ score'[t] = sreq[r].saw)
  BY <1>2 DEF TypeOK
<1>4. ScoresKept
  BY <1>2, <1>3 DEF ScoresKept, Saving
<1>5. ReportsKept
  BY <1>2, <1>3 DEF ReportsKept
<1> QED
  BY <1>1, <1>2, <1>4, <1>5, AtRest DEF Step, Plain

LEMMA CacheReportKeeps ==
    ASSUME TypeOK, NEW r \in SessionRequests, CacheReport(r)
    PROVE  Step /\ Plain
<1>1. RequestsKept /\ \A q \in SessionRequests : Committing(q, "create")' => sreq'[q] = sreq[q]
  BY AnsweredKeeps DEF CacheReport
<1>2. /\ sreq[r].session \in Sessions /\ Committing(r, "report")
      /\ UNCHANGED <<row, sock, score, overlapped, rescored>>
  BY CacheReportStep DEF CacheReport
<1>3. \A t \in Sessions :
         cached'[t] = cached[t] \/ (t = sreq[r].session /\ cached'[t] = sreq[r].saw)
  BY <1>2 DEF TypeOK, CacheReport
<1>4. ScoresKept /\ ReportsKept
  BY <1>2, <1>3 DEF ScoresKept, ReportsKept, Saving
<1> QED
  BY <1>1, <1>2, <1>4, AtRest DEF Step, Plain

LEMMA SettingsKeeps ==
    ASSUME TypeOK, (\E s \in Sessions : CacheExpires(s)) \/ ChangeKey \/ UNCHANGED sessionVars
    PROVE  Step /\ Plain
<1>1. UNCHANGED <<row, sock, sreq, score, overlapped, rescored>>
  BY DEF CacheExpires, ChangeKey, sessionVars
<1>2. \A t \in Sessions : cached'[t] = cached[t] \/ cached'[t] = Nil
  BY DEF CacheExpires, ChangeKey, sessionVars, TypeOK
<1>3. RequestsKept /\ ScoresKept /\ ReportsKept
  BY <1>1, <1>2 DEF RequestsKept, ScoresKept, ReportsKept
<1> QED
  BY <1>1, <1>3, AtRest DEF Step, Plain

LEMMA CountSessionsFree ==
    ASSUME TypeOK, OneFree, NEW r \in SessionRequests, CountSessions(r)
    PROVE  OneFree'
<1>1. /\ \A q \in SessionRequests \ {r} : sreq'[q] = sreq[q]
      /\ \/ sreq'[r].at = "end"
         \/ /\ sreq'[r].at = "commit" /\ sreq'[r].kind = "create"
            /\ ~sreq'[r].paid => sreq'[r].first /\ Existing = {}
  BY CountSessionsStep
<1>2. \A s \in Sessions : FreeOf(s)' => FreeOf(s) /\ row'[s].type = row[s].type
  BY AtRest DEF CountSessions
<1>3. overlapped' = (overlapped \/ \E o \in SessionRequests : Committing(o, "create"))
  BY DEF CountSessions
<1>4. \A s \in Sessions : FreeOf(s)' => row'[s].type = "diagnostic"
  BY <1>2 DEF OneFree
<1>5. \A q \in SessionRequests : Committing(q, "create")' /\ ~sreq'[q].paid => sreq'[q].first
  BY <1>1 DEF OneFree, Committing
<1>6. ASSUME ~overlapped'
      PROVE  /\ \A q \in SessionRequests : Committing(q, "create")' => q = r
             /\ Committing(r, "create")' /\ ~sreq'[r].paid => Existing = {}
             /\ \A s, t \in Sessions : FreeOf(s) /\ FreeOf(t) => s = t
  BY <1>1, <1>3, <1>6 DEF OneFree, Committing
<1>7. Existing = {} => \A s \in Sessions : ~FreeOf(s)
  BY DEF Existing, FreeOf
<1> QED
  BY <1>2, <1>4, <1>5, <1>6, <1>7 DEF OneFree

LEMMA InsertSessionFree ==
    ASSUME TypeOK, OneFree, NEW r \in SessionRequests, InsertSession(r)
    PROVE  OneFree'
<1>1. Committing(r, "create") /\ UNCHANGED <<sock, overlapped>>
  BY DEF InsertSession
<1>2. /\ ~Committing(r, "create")'
      /\ \A q \in SessionRequests : Committing(q, "create")' => sreq'[q] = sreq[q]
  BY AnsweredType, AnsweredKeeps DEF InsertSession, Committing
<1>3. CASE UNCHANGED row
  BY <1>1, <1>2, <1>3, AtRest, PlainKeeps DEF Plain
<1>4. CASE ~UNCHANGED row
  <2>1. PICK s \in Sessions, new \in Row :
           /\ Inserted(s, new) /\ new.paid = sreq[r].paid
           /\ sreq[r].first => new.type = "diagnostic"
    BY <1>4, InsertSessionStep
  <2>2. row'[s] = new /\ \A t \in Sessions \ {s} : row'[t] = row[t]
    BY <1>1, <2>1, InsertedKeeps, InsertSessionStep
  <2>3. \A t \in Sessions \ {s} : FreeOf(t)' => FreeOf(t) /\ row'[t].type = row[t].type
    BY <2>2 DEF FreeOf, Exists
  <2>4. FreeOf(s)' => ~sreq[r].paid /\ row'[s].type = "diagnostic"
    BY <1>1, <2>1, <2>2 DEF FreeOf, OneFree
  <2>5. \A q \in SessionRequests :
           Committing(q, "create")' => Committing(q, "create") /\ q # r /\ sreq'[q] = sreq[q]
    BY <1>2 DEF Committing
  <2>6. \A t \in Sessions : FreeOf(t)' => row'[t].type = "diagnostic"
    BY <2>3, <2>4 DEF OneFree
  <2>7. \A q \in SessionRequests : Committing(q, "create")' /\ ~sreq'[q].paid => sreq'[q].first
    BY <2>5 DEF OneFree
  <2>8. ~overlapped => \A q \in SessionRequests : ~Committing(q, "create")'
    BY <1>1, <2>5 DEF OneFree
  <2>9. ~overlapped => \A t, u \in Sessions : FreeOf(t)' /\ FreeOf(u)' => t = u
    BY <1>1, <2>3, <2>4 DEF OneFree
  <2> QED
    BY <1>1, <2>6, <2>7, <2>8, <2>9 DEF OneFree
<1> QED
  BY <1>3, <1>4

-------------------------------------------------------------------------------
(* The inductive invariant *)

Inv == TypeOK /\ Standing /\ Covered /\ Reported /\ OneFree

LEMMA InitInv == SessionInit => Inv
<1> SUFFICES ASSUME SessionInit PROVE Inv
  OBVIOUS
<1>1. TypeOK
  BY InitType
<1>2. /\ \A r \in SessionRequests : sreq[r].at = "new"
      /\ \A p \in Sockets : sock[p].at = "new"
      /\ \A s \in Sessions : score[s] = Nil /\ cached[s] = Nil
  BY DEF SessionInit, Waiting, Apart
<1>3. Standing /\ Covered /\ Reported
  BY <1>2 DEF Standing, Covered, Reported, Loaded, Saving, Committing
<1>4. OneFree
  <2>1. PICK s \in Sessions, first \in {Nil, NewSession("diagnostic", FALSE)} :
           row = [x \in Sessions |-> IF x = s THEN first ELSE Nil]
    BY DEF SessionInit
  <2>2. \A x \in Sessions : FreeOf(x) => x = s /\ row[x].type = "diagnostic"
    BY <2>1 DEF FreeOf, Exists, NewSession
  <2> QED
    BY <1>2, <2>2 DEF OneFree, Committing
<1> QED
  BY <1>1, <1>3, <1>4 DEF Inv

LEMMA NextStep ==
    ASSUME TypeOK, Standing, OneFree, [SessionNext]_sessionVars
    PROVE  TypeOK' /\ Step /\ OneFree'
<1>1. ASSUME NEW r \in SessionRequests, CountSessions(r) PROVE TypeOK' /\ Step /\ OneFree'
  BY <1>1, CountSessionsStep, CountSessionsKeeps, CountSessionsFree
<1>2. ASSUME NEW r \in SessionRequests, InsertSession(r) PROVE TypeOK' /\ Step /\ OneFree'
  BY <1>2, InsertSessionStep, InsertSessionKeeps, InsertSessionFree
<1>3. ASSUME NEW r \in SessionRequests, StartNegotiation(r) PROVE TypeOK' /\ Step /\ OneFree'
  BY <1>3, StartNegotiationStep, StartNegotiationKeeps, PlainKeeps
<1>4. ASSUME NEW r \in SessionRequests, EndSession(r) PROVE TypeOK' /\ Step /\ OneFree'
  BY <1>4, EndSessionStep, EndSessionKeeps, PlainKeeps
<1>5. ASSUME NEW r \in SessionRequests, RemoveSession(r) PROVE TypeOK' /\ Step /\ OneFree'
  BY <1>5, RemoveSessionStep, RemoveSessionKeeps, PlainKeeps
<1>6. ASSUME NEW r \in SessionRequests, SaveScores(r) PROVE TypeOK' /\ Step /\ OneFree'
  BY <1>6, SaveScoresStep, SaveScoresKeeps, PlainKeeps
<1>7. ASSUME NEW r \in SessionRequests, CacheReport(r) PROVE TypeOK' /\ Step /\ OneFree'
  BY <1>7, CacheReportStep, CacheReportKeeps, PlainKeeps
<1>8. ASSUME NEW r \in SessionRequests, NEW s \in Sessions,
             NEW kind \in {"completed", "abandoned", "delete"}, SelectSession(r, kind, s)
      PROVE  TypeOK' /\ Step /\ OneFree'
  BY <1>8, SelectSessionStep, SelectSessionKeeps, PlainKeeps
<1>9. ASSUME NEW r \in SessionRequests, NEW s \in Sessions, ReadTranscript(r, s)
      PROVE  TypeOK' /\ Step /\ OneFree'
  BY <1>9, ReadTranscriptStep, ReadTranscriptKeeps, PlainKeeps
<1>10. ASSUME NEW r \in SessionRequests, NEW s \in Sessions, AskReport(r, s)
       PROVE  TypeOK' /\ Step /\ OneFree'
  BY <1>10, AskReportStep, AskReportKeeps, PlainKeeps
<1>11. ASSUME NEW p \in Sockets, NEW s \in Sessions, Connect(p, s)
       PROVE  TypeOK' /\ Step /\ OneFree'
  BY <1>11, ConnectStep, ConnectKeeps, PlainKeeps
<1>12. ASSUME NEW p \in Sockets, SaveTurn(p) \/ Finalize(p) \/ Break(p)
       PROVE  TypeOK' /\ Step /\ OneFree'
  BY <1>12, SaveTurnStep, FinalizeStep, BreakStep, SocketKeeps, PlainKeeps
<1>13. ASSUME (\E s \in Sessions : CacheExpires(s)) \/ ChangeKey
       PROVE  TypeOK' /\ Step /\ OneFree'
  BY <1>13, SettingsStep, SettingsKeeps, PlainKeeps
<1>14. ASSUME DeleteAccount PROVE TypeOK' /\ Step /\ OneFree'
  BY <1>14, DeleteAccountStep, DeleteAccountKeeps, PlainKeeps
<1>15. ASSUME UNCHANGED sessionVars PROVE TypeOK' /\ Step /\ OneFree'
  <2>1. TypeOK'
    BY <1>15 DEF TypeOK, sessionVars
  <2> QED
    BY <1>15, <2>1, SettingsKeeps, PlainKeeps
<1> QED
  BY <1>1, <1>2, <1>3, <1>4, <1>5, <1>6, <1>7, <1>8, <1>9, <1>10, <1>11, <1>12, <1>13,
     <1>14, <1>15 DEF SessionNext

LEMMA NextInv == Inv /\ [SessionNext]_sessionVars => Inv'
<1> SUFFICES ASSUME Inv, [SessionNext]_sessionVars PROVE Inv'
  OBVIOUS
<1>1. TypeOK' /\ Step /\ OneFree'
  BY NextStep DEF Inv
<1>2. Standing' /\ Covered' /\ Reported'
  BY <1>1, StandingKept, CoveredKept, ReportedKept DEF Inv
<1> QED
  BY <1>1, <1>2 DEF Inv

\* The types, what a request loaded and what it may write back hold in every reachable state.
THEOREM InvHolds == SessionSpec => []Inv
  BY InitInv, NextInv, PTL DEF SessionSpec

-------------------------------------------------------------------------------
(* Of the sessions create_session made at most one was made without a key, whatever keys and
   sessions come and go between its count and its insertion, unless two creations overlapped
   (the check of api/v1/sessions.py). *)
THEOREM FreeSession == SessionSpec => []FreeSessionOnce
<1>1. TypeOK /\ OneFree => FreeSessionOnce
  <2> SUFFICES ASSUME TypeOK, OneFree PROVE FreeSessionOnce
    OBVIOUS
  <2> DEFINE free == {s \in Existing : ~row[s].paid /\ row[s].type # "negotiation"}
  <2>1. \A s \in free : s \in Sessions /\ FreeOf(s)
    BY DEF Existing, FreeOf
  <2>2. \A s \in free : row[s].type = "diagnostic"
    BY <2>1 DEF OneFree
  <2>3. ASSUME ~overlapped PROVE Cardinality(free) <= 1
    <3>1. CASE free = {}
      BY <3>1, FS_EmptySet
    <3>2. CASE free # {}
      <4>1. PICK s \in free : TRUE
        BY <3>2
      <4>2. free = {s}
        BY <2>1, <2>3, <4>1 DEF OneFree
      <4>3. Cardinality({s}) = 1
        BY FS_Singleton
      <4> HIDE DEF free
      <4> QED
        BY <4>2, <4>3
    <3> QED
      BY <3>1, <3>2
  <2> QED
    BY <2>2, <2>3 DEF FreeSessionOnce
<1> QED
  BY <1>1, InvHolds, PTL DEF Inv

(* What was scored when nobody was connected is the transcript the session shows for ever:
   scoring, reconnecting and finalising race without undoing it. *)
THEOREM ScoresCover == SessionSpec => []ScoresCoverTranscript
<1>1. Covered => ScoresCoverTranscript
  BY DEF Covered, CoveredBy, ScoresCoverTranscript, Existing
<1> QED
  BY <1>1, InvHolds, PTL DEF Inv

(* A cached report shows the scores of its session, which has ended, unless those were
   replaced since: the cache is asked and filled without a look at either. *)
THEOREM Reports == SessionSpec => []ReportsTrue
<1>1. TypeOK /\ Standing /\ Reported => ReportsTrue
  <2> SUFFICES ASSUME TypeOK, Standing, Reported,
                      NEW s \in Sessions, Exists(s), s \notin rescored, cached[s] # Nil
               PROVE  cached[s] = score[s] /\ row[s].status # "active"
    BY DEF ReportsTrue, Existing
  <2>1. cached[s] = score[s]
    BY DEF Reported
  <2> QED
    BY <2>1 DEF Standing, Ended
<1> QED
  BY <1>1, InvHolds, PTL DEF Inv

-------------------------------------------------------------------------------
(* The refinement: what the promise sees of a row, and the step of it each action is *)

LEMMA Seen ==
    ASSUME TypeOK, NEW s \in Sessions
    PROVE  /\ row[s] = Nil => StageOf(s) = "none" /\ TextOf(s) = NoTurns
           /\ row[s] = Deleted => StageOf(s) = "gone" /\ TextOf(s) = NoTurns
           /\ Exists(s) => /\ StageOf(s) = IF Ended(s) THEN "ended" ELSE "active"
                           /\ TextOf(s) = row[s].transcript /\ TextOf(s) \in Transcripts
           /\ Exists(s) \/ row[s] = Nil \/ row[s] = Deleted
           /\ TextOf(s) \in Transcripts
           /\ StageOf(s) \in {"none", "active", "ended", "gone"}
<1>1. Exists(s) => row[s].transcript \in Transcripts
  BY Existence
<1>2. Exists(s) <=> row[s] # Nil /\ row[s] # Deleted
  BY DEF Exists
<1> QED
  BY <1>1, <1>2, Constants DEF StageOf, TextOf, Ended

LEMMA SeenNext ==
    ASSUME TypeOK', NEW s \in Sessions
    PROVE  /\ row'[s] = Nil => StageOf(s)' = "none" /\ TextOf(s)' = NoTurns
           /\ row'[s] = Deleted => StageOf(s)' = "gone" /\ TextOf(s)' = NoTurns
           /\ Exists(s)' => /\ StageOf(s)' = IF Ended(s)' THEN "ended" ELSE "active"
                            /\ TextOf(s)' = row'[s].transcript /\ TextOf(s)' \in Transcripts
           /\ Exists(s)' \/ row'[s] = Nil \/ row'[s] = Deleted
<1>1. Exists(s)' => row'[s].transcript \in Transcripts
  BY ExistenceNext
<1>2. Exists(s)' <=> row'[s] # Nil /\ row'[s] # Deleted
  BY DEF Exists
<1> QED
  BY <1>1, <1>2, Constants DEF StageOf, TextOf, Ended

\* A row that is not written is seen as it was.
LEMMA SeenSame ==
    ASSUME NEW s \in Sessions, row'[s] = row[s]
    PROVE  StageOf(s)' = StageOf(s) /\ TextOf(s)' = TextOf(s)
  BY DEF StageOf, TextOf, Exists

Rest(s) == StageOf(s)' = StageOf(s) /\ TextOf(s)' = TextOf(s)

LEMMA IsStutter ==
    ASSUME \A s \in Sessions : Rest(s) /\ OpenOn(s)' = OpenOn(s)
    PROVE  UNCHANGED Promise!promiseVars
  BY DEF Rest, Promise!promiseVars

LEMMA IsOpen ==
    ASSUME NEW s \in Sessions, StageOf(s) = "none", StageOf(s)' = "active",
           TextOf(s)' = NoTurns, \A t \in Sessions \ {s} : Rest(t),
           \A t \in Sessions : OpenOn(t)' = OpenOn(t)
    PROVE  Promise!Open(s)
  BY DEF Rest, Promise!Open

LEMMA IsFinish ==
    ASSUME NEW s \in Sessions, StageOf(s) = "active", StageOf(s)' = "ended",
           TextOf(s)' = TextOf(s), \A t \in Sessions \ {s} : Rest(t),
           \A t \in Sessions : OpenOn(t)' = OpenOn(t)
    PROVE  Promise!Finish(s)
  BY DEF Rest, Promise!Finish

LEMMA IsRemove ==
    ASSUME NEW s \in Sessions, StageOf(s) = "ended", StageOf(s)' = "gone",
           TextOf(s)' = NoTurns, \A t \in Sessions \ {s} : Rest(t),
           \A t \in Sessions : OpenOn(t)' = OpenOn(t)
    PROVE  Promise!Remove(s)
  BY DEF Rest, Promise!Remove

LEMMA IsJoin ==
    ASSUME NEW s \in Sessions, NEW p \in Sockets, StageOf(s) = "active",
           \A t \in Sessions : Rest(t), OpenOn(s)' = OpenOn(s) \cup {p},
           \A t \in Sessions \ {s} : OpenOn(t)' = OpenOn(t)
    PROVE  Promise!Join(s, p)
  BY DEF Rest, Promise!Join

LEMMA IsLeave ==
    ASSUME NEW s \in Sessions, NEW p \in Sockets,
           \A t \in Sessions : Rest(t), OpenOn(s)' = OpenOn(s) \ {p},
           \A t \in Sessions \ {s} : OpenOn(t)' = OpenOn(t)
    PROVE  Promise!Leave(s, p)
  BY DEF Rest, Promise!Leave

LEMMA IsTalk ==
    ASSUME NEW s \in Sessions, NEW p \in OpenOn(s), StageOf(s) \in {"active", "ended"},
           TextOf(s)' \in Transcripts, StageOf(s)' \in {StageOf(s), "ended"},
           OpenOn(s)' = OpenOn(s) \/ OpenOn(s)' = OpenOn(s) \ {p},
           \A t \in Sessions \ {s} : Rest(t) /\ OpenOn(t)' = OpenOn(t)
    PROVE  Promise!Talk(s, p)
<1>1. \E x \in Transcripts : [t \in Sessions |-> TextOf(t)'] =
                             [[t \in Sessions |-> TextOf(t)] EXCEPT ![s] = x]
  BY DEF Rest
<1>2. \/ [t \in Sessions |-> StageOf(t)'] = [t \in Sessions |-> StageOf(t)]
      \/ [t \in Sessions |-> StageOf(t)'] = [[t \in Sessions |-> StageOf(t)] EXCEPT ![s] = "ended"]
  BY DEF Rest
<1>3. \/ [t \in Sessions |-> OpenOn(t)'] = [t \in Sessions |-> OpenOn(t)]
      \/ [t \in Sessions |-> OpenOn(t)'] =
         [[t \in Sessions |-> OpenOn(t)] EXCEPT ![s] = @ \ {p}]
  BY DEF Rest
<1> QED
  BY <1>1, <1>2, <1>3 DEF Promise!Talk

LEMMA IsRemoveAll ==
    ASSUME \A s \in Sessions :
              IF StageOf(s) = "none" THEN Rest(s)
              ELSE StageOf(s)' = "gone" /\ TextOf(s)' = NoTurns,
           \A s \in Sessions : OpenOn(s)' = OpenOn(s)
    PROVE  Promise!RemoveAll
  BY DEF Rest, Promise!RemoveAll

LEMMA AtRestRefines ==
    ASSUME UNCHANGED <<row, sock>>
    PROVE  UNCHANGED Promise!promiseVars
<1>1. \A s \in Sessions : Rest(s) /\ OpenOn(s)' = OpenOn(s)
  BY SeenSame DEF Rest, OpenOn
<1> QED
  BY <1>1, IsStutter

LEMMA InsertedRefines ==
    ASSUME TypeOK, TypeOK', UNCHANGED sock,
           NEW s \in Sessions, NEW new \in Row, Inserted(s, new)
    PROVE  Promise!Open(s)
<1>1. row'[s] = new /\ \A t \in Sessions \ {s} : row'[t] = row[t]
  BY InsertedKeeps
<1>2. StageOf(s) = "none"
  BY Seen DEF Inserted
<1>3. Exists(s)' /\ ~Ended(s)'
  BY <1>1, Constants DEF Inserted, Exists, Ended
<1>4. StageOf(s)' = "active" /\ TextOf(s)' = NoTurns
  BY <1>1, <1>3, SeenNext DEF Inserted
<1>5. \A t \in Sessions : OpenOn(t)' = OpenOn(t)
  BY DEF OpenOn
<1>6. \A t \in Sessions \ {s} : Rest(t)
  BY <1>1, SeenSame DEF Rest
<1> QED
  BY <1>2, <1>4, <1>5, <1>6, IsOpen

LEMMA EndSessionRefines ==
    ASSUME TypeOK, TypeOK', NEW r \in SessionRequests, EndSession(r)
    PROVE  UNCHANGED Promise!promiseVars \/ \E s \in Sessions : Promise!Finish(s)
<1>1. UNCHANGED sock
  BY DEF EndSession
<1>2. CASE UNCHANGED row
  BY <1>1, <1>2, AtRestRefines
<1>3. CASE ~UNCHANGED row
  <2>1. PICK s \in Sessions : s = sreq[r].session
    BY EndSessionStep
  <2>2. /\ Exists(s) /\ row'[s] \in Row
        /\ row'[s].status # "active" /\ row'[s].transcript = row[s].transcript
        /\ row' = [row EXCEPT ![s] = row'[s]]
    BY <1>3, <2>1, EndSessionStep
  <2>3. \A t \in Sessions \ {s} : Rest(t)
    BY <2>2, SeenSame DEF Rest, TypeOK, Rows
  <2>4. Exists(s)' /\ Ended(s)'
    BY <2>2, ExistenceNext DEF Ended
  <2>5. StageOf(s)' = "ended" /\ TextOf(s)' = TextOf(s)
    BY <2>2, <2>4, Seen, SeenNext
  <2>6. \A t \in Sessions : OpenOn(t)' = OpenOn(t)
    BY <1>1 DEF OpenOn
  <2>7. CASE Ended(s)
    <3>1. StageOf(s) = "ended"
      BY <2>2, <2>7, Seen
    <3> QED
      BY <2>3, <2>5, <2>6, <3>1, IsStutter DEF Rest
  <2>8. CASE ~Ended(s)
    <3>1. StageOf(s) = "active"
      BY <2>2, <2>8, Seen
    <3> QED
      BY <2>3, <2>5, <2>6, <3>1, IsFinish
  <2> QED
    BY <2>7, <2>8
<1> QED
  BY <1>2, <1>3

LEMMA RemoveSessionRefines ==
    ASSUME TypeOK, TypeOK', Standing, NEW r \in SessionRequests, RemoveSession(r)
    PROVE  UNCHANGED Promise!promiseVars \/ \E s \in Sessions : Promise!Remove(s)
<1>1. PICK s \in Sessions : s = sreq[r].session
  BY RemoveSessionStep
<1>2. row[s] # Nil /\ (Exists(s) => Ended(s))
  BY <1>1 DEF RemoveSession, Standing, Loaded, Committing
<1>3. row'[s] = Deleted /\ \A t \in Sessions \ {s} : row'[t] = row[t]
  BY <1>1 DEF RemoveSession, TypeOK, Rows
<1>4. \A t \in Sessions : OpenOn(t)' = OpenOn(t)
  BY DEF RemoveSession, OpenOn
<1>5. \A t \in Sessions \ {s} : Rest(t)
  BY <1>3, SeenSame DEF Rest
<1>6. StageOf(s)' = "gone" /\ TextOf(s)' = NoTurns
  BY <1>3, SeenNext
<1>7. CASE Exists(s)
  <2>1. StageOf(s) = "ended"
    BY <1>2, <1>7, Seen
  <2> QED
    BY <1>4, <1>5, <1>6, <2>1, IsRemove
<1>8. CASE ~Exists(s)
  <2>1. StageOf(s) = "gone" /\ TextOf(s) = NoTurns
    BY <1>2, <1>8, Seen
  <2> QED
    BY <1>4, <1>5, <1>6, <2>1, IsStutter DEF Rest
<1> QED
  BY <1>7, <1>8

LEMMA ConnectRefines ==
    ASSUME TypeOK, TypeOK', NEW p \in Sockets, NEW s \in Sessions, Connect(p, s)
    PROVE  UNCHANGED Promise!promiseVars \/ Promise!Join(s, p)
<1>1. \A t \in Sessions : Rest(t)
  BY SeenSame DEF Rest, Connect
<1>2. \A t \in Sessions : p \notin OpenOn(t)
  BY ConnectStep DEF OpenOn
<1>3. CASE sock'[p].at = "closed"
  <2>1. \A t \in Sessions : OpenOn(t)' = OpenOn(t)
    BY <1>2, <1>3, ConnectStep DEF OpenOn
  <2> QED
    BY <1>1, <2>1, IsStutter
<1>4. CASE sock'[p].at = "open" /\ sock'[p].session = s /\ Exists(s) /\ ~Ended(s)
  <2>1. OpenOn(s)' = OpenOn(s) \cup {p}
    BY <1>4, ConnectStep DEF OpenOn
  <2>2. \A t \in Sessions \ {s} : OpenOn(t)' = OpenOn(t)
    BY <1>2, <1>4, ConnectStep DEF OpenOn
  <2>3. StageOf(s) = "active"
    BY <1>4, Seen
  <2> QED
    BY <1>1, <2>1, <2>2, <2>3, IsJoin
<1> QED
  BY <1>3, <1>4, ConnectStep

LEMMA SocketRefines ==
    ASSUME TypeOK, TypeOK', NEW p \in Sockets, SaveTurn(p) \/ Finalize(p) \/ Break(p)
    PROVE  \E s \in Sessions : Promise!Talk(s, p) \/ Promise!Leave(s, p)
<1>1. PICK s \in Sessions : s = sock[p].session
  BY SaveTurnStep, FinalizeStep, BreakStep
<1>2. /\ sock[p].at = "open" /\ \A o \in Sockets \ {p} : sock'[o] = sock[o]
      /\ \/ sock'[p].at = "closed"
         \/ sock'[p].at = "open" /\ sock'[p].session = s
      /\ \/ UNCHANGED row /\ sock'[p].at = "closed"
         \/ /\ Exists(s) /\ row'[s] \in Row /\ row' = [row EXCEPT ![s] = row'[s]]
            /\ row'[s].status = row[s].status \/ row'[s].status # "active"
  BY <1>1, SaveTurnStep, FinalizeStep, BreakStep
<1>3. p \in OpenOn(s) /\ \A t \in Sessions \ {s} : OpenOn(t)' = OpenOn(t)
  BY <1>1, <1>2 DEF OpenOn
<1>4. \/ OpenOn(s)' = OpenOn(s)
      \/ OpenOn(s)' = OpenOn(s) \ {p}
  BY <1>1, <1>2 DEF OpenOn
<1>5. CASE UNCHANGED row /\ sock'[p].at = "closed"
  <2>1. OpenOn(s)' = OpenOn(s) \ {p}
    BY <1>1, <1>2, <1>5 DEF OpenOn
  <2>2. \A t \in Sessions : Rest(t)
    BY <1>5, SeenSame DEF Rest
  <2> QED
    BY <1>3, <2>1, <2>2, IsLeave
<1>6. CASE /\ Exists(s) /\ row'[s] \in Row /\ row' = [row EXCEPT ![s] = row'[s]]
           /\ row'[s].status = row[s].status \/ row'[s].status # "active"
  <2>1. \A t \in Sessions \ {s} : Rest(t)
    BY <1>6, SeenSame DEF Rest, TypeOK, Rows
  <2>2. Exists(s)' /\ (Ended(s)' \/ (Ended(s)' <=> Ended(s)))
    BY <1>6, ExistenceNext DEF Ended
  <2>3. StageOf(s) \in {"active", "ended"} /\ StageOf(s)' \in {StageOf(s), "ended"}
    BY <1>6, <2>2, Seen, SeenNext
  <2>4. TextOf(s)' \in Transcripts
    BY <2>2, SeenNext
  <2> QED
    BY <1>3, <1>4, <2>1, <2>3, <2>4, IsTalk
<1> QED
  BY <1>2, <1>5, <1>6

LEMMA DeleteAccountRefines ==
    ASSUME TypeOK, TypeOK', DeleteAccount
    PROVE  Promise!RemoveAll
<1>1. \A s \in Sessions : row'[s] = IF Exists(s) THEN Deleted ELSE row[s]
  BY DEF DeleteAccount
<1>2. \A s \in Sessions : OpenOn(s)' = OpenOn(s)
  BY DEF DeleteAccount, OpenOn
<1>3. ASSUME NEW s \in Sessions
      PROVE  IF StageOf(s) = "none" THEN Rest(s)
             ELSE StageOf(s)' = "gone" /\ TextOf(s)' = NoTurns
  <2>1. CASE row[s] = Nil
    <3>1. row'[s] = row[s]
      BY <1>1, <2>1 DEF Exists
    <3> QED
      BY <2>1, <3>1, Seen, SeenSame DEF Rest
  <2>2. CASE row[s] # Nil
    <3>1. row'[s] = Deleted
      BY <1>1, <2>2 DEF Exists
    <3>2. StageOf(s) # "none"
      BY <2>2, Seen
    <3> QED
      BY <3>1, <3>2, SeenNext
  <2> QED
    BY <2>1, <2>2
<1> QED
  BY <1>2, <1>3, IsRemoveAll

(* SessionLifecycle implements SessionPromise: a session becomes active once, ends once, is
   deleted only when it has ended, and without an open connection an ended session's transcript
   stands, though every request and every connection acts on what it read before. *)
THEOREM Implements == SessionSpec => PromiseKept
<1>1. SessionInit => Promise!PromiseInit
  <2> SUFFICES ASSUME SessionInit PROVE Promise!PromiseInit
    OBVIOUS
  <2>1. \A s \in Sessions : OpenOn(s) = {}
    BY DEF SessionInit, OpenOn, Apart
  <2>2. \A s \in Sessions : StageOf(s) \in {"none", "active", "ended", "gone"}
                            /\ TextOf(s) \in Transcripts
    BY InitType, Seen
  <2> QED
    BY <2>1, <2>2 DEF Promise!PromiseInit
<1>2. Inv /\ Inv' /\ [SessionNext]_sessionVars
         => [Promise!PromiseNext]_(Promise!promiseVars)
  <2> SUFFICES ASSUME TypeOK, TypeOK', Standing, [SessionNext]_sessionVars
               PROVE  Promise!PromiseNext \/ UNCHANGED Promise!promiseVars
    BY DEF Inv
  <2>1. ASSUME NEW r \in SessionRequests,
               \/ CountSessions(r) \/ SaveScores(r) \/ CacheReport(r)
               \/ \E s \in Sessions :
                     \/ \E kind \in {"completed", "abandoned", "delete"} : SelectSession(r, kind, s)
                     \/ ReadTranscript(r, s) \/ AskReport(r, s)
        PROVE  UNCHANGED Promise!promiseVars
    <3>1. UNCHANGED <<row, sock>>
      BY <2>1 DEF CountSessions, SaveScores, CacheReport, SelectSession, ReadTranscript, AskReport
    <3> QED
      BY <3>1, AtRestRefines
  <2>2. ASSUME NEW r \in SessionRequests, InsertSession(r) \/ StartNegotiation(r)
        PROVE  UNCHANGED Promise!promiseVars \/ \E s \in Sessions : Promise!Open(s)
    <3>1. UNCHANGED sock
      BY <2>2 DEF InsertSession, StartNegotiation
    <3>2. UNCHANGED row \/ \E s \in Sessions, new \in Row : Inserted(s, new)
      BY <2>2, InsertSessionStep, StartNegotiationStep
    <3> QED
      BY <3>1, <3>2, AtRestRefines, InsertedRefines
  <2>3. ASSUME NEW r \in SessionRequests, EndSession(r)
        PROVE  UNCHANGED Promise!promiseVars \/ \E s \in Sessions : Promise!Finish(s)
    BY <2>3, EndSessionRefines
  <2>4. ASSUME NEW r \in SessionRequests, RemoveSession(r)
        PROVE  UNCHANGED Promise!promiseVars \/ \E s \in Sessions : Promise!Remove(s)
    BY <2>4, RemoveSessionRefines
  <2>5. ASSUME NEW p \in Sockets, NEW s \in Sessions, Connect(p, s)
        PROVE  UNCHANGED Promise!promiseVars \/ Promise!Join(s, p)
    BY <2>5, ConnectRefines
  <2>6. ASSUME NEW p \in Sockets, SaveTurn(p) \/ Finalize(p) \/ Break(p)
        PROVE  \E s \in Sessions : Promise!Talk(s, p) \/ Promise!Leave(s, p)
    BY <2>6, SocketRefines
  <2>7. ASSUME (\E s \in Sessions : CacheExpires(s)) \/ ChangeKey \/ UNCHANGED sessionVars
        PROVE  UNCHANGED Promise!promiseVars
    <3>1. UNCHANGED <<row, sock>>
      BY <2>7 DEF CacheExpires, ChangeKey, sessionVars
    <3> QED
      BY <3>1, AtRestRefines
  <2>8. ASSUME DeleteAccount PROVE Promise!RemoveAll
    BY <2>8, DeleteAccountRefines
  <2> QED
    BY <2>1, <2>2, <2>3, <2>4, <2>5, <2>6, <2>7, <2>8 DEF SessionNext, Promise!PromiseNext
<1> QED
  BY <1>1, <1>2, InvHolds, PTL DEF SessionSpec, PromiseKept, Promise!PromiseSpec
===============================================================================
