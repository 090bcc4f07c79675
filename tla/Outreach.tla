------------------------------- MODULE Outreach -------------------------------
(***************************************************************************)
(* What leaves the application: the weekly digest (api/v1/digest.py,       *)
(* services/email.py) and the public readiness cards (api/v1/share.py).    *)
(* A send-all job loads the active users once and then builds and mails    *)
(* one digest after the other, while users change their settings, leave,   *)
(* or send a digest to themselves.                                         *)
(***************************************************************************)
EXTENDS Naturals, FiniteSets, SequencesExt

CONSTANTS Users, Jobs, Cards,
          Ttl,       \* _SHARE_TTL_DAYS
          MaxDays,   \* days the model looks at
          Absent

ASSUME OutreachAssumption ==
    /\ Ttl \in Nat /\ MaxDays \in Nat
    /\ IsFiniteSet(Users)
    /\ Absent \notin Jobs \cup [owner : Users, since : Nat]

VARIABLES
    accounts,   \* users with a row
    optIn,      \* users with email_digest set
    smtp,       \* SMTP_HOST is set
    job,        \* job -> progress of _send_all_digests
    card,       \* card -> owner and day of creation, or Absent
    today,
    mail,       \* history: pairs of a job and a user that SMTP took
    refused     \* history: pairs of a job and a user that SMTP did not take

outVars == <<accounts, optIn, smtp, job, card, today, mail, refused>>

Queued == [at |-> "new", todo |-> <<>>, opted |-> {}, sent |-> 0, skipped |-> 0, total |-> 0]

OutInit ==
    /\ accounts = Users
    /\ optIn \in SUBSET Users
    /\ smtp \in BOOLEAN
    /\ job = [j \in Jobs |-> Queued]
    /\ card = [c \in Cards |-> Absent]
    /\ today = 0
    /\ mail = {} /\ refused = {}

-------------------------------------------------------------------------------
(* send_email never raises: without SMTP_HOST, or on any error, the answer is false. *)
SendEmail(ok) == ok => smtp

(* _send_all_digests selects the active users, in any order, with their settings. *)
LoadUsers(j) ==
    /\ job[j].at = "new"
    /\ \E order \in SetToSeqs(accounts) :
          job' = [job EXCEPT ![j] = [Queued EXCEPT !.at = "loop", !.todo = order,
                                        !.opted = optIn \cap accounts,
                                        !.total = Cardinality(accounts)]]
    /\ UNCHANGED <<accounts, optIn, smtp, card, today, mail, refused>>

Next1(j) == Head(job[j].todo)
Looping(j) == job[j].at = "loop" /\ job[j].todo # <<>>

SkipUser(j) ==
    /\ Looping(j) /\ Next1(j) \notin job[j].opted
    /\ job' = [job EXCEPT ![j].todo = Tail(@), ![j].skipped = @ + 1]
    /\ UNCHANGED <<accounts, optIn, smtp, card, today, mail, refused>>

\* mutant: a refused message ends the job
MailUser_Breaks(j, ok) ==
    /\ Looping(j) /\ Next1(j) \in job[j].opted
    /\ SendEmail(ok)
    /\ IF ok
       THEN /\ job' = [job EXCEPT ![j].todo = Tail(@), ![j].sent = @ + 1]
            /\ mail' = mail \cup {<<j, Next1(j)>>} /\ UNCHANGED refused
       ELSE /\ job' = [job EXCEPT ![j].todo = Tail(@), ![j].skipped = @ + 1, ![j].at = "done"]
            /\ refused' = refused \cup {<<j, Next1(j)>>} /\ UNCHANGED mail
    /\ UNCHANGED <<accounts, optIn, smtp, card, today>>

MailUser(j, ok) ==
    /\ Looping(j) /\ Next1(j) \in job[j].opted
    /\ SendEmail(ok)
    /\ IF ok
       THEN /\ job' = [job EXCEPT ![j].todo = Tail(@), ![j].sent = @ + 1]
            /\ mail' = mail \cup {<<j, Next1(j)>>} /\ UNCHANGED refused
       ELSE /\ job' = [job EXCEPT ![j].todo = Tail(@), ![j].skipped = @ + 1]
            /\ refused' = refused \cup {<<j, Next1(j)>>} /\ UNCHANGED mail
    /\ UNCHANGED <<accounts, optIn, smtp, card, today>>

(* A query of _build_stats fails: nothing catches it, and the job is over. *)
StatsFail(j) ==
    /\ Looping(j) /\ Next1(j) \in job[j].opted
    /\ job' = [job EXCEPT ![j].at = "dead"]
    /\ UNCHANGED <<accounts, optIn, smtp, card, today, mail, refused>>

JobEnds(j) ==
    /\ job[j].at = "loop" /\ job[j].todo = <<>>
    /\ job' = [job EXCEPT ![j].at = "done"]
    /\ UNCHANGED <<accounts, optIn, smtp, card, today, mail, refused>>

(* send_digest_to_self asks for no opt-in; the answer says queued or skipped. *)
SendToSelf(u) ==
    /\ u \in accounts
    /\ \E ok \in BOOLEAN : SendEmail(ok) /\ mail' = IF ok THEN mail \cup {<<Absent, u>>} ELSE mail
    /\ UNCHANGED <<accounts, optIn, smtp, job, card, today, refused>>

-------------------------------------------------------------------------------
(* create_share_card (422 without a skill node, and no card); get_share_card: 404 after Ttl days. *)
CreateCard(c, u) ==
    /\ card[c] = Absent /\ u \in accounts
    /\ card' = [card EXCEPT ![c] = [owner |-> u, since |-> today]]
    /\ UNCHANGED <<accounts, optIn, smtp, job, today, mail, refused>>

Shown(c) == card[c] # Absent /\ ~(card[c].since + Ttl < today)

-------------------------------------------------------------------------------
(* The rest of the system: settings, delete_account (the rows of a user go with it), days. *)
SetOptIn(u) ==
    /\ u \in accounts
    /\ optIn' = IF u \in optIn THEN optIn \ {u} ELSE optIn \cup {u}
    /\ UNCHANGED <<accounts, smtp, job, card, today, mail, refused>>

UserLeaves(u) ==
    /\ u \in accounts
    /\ accounts' = accounts \ {u}
    /\ optIn' = optIn \ {u}
    /\ card' = [c \in Cards |-> IF card[c] # Absent /\ card[c].owner = u THEN Absent ELSE card[c]]
    /\ UNCHANGED <<smtp, job, today, mail, refused>>

DayPasses ==
    /\ today < MaxDays
    /\ today' = today + 1
    /\ UNCHANGED <<accounts, optIn, smtp, job, card, mail, refused>>

OutNext ==
    \/ \E j \in Jobs : \/ LoadUsers(j) \/ SkipUser(j) \/ StatsFail(j) \/ JobEnds(j)
                       \/ \E ok \in BOOLEAN : MailUser(j, ok)
    \/ \E u \in Users : \/ SendToSelf(u) \/ SetOptIn(u) \/ UserLeaves(u)
                        \/ \E c \in Cards : CreateCard(c, u)
    \/ DayPasses

OutSpec == OutInit /\ [][OutNext]_outVars

-------------------------------------------------------------------------------
(* A digest job tries every user who had opted in when it loaded them, and nobody else,
   whatever users change meanwhile: one that finishes has mailed or been refused each, and its
   log adds up; one that dies leaves out only users who came after the failing one.
   And a public card is no older than its time to live and belongs to an account. *)
DigestReaches ==
    /\ \A j \in Jobs :
          LET Mailed == {u \in Users : <<j, u>> \in mail}
              Refused == {u \in Users : <<j, u>> \in refused}
          IN /\ job[j].sent = Cardinality(Mailed)
             /\ Mailed \cap Refused = {}
             /\ Mailed \cup Refused = job[j].opted \ ToSet(job[j].todo)
             /\ job[j].at = "done" => job[j].sent + job[j].skipped = job[j].total
    /\ \A c \in Cards : Shown(c) => card[c].owner \in accounts /\ today - card[c].since <= Ttl
===============================================================================
