---------------------------- MODULE Authentication ----------------------------
(***************************************************************************)
(* Accounts and the requests on them (api/v1/auth.py, the rate limit, the  *)
(* token checks, delete_account).  A request is a sequence of steps        *)
(* between awaits: rate limit in Redis, SELECT of the user, COMMIT of what *)
(* it computed from that row.  Requests run in any order, on several       *)
(* workers; Redis may fail at each call.                                   *)
(***************************************************************************)
EXTENDS Naturals, FiniteSets

CONSTANTS Requests, UserIds, Emails, Passwords,
          LockoutAttempts,   \* _LOCKOUT_ATTEMPTS
          RateLimit,         \* rate_limit_auth_requests
          None

(* A row of the table users. *)
UserRow ==
    [email : Emails \cup {None}, password : Passwords \cup {None}, google : BOOLEAN,
     active : BOOLEAN, failed : Nat, locked : {"none", "active", "over"}]

ASSUME AuthAssumption ==
    /\ LockoutAttempts \in Nat \ {0} /\ RateLimit \in Nat \ {0}
    /\ None \notin UserRow

VARIABLES
    users,      \* the table: id -> row, or None
    tokens,     \* tokens issued: type and user id
    areq,       \* the requests
    window,     \* the Redis counter of the client's address and its expiry
    passed,     \* history: limited requests let through since the counter was last zero:
                \* all of them, and those whose INCR raised (open)
    expiryLost, \* history: Redis failed where this counter was due its EXPIRE
    wrong,      \* history: wrong passwords since the last success or reset
    crossed     \* history: two requests have overlapped

authVars == <<users, tokens, areq, window, passed, expiryLost, wrong, crossed>>

Limited == {"register", "login", "forgot", "reset"}
TokenUse == [refresh |-> "refresh", me |-> "access", delete |-> "access",
             reset |-> "password_reset"]
Kinds == Limited \cup {"google", "refresh", "me", "delete"}

NewUser(email, password, google) ==
    [email |-> email, password |-> password, google |-> google, active |-> TRUE,
     failed |-> 0, locked |-> "none"]

Idle == [kind |-> None, at |-> "new", email |-> None, password |-> None, user |-> None,
         copy |-> None]

Live == {u \in UserIds : users[u] # None}

Issued(u) == {[type |-> t, user |-> u] : t \in {"access", "refresh"}}

(* What an unfinished request holds of the table makes overlaps visible. *)
Loaded(r) == areq[r].at = "commit"

(* A request goes on at `at`, or ends: what it answers is noted where it ends. *)
GoTo(r, at) == areq' = [areq EXCEPT ![r].at = at]
End(r) == areq' = [areq EXCEPT ![r] = [Idle EXCEPT !.at = "end"]]

(* Every SELECT notes whether another request is between its read and its commit. *)
Read(r) == crossed' = (crossed \/ \E o \in Requests \ {r} : Loaded(o))

-------------------------------------------------------------------------------
(* Init: one user (nothing in the application clears is_active), as registration or Google
   sign-in and earlier wrong passwords leave it. *)

AuthInit ==
    /\ \E u \in UserIds \cup {None}, e \in Emails, p \in Passwords \cup {None}, n \in 0..LockoutAttempts :
           \E g \in BOOLEAN :
               /\ p # None \/ g
               /\ wrong = [v \in UserIds |-> IF v = u THEN n ELSE 0]
               /\ users = [v \in UserIds |->
                      IF v # u THEN None
                      ELSE [NewUser(e, p, g) EXCEPT !.failed = n,
                               !.locked = IF n = LockoutAttempts THEN "over" ELSE "none"]]
    /\ tokens = {}
    /\ areq = [r \in Requests |-> Idle]
    /\ window = [count |-> 0, expiry |-> FALSE]
    /\ passed = [all |-> 0, open |-> 0] /\ expiryLost = FALSE
    /\ crossed = FALSE

-------------------------------------------------------------------------------
(* A client sends a request.  Register, login, forgot and reset depend on the rate limit:
   INCR, then EXPIRE at the first request of a window, 429 past the limit.  A call of Redis
   that raises lets the request go on, whether Redis executed it or not. *)

Request(kind, email, password) ==
    [Idle EXCEPT !.kind = kind, !.email = email, !.password = password, !.at = "select"]

Arrive(r, request) ==
    LET count == window.count + 1
        counted == [window EXCEPT !.count = count]
        goesOn(at) == areq' = [areq EXCEPT ![r] = [request EXCEPT !.at = at]]
        failsOpen == goesOn("select") /\ passed' = [all |-> passed.all + 1, open |-> passed.open + 1]
    IN
    /\ areq[r].at = "new"
    /\ \/ /\ request.kind \notin Limited
          /\ goesOn("select")
          /\ UNCHANGED <<window, passed, expiryLost>>
       \/ /\ request.kind \in Limited                     \* INCR raises, not executed
          /\ failsOpen
          /\ UNCHANGED <<window, expiryLost>>
       \/ /\ request.kind \in Limited                     \* INCR raises, executed
          /\ failsOpen
          /\ window' = counted
          /\ expiryLost' = (expiryLost \/ count = 1)
       \/ /\ request.kind \in Limited                     \* INCR answers
          /\ window' = counted
          /\ IF count > RateLimit
             THEN End(r) /\ UNCHANGED passed              \* 429
             ELSE /\ goesOn(IF count = 1 THEN "expire" ELSE "select")
                  /\ passed' = [passed EXCEPT !.all = @ + 1]
          /\ UNCHANGED expiryLost
    /\ UNCHANGED <<users, tokens, wrong, crossed>>

\* mutant: the window never gets its EXPIRE
SetExpiry_Forgotten(r) ==
    /\ areq[r].at = "expire"
    /\ GoTo(r, "select")
    /\ UNCHANGED <<users, tokens, window, passed, expiryLost, wrong, crossed>>

SetExpiry(r) ==
    /\ areq[r].at = "expire"
    /\ window' = [window EXCEPT !.expiry = TRUE]
    /\ GoTo(r, "select")
    /\ UNCHANGED <<users, tokens, passed, expiryLost, wrong, crossed>>

(* EXPIRE raises: Redis did not execute it, or its reply was lost. *)
ExpiryFails(r) ==
    /\ areq[r].at = "expire"
    /\ \/ expiryLost' = TRUE /\ UNCHANGED window
       \/ window' = [window EXCEPT !.expiry = TRUE] /\ UNCHANGED expiryLost
    /\ GoTo(r, "select")
    /\ UNCHANGED <<users, tokens, passed, wrong, crossed>>

WindowEnds ==
    /\ window.expiry
    /\ window' = [count |-> 0, expiry |-> FALSE]
    /\ passed' = [all |-> 0, open |-> 0]
    /\ UNCHANGED <<users, tokens, areq, expiryLost, wrong, crossed>>

-------------------------------------------------------------------------------
(* register *)

RegisterSelect(r) ==
    /\ areq[r].kind = "register" /\ areq[r].at = "select"
    /\ Read(r)
    /\ IF \E u \in Live : users[u].email = areq[r].email THEN End(r) ELSE GoTo(r, "commit")   \* 409
    /\ UNCHANGED <<users, tokens, window, passed, expiryLost, wrong>>

(* The INSERT of register or google; the unique keys refuse a second row. *)
Insert(r) ==
    /\ areq[r].at = "commit" /\ areq[r].copy = None
    /\ LET google == areq[r].kind = "google"
           taken == \E u \in Live : \/ users[u].email = areq[r].email
                                    \/ google /\ users[u].google
       IN \/ taken /\ End(r) /\ UNCHANGED <<users, tokens>>
          \/ ~taken /\ \E u \in UserIds \ Live :
                /\ tokens \cap Issued(u) = {}
                /\ users' = [users EXCEPT ![u] =
                       NewUser(areq[r].email, areq[r].password, google)]
                /\ tokens' = tokens \cup Issued(u)
                /\ End(r)
    /\ UNCHANGED <<window, passed, expiryLost, wrong, crossed>>

-------------------------------------------------------------------------------
(* login *)

LoginSelect(r) ==
    /\ areq[r].kind = "login" /\ areq[r].at = "select"
    /\ Read(r)
    /\ \/ /\ \A u \in Live : users[u].email # areq[r].email
          /\ End(r)
       \/ \E u \in Live :
             /\ users[u].email = areq[r].email
             /\ IF users[u].locked = "active"
                THEN End(r)
                ELSE areq' = [areq EXCEPT ![r].at = "commit", ![r].user = u,
                                          ![r].copy = users[u]]
    /\ UNCHANGED <<users, tokens, window, passed, expiryLost, wrong>>

(* What login leaves of the row it read: the failure branch and the success branch. *)
LoginFailed(row) ==
    [row EXCEPT !.failed = @ + 1,
                !.locked = IF row.failed + 1 >= LockoutAttempts THEN "active" ELSE @]
\* mutant: a success does not reset the counter
LoginSucceeded_KeepsCount(row) == [row EXCEPT !.locked = "none"]

LoginSucceeded(row) == [row EXCEPT !.failed = 0, !.locked = "none"]

(* SQLAlchemy's UPDATE: the columns that differ from the row read; none, no UPDATE. *)
Updated(row, copy, new) ==
    [c \in DOMAIN row |-> IF new[c] # copy[c] THEN new[c] ELSE row[c]]

(* An UPDATE that finds no row is an error; a commit without changes is not. *)
Store(r, new) ==
    /\ users[areq[r].user] # None \/ new = areq[r].copy
    /\ users' = [users EXCEPT ![areq[r].user] =
           IF @ = None THEN None ELSE Updated(@, areq[r].copy, new)]

RowGone(r, new) == users[areq[r].user] = None /\ new # areq[r].copy

LoginCommit(r) ==
    LET u == areq[r].user
        copy == areq[r].copy
        right == copy.password # None /\ copy.password = areq[r].password
        new == IF right THEN LoginSucceeded(copy) ELSE LoginFailed(copy)
    IN /\ areq[r].kind = "login" /\ areq[r].at = "commit"
       /\ IF RowGone(r, new)
          THEN End(r) /\ UNCHANGED <<users, tokens, wrong>>
          ELSE /\ Store(r, new)
               /\ tokens' = IF right THEN tokens \cup Issued(u) ELSE tokens
               /\ End(r)
               /\ wrong' = [wrong EXCEPT ![u] = IF right THEN 0 ELSE @ + 1]
       /\ UNCHANGED <<window, passed, expiryLost, crossed>>

(* Fifteen minutes pass: is_locked() is false, locked_until and the counter stay. *)
LockEnds(u) ==
    /\ users[u] # None /\ users[u].locked = "active"
    /\ users' = [users EXCEPT ![u].locked = "over"]
    /\ UNCHANGED <<tokens, areq, window, passed, expiryLost, wrong, crossed>>

-------------------------------------------------------------------------------
(* google_oauth *)

GoogleSelect(r) ==
    LET found == {u \in Live : users[u].google \/ users[u].email = areq[r].email} IN
    /\ areq[r].kind = "google" /\ areq[r].at = "select"
    /\ \/ End(r) /\ UNCHANGED <<tokens, crossed>>      \* Google says no
       \/ /\ Read(r)
          /\ \/ found = {} /\ GoTo(r, "commit") /\ UNCHANGED tokens
             \/ Cardinality(found) > 1 /\ End(r) /\ UNCHANGED tokens
             \/ \E u \in UserIds :
                   /\ found = {u}
                   /\ IF users[u].google
                      THEN End(r) /\ tokens' = tokens \cup Issued(u)
                      ELSE /\ areq' = [areq EXCEPT ![r].at = "commit", ![r].user = u,
                                                   ![r].copy = users[u]]
                           /\ UNCHANGED tokens
    /\ UNCHANGED <<users, window, passed, expiryLost, wrong>>

(* The link of an existing row; the unique key on google_id refuses a second one. *)
GoogleLink(r) ==
    LET u == areq[r].user
        new == [areq[r].copy EXCEPT !.google = TRUE]
    IN /\ areq[r].kind = "google" /\ areq[r].at = "commit" /\ areq[r].copy # None
       /\ IF RowGone(r, new) \/ \E v \in Live \ {u} : users[v].google
          THEN End(r) /\ UNCHANGED <<users, tokens>>
          ELSE Store(r, new) /\ tokens' = tokens \cup Issued(u) /\ End(r)
       /\ UNCHANGED <<window, passed, expiryLost, wrong, crossed>>

-------------------------------------------------------------------------------
(* forgot_password always answers 200; the token goes to the user by email. *)

ForgotSelect(r) ==
    /\ areq[r].kind = "forgot" /\ areq[r].at = "select"
    /\ Read(r)
    /\ tokens' = tokens \cup {[type |-> "password_reset", user |-> u] : u \in
           {v \in Live : users[v].email = areq[r].email /\ users[v].active
                         /\ users[v].password # None}}
    /\ End(r)
    /\ UNCHANGED <<users, window, passed, expiryLost, wrong>>

(* The requests that present a token: it is of another type, expired or forged, or its user
   is missing or inactive, and they end with 401 (reset: 400); else they hold the user. *)
TokenSelect(r) ==
    LET kind == areq[r].kind IN
    /\ kind \in DOMAIN TokenUse /\ areq[r].at = "select"
    /\ Read(r)
    /\ \/ End(r) /\ UNCHANGED tokens
       \/ \E u \in UserIds :
             /\ [type |-> TokenUse[kind], user |-> u] \in tokens
             /\ users[u] # None /\ users[u].active
             /\ \/ kind = "me" /\ End(r) /\ UNCHANGED tokens
                \/ kind = "refresh" /\ End(r) /\ tokens' = tokens \cup Issued(u)
                \/ /\ kind \in {"reset", "delete"}
                   /\ areq' = [areq EXCEPT ![r].at = "commit", ![r].user = u,
                                           ![r].copy = users[u]]
                   /\ UNCHANGED tokens
    /\ UNCHANGED <<users, window, passed, expiryLost, wrong>>

(* hash_password salts, so the column always changes. *)
ResetCommit(r) ==
    LET u == areq[r].user
        new == LoginSucceeded([areq[r].copy EXCEPT !.password = areq[r].password])
    IN /\ areq[r].kind = "reset" /\ areq[r].at = "commit"
       /\ IF users[u] = None
          THEN End(r) /\ UNCHANGED <<users, wrong>>
          ELSE /\ users' = [users EXCEPT ![u] =
                      [Updated(@, areq[r].copy, new) EXCEPT !.password = new.password]]
               /\ wrong' = [wrong EXCEPT ![u] = 0]
               /\ End(r)
       /\ UNCHANGED <<tokens, window, passed, expiryLost, crossed>>

DeleteCommit(r) ==
    /\ areq[r].kind = "delete" /\ areq[r].at = "commit"
    /\ users' = [users EXCEPT ![areq[r].user] = None]
    /\ wrong' = [wrong EXCEPT ![areq[r].user] = 0]
    /\ End(r)
    /\ UNCHANGED <<tokens, window, passed, expiryLost, crossed>>

-------------------------------------------------------------------------------
AuthNext ==
    \/ \E r \in Requests, kind \in Kinds :
          \E email \in IF kind \in DOMAIN TokenUse THEN {None} ELSE Emails,
             password \in IF kind \in {"register", "login", "reset"} THEN Passwords ELSE {None} :
             Arrive(r, Request(kind, email, password))
    \/ \E r \in Requests :
          \/ SetExpiry(r) \/ ExpiryFails(r)
          \/ RegisterSelect(r) \/ Insert(r)
          \/ LoginSelect(r) \/ LoginCommit(r)
          \/ GoogleSelect(r) \/ GoogleLink(r)
          \/ ForgotSelect(r) \/ TokenSelect(r) \/ ResetCommit(r) \/ DeleteCommit(r)
    \/ WindowEnds
    \/ \E u \in UserIds : LockEnds(u)

AuthSpec == AuthInit /\ [][AuthNext]_authVars

-------------------------------------------------------------------------------
(* The lockout of login ("enforce lockout after 5 failures"): among requests that do not
   overlap, the counter is the number of wrong passwords since the last success or reset,
   and a lock has been set exactly when there are LockoutAttempts of them - so after a lock
   has ended, each further wrong password locks again. *)
LockoutBites ==
    ~crossed => \A u \in Live :
        /\ users[u].failed = wrong[u]
        /\ users[u].locked # "none" <=> wrong[u] >= LockoutAttempts

(* The rate limit: a limited request that is let through beyond RateLimit in a window is one
   whose own INCR raised - in whatever order workers count, a failure of Redis lets no other
   request past the limit.  And a counter stands without an expiry exactly while the request
   that made it is about to send EXPIRE, or if Redis failed there: the INCR that made it, or
   its EXPIRE, raised. *)
RateWindowHolds ==
    /\ passed.all <= RateLimit + passed.open
    /\ window.count > 0 /\ ~window.expiry <=>
          expiryLost \/ \E r \in Requests : areq[r].at = "expire"
=============================================================================
