---------------------------- MODULE RequestsProofs ----------------------------
(***************************************************************************)
(* Proofs about the components whose hazard is overlapping requests:       *)
(* Authentication, Profile, QuestionBank and StoryBank, for any number of  *)
(* requests, users, questions and stories.                                 *)
(*                                                                         *)
(* They share one idea.  A request commits what it computed from the row   *)
(* it read.  While no two requests overlap on a row, at most one holds it, *)
(* and what that one has read is what the table has; so its commit moves   *)
(* the row from one state that agrees with the history to the next.        *)
(***************************************************************************)
EXTENDS Authentication, Profile, QuestionBank, StoryBank, FiniteSetTheorems, TLAPS

-------------------------------------------------------------------------------
(* Authentication: what the table and the requests may hold *)

AuthRequest ==
    [kind : Kinds \cup {None}, at : {"new", "expire", "select", "commit", "end"},
     email : Emails \cup {None}, password : Passwords \cup {None},
     user : UserIds \cup {None}, copy : UserRow \cup {None}]

(* A request that has loaded a user holds the id and the row, login's not locked. *)
Held(q) ==
    /\ q.at # "commit" => q.copy = None
    /\ q.at = "commit" /\ (q.copy # None \/ q.kind \in {"login", "reset", "delete"}) =>
         /\ q.user \in UserIds /\ q.copy \in UserRow
         /\ q.kind = "login" => q.copy.locked # "active"

AuthTypeOK ==
    /\ users \in [UserIds -> UserRow \cup {None}]
    /\ wrong \in [UserIds -> Nat]
    /\ areq \in [Requests -> AuthRequest]
    /\ \A r \in Requests : Held(areq[r])

(* A row that login may have locked since it was read, and whose lock may have ended. *)
Matches(row, copy) ==
    /\ row # None
    /\ row.failed = copy.failed
    /\ row.locked = copy.locked \/ (copy.locked = "active" /\ row.locked = "over")

(* The counter and the lock of a row say how many wrong passwords there have been. *)
CountTrue(row, n) ==
    IF row = None THEN n = 0
    ELSE row.failed = n /\ (row.locked # "none" <=> n >= LockoutAttempts)

OneLoaded == \A r, q \in Requests : Loaded(r) /\ Loaded(q) => r = q

CopiesMatch ==
    \A r \in Requests : Loaded(r) /\ areq[r].copy # None =>
        Matches(users[areq[r].user], areq[r].copy)

CountsTrue == \A u \in UserIds : CountTrue(users[u], wrong[u])

AuthInv == AuthTypeOK /\ (~crossed => OneLoaded /\ CopiesMatch /\ CountsTrue)

USE AuthAssumption

LEMMA IdleType ==
    /\ Idle \in AuthRequest /\ [Idle EXCEPT !.at = "end"] \in AuthRequest
    /\ Held(Idle) /\ Held([Idle EXCEPT !.at = "end"])
  BY DEF Idle, AuthRequest, Held

LEMMA AuthInitInv == AuthInit => AuthInv
<1> SUFFICES ASSUME AuthInit PROVE AuthInv
  OBVIOUS
<1>1. PICK u \in UserIds \cup {None}, e \in Emails, p \in Passwords \cup {None},
           n \in 0..LockoutAttempts :
        \E g \in BOOLEAN :
          /\ p # None \/ g
          /\ wrong = [v \in UserIds |-> IF v = u THEN n ELSE 0]
          /\ users = [v \in UserIds |->
                 IF v # u THEN None
                 ELSE [NewUser(e, p, g) EXCEPT !.failed = n,
                          !.locked = IF n = LockoutAttempts THEN "over" ELSE "none"]]
  BY DEF AuthInit
<1>2. areq = [r \in Requests |-> Idle]
  BY DEF AuthInit
<1>0. PICK g \in BOOLEAN :
        /\ wrong = [v \in UserIds |-> IF v = u THEN n ELSE 0]
        /\ users = [v \in UserIds |->
               IF v # u THEN None
               ELSE [NewUser(e, p, g) EXCEPT !.failed = n,
                        !.locked = IF n = LockoutAttempts THEN "over" ELSE "none"]]
  BY <1>1
<1> DEFINE new == NewUser(e, p, g)
           row == [new EXCEPT !.failed = n,
                      !.locked = IF n = LockoutAttempts THEN "over" ELSE "none"]
<1>3. row \in UserRow /\ row.failed = n /\ (row.locked # "none" <=> n >= LockoutAttempts)
  <2>1. new \in UserRow
    BY DEF NewUser, UserRow
  <2> HIDE DEF new
  <2>2. row \in UserRow /\ row.failed = n
    <3>1. n \in Nat
      OBVIOUS
    <3>2. (IF n = LockoutAttempts THEN "over" ELSE "none") \in {"none", "over"}
      OBVIOUS
    <3> QED
      BY <2>1, <3>1, <3>2 DEF UserRow
  <2>3. row.locked = IF n = LockoutAttempts THEN "over" ELSE "none"
    BY <2>1 DEF UserRow
  <2> HIDE DEF row
  <2> QED
    BY <2>2, <2>3
<1> HIDE DEF row
<1>4. users = [v \in UserIds |-> IF v # u THEN None ELSE row]
  BY <1>0 DEF row
<1>5. AuthTypeOK
  BY <1>1, <1>2, <1>3, <1>4, IdleType DEF AuthTypeOK
<1>6. CountsTrue
  BY <1>1, <1>3, <1>4 DEF CountsTrue, CountTrue
<1>7. \A r \in Requests : ~Loaded(r)
  BY <1>2 DEF Loaded, Idle
<1> QED
  BY <1>5, <1>6, <1>7 DEF AuthInv, OneLoaded, CopiesMatch

(* Nothing is loaded or stored. *)
LEMMA NothingLoaded ==
    ASSUME AuthInv, UNCHANGED <<users, wrong>>, crossed => crossed',
           NEW r \in Requests, NEW q \in AuthRequest, Held(q), q.at # "commit",
           areq' = [areq EXCEPT ![r] = q]
    PROVE  AuthInv'
<1>1. AuthTypeOK'
  BY DEF AuthInv, AuthTypeOK, Held
<1>2. \A o \in Requests : Loaded(o)' => Loaded(o) /\ areq'[o] = areq[o]
  BY DEF Loaded, AuthInv, AuthTypeOK
<1>3. ~crossed' => (OneLoaded /\ CopiesMatch /\ CountsTrue)'
  BY <1>2 DEF AuthInv, OneLoaded, CopiesMatch, CountsTrue, Loaded
<1> QED
  BY <1>1, <1>3 DEF AuthInv

(* A request has read the table: if nothing is crossed it is the only one that holds a row. *)
LEMMA RowLoaded ==
    ASSUME AuthInv, UNCHANGED <<users, wrong>>,
           NEW r \in Requests, NEW q \in AuthRequest, Held(q), Read(r),
           q.copy = None \/ (q.user \in UserIds /\ q.copy = users[q.user]),
           areq' = [areq EXCEPT ![r] = q]
    PROVE  AuthInv'
<1>1. AuthTypeOK'
  BY DEF AuthInv, AuthTypeOK, Held
<1>2. ~crossed' => ~crossed /\ \A o \in Requests \ {r} : ~Loaded(o)
  BY DEF Read
<1>3. areq'[r] = q /\ \A o \in Requests \ {r} : areq'[o] = areq[o]
  BY DEF AuthInv, AuthTypeOK
<1>4. ASSUME ~crossed' PROVE (OneLoaded /\ CopiesMatch /\ CountsTrue)'
  <2>1. \A o \in Requests : Loaded(o)' => o = r
    BY <1>2, <1>3, <1>4 DEF Loaded
  <2>2. OneLoaded'
    BY <2>1 DEF OneLoaded
  <2>3. CopiesMatch'
    BY <1>3, <2>1 DEF CopiesMatch, Matches
  <2>4. CountsTrue'
    BY <1>2, <1>4 DEF AuthInv, CountsTrue
  <2> QED
    BY <2>2, <2>3, <2>4
<1> QED
  BY <1>1, <1>4 DEF AuthInv

(* The one request that holds a row writes it, and ends. *)
LEMMA RowStored ==
    ASSUME AuthInv, NEW r \in Requests, Loaded(r), End(r), crossed' = crossed,
           NEW u \in UserIds, NEW row \in UserRow \cup {None}, NEW n \in Nat,
           users' = [users EXCEPT ![u] = row], wrong' = [wrong EXCEPT ![u] = n],
           ~crossed => CountTrue(row, n)
    PROVE  AuthInv'
<1>1. AuthTypeOK'
  BY IdleType DEF AuthInv, AuthTypeOK, End
<1>2. \A o \in Requests : Loaded(o)' => o # r /\ Loaded(o)
  BY DEF AuthInv, AuthTypeOK, End, Loaded, Idle
<1>3. ASSUME ~crossed PROVE (OneLoaded /\ CopiesMatch /\ CountsTrue)'
  <2>1. \A o \in Requests : ~Loaded(o)'
    BY <1>2, <1>3 DEF AuthInv, OneLoaded
  <2>2. CountsTrue'
    BY <1>3 DEF AuthInv, AuthTypeOK, CountsTrue
  <2> QED
    BY <2>1, <2>2 DEF OneLoaded, CopiesMatch
<1> QED
  BY <1>1, <1>3 DEF AuthInv

LEMMA EndInv ==
    ASSUME AuthInv, UNCHANGED <<users, wrong>>, crossed => crossed', NEW r \in Requests, End(r)
    PROVE  AuthInv'
<1> DEFINE q == [Idle EXCEPT !.at = "end"]
<1>1. q \in AuthRequest /\ Held(q) /\ q.at # "commit"
  BY IdleType DEF Idle
<1>2. areq' = [areq EXCEPT ![r] = q]
  BY DEF End
<1> HIDE DEF q
<1> QED
  BY <1>1, <1>2, NothingLoaded

LEMMA GoToType ==
    ASSUME AuthTypeOK, NEW r \in Requests, NEW at \in {"select", "commit"}, GoTo(r, at),
           areq[r].at # "commit",
           at = "commit" => areq[r].kind \in {"register", "google"}
    PROVE  \E q \in AuthRequest :
             Held(q) /\ q.at = at /\ q.copy = None /\ areq' = [areq EXCEPT ![r] = q]
<1> DEFINE q == [areq[r] EXCEPT !.at = at]
<1>1. areq[r] \in AuthRequest /\ areq[r].copy = None
  BY DEF AuthTypeOK, Held
<1>2. q \in AuthRequest /\ q.at = at /\ q.copy = None /\ q.kind = areq[r].kind
  BY <1>1 DEF AuthRequest
<1>3. Held(q)
  BY <1>2 DEF Held
<1>4. areq' = [areq EXCEPT ![r] = q]
  BY DEF GoTo
<1> HIDE DEF q
<1> QED
  BY <1>2, <1>3, <1>4

LEMMA ArriveInv ==
    ASSUME AuthInv, NEW r \in Requests, NEW kind \in Kinds, NEW email \in Emails \cup {None},
           NEW password \in Passwords \cup {None}, Arrive(r, Request(kind, email, password))
    PROVE  AuthInv'
<1> DEFINE q == Request(kind, email, password)
<1>1. /\ q \in AuthRequest /\ q.at = "select" /\ Held(q)
      /\ [q EXCEPT !.at = "expire"] \in AuthRequest /\ Held([q EXCEPT !.at = "expire"])
      /\ [q EXCEPT !.at = "select"] = q /\ [q EXCEPT !.at = "expire"].at = "expire"
  BY DEF Request, Idle, AuthRequest, Held
<1> HIDE DEF q
<1>2. UNCHANGED <<users, wrong, crossed>>
  BY DEF Arrive
<1>3. \/ areq' = [areq EXCEPT ![r] = q] \/ End(r)
      \/ areq' = [areq EXCEPT ![r] = [q EXCEPT !.at = "expire"]]
  BY <1>1 DEF Arrive, q
<1> QED
  BY <1>1, <1>2, <1>3, EndInv, NothingLoaded

LEMMA ExpiryInv ==
    ASSUME AuthInv, NEW r \in Requests, SetExpiry(r) \/ ExpiryFails(r)
    PROVE  AuthInv'
<1>1. UNCHANGED <<users, wrong, crossed>> /\ GoTo(r, "select") /\ areq[r].at = "expire"
  BY DEF SetExpiry, ExpiryFails
<1>2. PICK q \in AuthRequest : Held(q) /\ q.at = "select" /\ areq' = [areq EXCEPT ![r] = q]
  BY <1>1, GoToType DEF AuthInv
<1> QED
  BY <1>1, <1>2, NothingLoaded

LEMMA ReadMonotone == ASSUME NEW r \in Requests, Read(r) PROVE crossed => crossed'
  BY DEF Read

(* A request that found no row to load goes on to an INSERT. *)
LEMMA GoToInsertInv ==
    ASSUME AuthInv, UNCHANGED <<users, wrong>>, NEW r \in Requests, Read(r),
           areq[r].at = "select", areq[r].kind \in {"register", "google"}, GoTo(r, "commit")
    PROVE  AuthInv'
<1>1. PICK q \in AuthRequest : Held(q) /\ q.copy = None /\ areq' = [areq EXCEPT ![r] = q]
  BY GoToType DEF AuthInv
<1> QED
  BY <1>1, RowLoaded

LEMMA RegisterSelectInv ==
    ASSUME AuthInv, NEW r \in Requests, RegisterSelect(r)
    PROVE  AuthInv'
  BY EndInv, GoToInsertInv, ReadMonotone DEF RegisterSelect

LEMMA InsertInv ==
    ASSUME AuthInv, NEW r \in Requests, Insert(r)
    PROVE  AuthInv'
<1>1. UNCHANGED <<wrong, crossed>> /\ End(r) /\ Loaded(r)
  BY DEF Insert, Loaded
<1>2. CASE UNCHANGED users
  BY <1>1, <1>2, EndInv
<1>3. CASE ~ UNCHANGED users
  <2> DEFINE row == NewUser(areq[r].email, areq[r].password, areq[r].kind = "google")
  <2>1. PICK u \in UserIds \ Live : users' = [users EXCEPT ![u] = row]
    BY <1>3 DEF Insert
  <2>2. row \in UserRow /\ row.failed = 0 /\ row.locked = "none"
    BY DEF NewUser, UserRow, AuthInv, AuthTypeOK, AuthRequest
  <2> HIDE DEF row
  <2>3. users[u] = None /\ wrong[u] \in Nat /\ wrong' = [wrong EXCEPT ![u] = wrong[u]]
    BY <1>1, <2>1 DEF Live, AuthInv, AuthTypeOK
  <2>4. ~crossed => wrong[u] = 0
    BY <2>3 DEF AuthInv, CountsTrue, CountTrue
  <2>5. ~crossed => CountTrue(row, wrong[u])
    BY <2>2, <2>4 DEF CountTrue
  <2> QED
    BY <1>1, <2>1, <2>2, <2>3, <2>5, RowStored
<1> QED
  BY <1>2, <1>3

(* The row of user u is loaded. *)
LEMMA LoadInv ==
    ASSUME AuthInv, UNCHANGED <<users, wrong>>, NEW r \in Requests, Read(r),
           NEW u \in UserIds, users[u] # None,
           areq[r].kind = "login" => users[u].locked # "active",
           areq' = [areq EXCEPT ![r].at = "commit", ![r].user = u, ![r].copy = users[u]]
    PROVE  AuthInv'
<1> DEFINE q == [areq[r] EXCEPT !.at = "commit", !.user = u, !.copy = users[u]]
<1>1. areq[r] \in AuthRequest /\ users[u] \in UserRow
  BY DEF AuthInv, AuthTypeOK
<1>2. /\ q \in AuthRequest /\ q.kind = areq[r].kind /\ q.at = "commit"
      /\ q.user = u /\ q.copy = users[u]
  BY <1>1 DEF AuthRequest
<1>3. areq' = [areq EXCEPT ![r] = q]
  OBVIOUS
<1> HIDE DEF q
<1>4. Held(q)
  BY <1>1, <1>2 DEF Held
<1> QED
  BY <1>2, <1>3, <1>4, RowLoaded

LEMMA LoginSelectInv ==
    ASSUME AuthInv, NEW r \in Requests, LoginSelect(r)
    PROVE  AuthInv'
<1>1. UNCHANGED <<users, wrong>> /\ Read(r)
  BY DEF LoginSelect
<1>2. CASE End(r)
  BY <1>1, <1>2, EndInv, ReadMonotone
<1>3. CASE ~End(r)
  <2>1. PICK u \in Live :
          /\ users[u].locked # "active"
          /\ areq' = [areq EXCEPT ![r].at = "commit", ![r].user = u, ![r].copy = users[u]]
    BY <1>3 DEF LoginSelect
  <2> QED
    BY <1>1, <2>1, LoadInv DEF Live
<1> QED
  BY <1>2, <1>3

LEMMA GoogleSelectInv ==
    ASSUME AuthInv, NEW r \in Requests, GoogleSelect(r)
    PROVE  AuthInv'
<1>1. UNCHANGED <<users, wrong>> /\ areq[r].kind = "google" /\ areq[r].at = "select"
  BY DEF GoogleSelect
<1>2. CASE End(r)
  <2>1. crossed => crossed'
    BY ReadMonotone DEF GoogleSelect
  <2> QED
    BY <1>1, <1>2, <2>1, EndInv
<1>3. CASE ~End(r)
  <2>1. Read(r)
    BY <1>3 DEF GoogleSelect
  <2>2. CASE GoTo(r, "commit")
    BY <1>1, <2>1, <2>2, GoToInsertInv
  <2>3. CASE ~GoTo(r, "commit")
    <3>1. PICK u \in UserIds :
            /\ {v \in Live : users[v].google \/ users[v].email = areq[r].email} = {u}
            /\ areq' = [areq EXCEPT ![r].at = "commit", ![r].user = u, ![r].copy = users[u]]
      BY <1>3, <2>3 DEF GoogleSelect
    <3>2. u \in Live
      BY <3>1
    <3> QED
      BY <1>1, <2>1, <3>1, <3>2, LoadInv DEF Live
  <2> QED
    BY <2>2, <2>3
<1> QED
  BY <1>2, <1>3

LEMMA TokenSelectInv ==
    ASSUME AuthInv, NEW r \in Requests, TokenSelect(r)
    PROVE  AuthInv'
<1>1. UNCHANGED <<users, wrong>> /\ Read(r)
  BY DEF TokenSelect
<1>2. CASE End(r)
  BY <1>1, <1>2, EndInv, ReadMonotone
<1>3. CASE ~End(r)
  <2>1. PICK u \in UserIds :
          /\ users[u] # None /\ areq[r].kind \in {"reset", "delete"}
          /\ areq' = [areq EXCEPT ![r].at = "commit", ![r].user = u, ![r].copy = users[u]]
    BY <1>3 DEF TokenSelect
  <2> QED
    BY <1>1, <2>1, LoadInv
<1> QED
  BY <1>2, <1>3

(* SQLAlchemy's UPDATE of a row that is as it was read, but for the end of its lock. *)
LEMMA UpdatedRow ==
    ASSUME NEW row \in UserRow, NEW copy \in UserRow, NEW new \in UserRow
    PROVE  /\ Updated(row, copy, new) \in UserRow
           /\ Matches(row, copy) =>
                /\ Updated(row, copy, new).failed = new.failed
                /\ Updated(row, copy, new).locked =
                     IF new.locked # copy.locked THEN new.locked ELSE row.locked
  BY DEF UserRow, Updated, Matches

(* A request stores what it computed from the row it holds. *)
LEMMA StoreInv ==
    ASSUME AuthInv, NEW r \in Requests, Loaded(r), End(r), crossed' = crossed,
           NEW u \in UserIds, u = areq[r].user, areq[r].copy \in UserRow,
           NEW new \in UserRow, Store(r, new),
           NEW n \in Nat, wrong' = [wrong EXCEPT ![u] = n],
           ASSUME ~crossed, users[u] \in UserRow, Matches(users[u], areq[r].copy),
                  CountTrue(users[u], wrong[u])
           PROVE  CountTrue(Updated(users[u], areq[r].copy, new), n)
    PROVE  AuthInv'
<1> DEFINE row == IF users[u] = None THEN None ELSE Updated(users[u], areq[r].copy, new)
<1>1. users[u] \in UserRow \cup {None} /\ areq[r].copy # None
  BY DEF AuthInv, AuthTypeOK
<1>2. row \in UserRow \cup {None}
  BY <1>1, UpdatedRow
<1>3. users' = [users EXCEPT ![u] = row]
  BY DEF Store
<1>4. ~crossed => CountTrue(row, n)
  <2> SUFFICES ASSUME ~crossed PROVE CountTrue(row, n)
    OBVIOUS
  <2>1. Matches(users[u], areq[r].copy) /\ CountTrue(users[u], wrong[u])
    BY <1>1 DEF AuthInv, CopiesMatch, CountsTrue
  <2>2. users[u] \in UserRow
    BY <1>1, <2>1 DEF Matches
  <2> QED
    BY <2>1, <2>2
<1> HIDE DEF row
<1> QED
  BY <1>2, <1>3, <1>4, RowStored

LEMMA LoginCommitInv ==
    ASSUME AuthInv, NEW r \in Requests, LoginCommit(r)
    PROVE  AuthInv'
<1> DEFINE u == areq[r].user
           copy == areq[r].copy
           right == copy.password # None /\ copy.password = areq[r].password
           new == IF right THEN LoginSucceeded(copy) ELSE LoginFailed(copy)
           n == IF right THEN 0 ELSE wrong[u] + 1
<1>1. Loaded(r) /\ End(r) /\ crossed' = crossed
  BY DEF LoginCommit, Loaded
<1>2. u \in UserIds /\ copy \in UserRow /\ copy.locked # "active"
  BY DEF AuthInv, AuthTypeOK, Held, LoginCommit
<1>3. /\ new \in UserRow
      /\ new.failed = IF right THEN 0 ELSE copy.failed + 1
      /\ new.locked = IF right THEN "none"
                      ELSE IF copy.failed + 1 >= LockoutAttempts THEN "active" ELSE copy.locked
  <2>1. /\ LoginSucceeded(copy) \in UserRow
        /\ LoginSucceeded(copy).failed = 0 /\ LoginSucceeded(copy).locked = "none"
    BY <1>2 DEF UserRow, LoginSucceeded
  <2>2. /\ LoginFailed(copy) \in UserRow
        /\ LoginFailed(copy).failed = copy.failed + 1
        /\ LoginFailed(copy).locked =
             IF copy.failed + 1 >= LockoutAttempts THEN "active" ELSE copy.locked
    <3> DEFINE lock == IF copy.failed + 1 >= LockoutAttempts THEN "active" ELSE copy.locked
               bumped == [copy EXCEPT !.failed = copy.failed + 1, !.locked = lock]
    <3>1. lock \in {"none", "active", "over"}
      BY <1>2 DEF UserRow
    <3>2. LoginFailed(copy) = bumped
      BY <1>2 DEF UserRow, LoginFailed
    <3> HIDE DEF lock
    <3>3. copy.failed + 1 \in Nat
      BY <1>2 DEF UserRow
    <3>4. bumped \in UserRow /\ bumped.failed = copy.failed + 1 /\ bumped.locked = lock
      BY <1>2, <3>1, <3>3 DEF UserRow
    <3> QED
      BY <3>2, <3>4 DEF lock
  <2> QED
    BY <2>1, <2>2
<1>4. CASE RowGone(r, new)
  BY <1>1, <1>4, EndInv DEF LoginCommit
<1>5. CASE ~RowGone(r, new)
  <2>1. Store(r, new) /\ wrong' = [wrong EXCEPT ![u] = n]
    <3>1. Store(r, new) /\ wrong' = [wrong EXCEPT ![u] = IF right THEN 0 ELSE @ + 1]
      BY <1>5 DEF LoginCommit
    <3> QED
      BY <3>1
  <2>2. wrong[u] \in Nat /\ n \in Nat
    BY <1>2 DEF AuthInv, AuthTypeOK
  <2>3. ASSUME users[u] \in UserRow, Matches(users[u], copy), CountTrue(users[u], wrong[u])
        PROVE  CountTrue(Updated(users[u], copy, new), n)
    <3>1. /\ Updated(users[u], copy, new).failed = new.failed
          /\ Updated(users[u], copy, new).locked =
               IF new.locked # copy.locked THEN new.locked ELSE users[u].locked
          /\ Updated(users[u], copy, new) # None
      BY <1>2, <1>3, <2>3, UpdatedRow
    <3>2. /\ users[u].failed = wrong[u] /\ copy.failed = wrong[u]
          /\ users[u].locked = copy.locked
          /\ users[u].locked # "none" <=> wrong[u] >= LockoutAttempts
      BY <1>2, <2>3 DEF Matches, CountTrue
    <3>3. Updated(users[u], copy, new).failed = n
      BY <1>3, <3>1, <3>2
    <3>4. Updated(users[u], copy, new).locked # "none" <=> n >= LockoutAttempts
      <4> HIDE DEF new
      <4>1. CASE right
        BY <4>1, <1>3, <3>1, <3>2
      <4>2. CASE ~right
        BY <4>2, <1>3, <2>2, <3>1, <3>2
      <4> QED
        BY <4>1, <4>2
    <3> QED
      BY <3>1, <3>3, <3>4 DEF CountTrue
  <2> HIDE DEF new, n
  <2> QED
    BY <1>1, <1>2, <1>3, <2>1, <2>2, <2>3, StoreInv
<1> QED
  BY <1>4, <1>5

LEMMA GoogleLinkInv ==
    ASSUME AuthInv, NEW r \in Requests, GoogleLink(r)
    PROVE  AuthInv'
<1> DEFINE u == areq[r].user
           copy == areq[r].copy
           new == [copy EXCEPT !.google = TRUE]
<1>1. Loaded(r) /\ End(r) /\ UNCHANGED <<wrong, crossed>> /\ copy # None
  BY DEF GoogleLink, Loaded
<1>2. u \in UserIds /\ copy \in UserRow
  BY <1>1 DEF AuthInv, AuthTypeOK, Held, Loaded
<1>3. new \in UserRow /\ new.failed = copy.failed /\ new.locked = copy.locked
  BY <1>2 DEF UserRow
<1>4. CASE UNCHANGED users
  BY <1>1, <1>4, EndInv
<1>5. CASE Store(r, new)
  <2>1. wrong[u] \in Nat /\ wrong' = [wrong EXCEPT ![u] = wrong[u]]
    BY <1>1, <1>2 DEF AuthInv, AuthTypeOK
  <2>2. ASSUME users[u] \in UserRow, Matches(users[u], copy), CountTrue(users[u], wrong[u])
        PROVE  CountTrue(Updated(users[u], copy, new), wrong[u])
    <3> HIDE DEF new
    <3>1. /\ Updated(users[u], copy, new).failed = users[u].failed
          /\ Updated(users[u], copy, new).locked = users[u].locked
          /\ Updated(users[u], copy, new) # None
      BY <1>2, <1>3, <2>2, UpdatedRow DEF Matches
    <3> QED
      BY <2>2, <3>1 DEF CountTrue
  <2> HIDE DEF new
  <2> QED
    BY <1>1, <1>2, <1>3, <1>5, <2>1, <2>2, StoreInv
<1> QED
  BY <1>4, <1>5 DEF GoogleLink

(* The reset clears the counter and the lock, and always writes the password. *)
LEMMA ResetCommitInv ==
    ASSUME AuthInv, NEW r \in Requests, ResetCommit(r)
    PROVE  AuthInv'
<1> DEFINE u == areq[r].user
           copy == areq[r].copy
           new == LoginSucceeded([copy EXCEPT !.password = areq[r].password])
           row == [Updated(users[u], copy, new) EXCEPT !.password = new.password]
<1>1. Loaded(r) /\ crossed' = crossed /\ End(r)
  BY DEF ResetCommit, Loaded
<1>2. u \in UserIds /\ copy \in UserRow
  BY DEF AuthInv, AuthTypeOK, Held, ResetCommit
<1>3. new \in UserRow /\ new.failed = 0 /\ new.locked = "none"
  <2>1. areq[r].password \in Passwords \cup {None}
    BY DEF AuthInv, AuthTypeOK, AuthRequest
  <2> QED
    BY <1>2, <2>1 DEF UserRow, LoginSucceeded
<1>4. CASE users[u] = None
  <2>1. UNCHANGED <<users, wrong>>
    BY <1>4 DEF ResetCommit
  <2> QED
    BY <1>1, <2>1, EndInv
<1>5. CASE users[u] # None
  <2>1. users' = [users EXCEPT ![u] = row] /\ wrong' = [wrong EXCEPT ![u] = 0]
    BY <1>5 DEF ResetCommit
  <2>2. users[u] \in UserRow
    BY <1>2, <1>5 DEF AuthInv, AuthTypeOK
  <2>3. Updated(users[u], copy, new) \in UserRow
    BY <1>2, <1>3, <2>2, UpdatedRow
  <2>4. /\ row \in UserRow
        /\ row.failed = Updated(users[u], copy, new).failed
        /\ row.locked = Updated(users[u], copy, new).locked
    <3> HIDE DEF new
    <3>1. new.password \in Passwords \cup {None}
      BY <1>3 DEF UserRow
    <3> QED
      BY <2>3, <3>1 DEF UserRow
  <2>5. ~crossed => CountTrue(row, 0)
    <3> SUFFICES ASSUME ~crossed PROVE CountTrue(row, 0)
      OBVIOUS
    <3>1. Matches(users[u], copy)
      BY <1>1, <1>2 DEF AuthInv, CopiesMatch
    <3>2. /\ Updated(users[u], copy, new).failed = 0
          /\ Updated(users[u], copy, new).locked = "none"
      <4> HIDE DEF new
      <4>1. /\ Updated(users[u], copy, new).failed = new.failed
            /\ Updated(users[u], copy, new).locked =
                 IF new.locked # copy.locked THEN new.locked ELSE users[u].locked
        BY <1>2, <1>3, <2>2, <3>1, UpdatedRow
      <4> QED
        BY <1>3, <3>1, <4>1 DEF Matches
    <3> HIDE DEF row
    <3> QED
      BY <2>4, <3>2 DEF CountTrue
  <2> HIDE DEF row
  <2> QED
    BY <1>1, <1>2, <2>1, <2>4, <2>5, RowStored
<1> QED
  BY <1>4, <1>5

LEMMA DeleteCommitInv ==
    ASSUME AuthInv, NEW r \in Requests, DeleteCommit(r)
    PROVE  AuthInv'
<1> DEFINE u == areq[r].user
<1>1. Loaded(r) /\ End(r) /\ crossed' = crossed
  BY DEF DeleteCommit, Loaded
<1>2. u \in UserIds
  BY DEF AuthInv, AuthTypeOK, Held, DeleteCommit
<1>3. users' = [users EXCEPT ![u] = None] /\ wrong' = [wrong EXCEPT ![u] = 0]
  BY DEF DeleteCommit
<1>4. CountTrue(None, 0)
  BY DEF CountTrue
<1> QED
  BY <1>1, <1>2, <1>3, <1>4, RowStored

LEMMA LockEndsInv ==
    ASSUME AuthInv, NEW u \in UserIds, LockEnds(u)
    PROVE  AuthInv'
<1> DEFINE row == [users[u] EXCEPT !.locked = "over"]
<1>1. /\ users[u] \in UserRow /\ users[u].locked = "active"
      /\ users' = [users EXCEPT ![u] = row] /\ UNCHANGED <<areq, wrong, crossed>>
  BY DEF LockEnds, AuthInv, AuthTypeOK
<1>2. row \in UserRow /\ row.failed = users[u].failed /\ row.locked = "over" /\ row # None
  BY <1>1 DEF UserRow
<1> HIDE DEF row
<1>3. AuthTypeOK'
  BY <1>1, <1>2 DEF AuthInv, AuthTypeOK, Held
<1>4. ASSUME ~crossed PROVE (OneLoaded /\ CopiesMatch /\ CountsTrue)'
  <2>1. OneLoaded'
    BY <1>1, <1>4 DEF AuthInv, OneLoaded, Loaded
  <2>2. \A copy : Matches(users[u], copy) => Matches(row, copy)
    BY <1>1, <1>2 DEF Matches
  <2>3. \A v \in UserIds : users'[v] = IF v = u THEN row ELSE users[v]
    BY <1>1 DEF AuthInv, AuthTypeOK
  <2>4. CopiesMatch'
    <3> SUFFICES ASSUME NEW r \in Requests, Loaded(r), areq[r].copy # None
                 PROVE  Matches(users'[areq[r].user], areq[r].copy)
      BY <1>1 DEF CopiesMatch, Loaded
    <3>1. areq[r].user \in UserIds /\ Matches(users[areq[r].user], areq[r].copy)
      BY <1>4 DEF AuthInv, AuthTypeOK, Held, CopiesMatch, Loaded
    <3> QED
      BY <2>2, <2>3, <3>1
  <2>5. CountsTrue'
    BY <1>1, <1>2, <1>4, <2>3 DEF AuthInv, CountsTrue, CountTrue
  <2> QED
    BY <2>1, <2>4, <2>5
<1> QED
  BY <1>1, <1>3, <1>4 DEF AuthInv

LEMMA AuthNextInv == AuthInv /\ [AuthNext]_authVars => AuthInv'
<1> SUFFICES ASSUME AuthInv, [AuthNext]_authVars PROVE AuthInv'
  OBVIOUS
<1>1. ASSUME NEW r \in Requests, NEW kind \in Kinds,
             NEW email \in IF kind \in DOMAIN TokenUse THEN {None} ELSE Emails,
             NEW password \in IF kind \in {"register", "login", "reset"} THEN Passwords
                              ELSE {None},
             Arrive(r, Request(kind, email, password))
      PROVE  AuthInv'
  BY <1>1, ArriveInv
<1>2. ASSUME NEW r \in Requests,
             \/ SetExpiry(r) \/ ExpiryFails(r)
             \/ RegisterSelect(r) \/ Insert(r)
             \/ LoginSelect(r) \/ LoginCommit(r)
             \/ GoogleSelect(r) \/ GoogleLink(r)
             \/ ForgotSelect(r) \/ TokenSelect(r) \/ ResetCommit(r) \/ DeleteCommit(r)
      PROVE  AuthInv'
  <2>1. CASE ForgotSelect(r)
    BY <2>1, EndInv, ReadMonotone DEF ForgotSelect
  <2> QED
    BY <1>2, <2>1, ExpiryInv, RegisterSelectInv, InsertInv, LoginSelectInv, LoginCommitInv,
       GoogleSelectInv, GoogleLinkInv, TokenSelectInv, ResetCommitInv, DeleteCommitInv
<1>3. CASE WindowEnds \/ UNCHANGED authVars
  BY <1>3 DEF WindowEnds, authVars, AuthInv, AuthTypeOK, OneLoaded, CopiesMatch, CountsTrue, Loaded
<1>4. CASE \E u \in UserIds : LockEnds(u)
  BY <1>4, LockEndsInv
<1> QED
  BY <1>1, <1>2, <1>3, <1>4 DEF AuthNext

(* A user whose requests do not overlap is locked out by exactly LockoutAttempts wrong
   passwords since the last success or reset, and again by each one after a lock has ended
   (login, auth.py). *)
THEOREM LockoutHolds == AuthSpec => []LockoutBites
<1>1. AuthInv => LockoutBites
  BY DEF AuthInv, AuthTypeOK, CountsTrue, CountTrue, LockoutBites, Live
<1> QED
  BY <1>1, AuthInitInv, AuthNextInv, PTL DEF AuthSpec

-------------------------------------------------------------------------------
(* Authentication: the rate limit *)

(* The counter is at least the number of requests it let through, the expiry is set once at
   most, and only by the request that made the counter. *)
WindowCounts ==
    /\ window \in [count : Nat, expiry : BOOLEAN] /\ passed \in [all : Nat, open : Nat]
    /\ expiryLost \in BOOLEAN
    /\ passed.all <= window.count + passed.open
    /\ window.expiry => window.count > 0 /\ ~expiryLost
    /\ \A r, o \in Requests : areq[r].at = "expire" /\ areq[o].at = "expire" => r = o
    /\ \A r \in Requests : areq[r].at = "expire" => ~expiryLost

WindowInv ==
    /\ areq \in [Requests -> AuthRequest]
    /\ WindowCounts
    /\ RateWindowHolds

(* Of the requests on their way only those past the rate limit move. *)
LEMMA HandlersKeepWindow ==
    ASSUME NEW r \in Requests, areq \in [Requests -> AuthRequest],
           \/ RegisterSelect(r) \/ Insert(r) \/ LoginSelect(r) \/ LoginCommit(r)
           \/ GoogleSelect(r) \/ GoogleLink(r)
           \/ ForgotSelect(r) \/ TokenSelect(r) \/ ResetCommit(r) \/ DeleteCommit(r)
    PROVE  /\ UNCHANGED <<window, passed, expiryLost>>
           /\ \A q \in Requests : areq'[q].at = "expire" <=> areq[q].at = "expire"
<1> DEFINE Takes(u) == areq' = [areq EXCEPT ![r].at = "commit", ![r].user = u, ![r].copy = users[u]]
<1>1. UNCHANGED <<window, passed, expiryLost>>
  BY DEF RegisterSelect, Insert, LoginSelect, LoginCommit, GoogleSelect, GoogleLink,
         ForgotSelect, TokenSelect, ResetCommit, DeleteCommit
<1>2. areq[r].at # "expire"
  BY DEF RegisterSelect, Insert, LoginSelect, LoginCommit, GoogleSelect, GoogleLink,
         ForgotSelect, TokenSelect, ResetCommit, DeleteCommit
<1>3. End(r) \/ GoTo(r, "commit") \/ \E u \in UserIds : Takes(u)
  <2>1. CASE RegisterSelect(r) \/ Insert(r) \/ LoginSelect(r)
    BY <2>1 DEF RegisterSelect, Insert, LoginSelect, Live
  <2>2. CASE LoginCommit(r) \/ GoogleLink(r) \/ ResetCommit(r) \/ DeleteCommit(r)
    BY <2>2 DEF LoginCommit, GoogleLink, ResetCommit, DeleteCommit
  <2>3. CASE GoogleSelect(r)
    BY <2>3 DEF GoogleSelect
  <2>4. CASE ForgotSelect(r) \/ TokenSelect(r)
    BY <2>4 DEF ForgotSelect, TokenSelect
  <2> QED
    BY <2>1, <2>2, <2>3, <2>4
<1>4. /\ areq'[r].at # "expire"
      /\ \A q \in Requests \ {r} : areq'[q] = areq[q]
  <2>1. CASE End(r)
    BY <2>1 DEF End, Idle
  <2>2. CASE GoTo(r, "commit")
    BY <2>2 DEF GoTo, AuthRequest
  <2>3. CASE \E u \in UserIds : Takes(u)
    BY <2>3 DEF AuthRequest
  <2> QED
    BY <1>3, <2>1, <2>2, <2>3
<1> QED
  BY <1>1, <1>2, <1>4

LEMMA ArriveWindow ==
    ASSUME WindowInv, NEW r \in Requests, NEW request \in AuthRequest, Arrive(r, request)
    PROVE  WindowCounts' /\ RateWindowHolds'
<1> DEFINE count == window.count + 1
           counted == [window EXCEPT !.count = count]
<1>1. /\ areq[r].at = "new" /\ r \in DOMAIN areq
      /\ window.count \in Nat /\ window.expiry \in BOOLEAN
      /\ passed.all \in Nat /\ passed.open \in Nat
      /\ counted \in [count : Nat, expiry : BOOLEAN]
      /\ counted.count = count /\ counted.expiry = window.expiry
      /\ [passed EXCEPT !.all = @ + 1] \in [all : Nat, open : Nat]
  BY DEF Arrive, WindowInv, WindowCounts
<1>2. CASE /\ areq' = [areq EXCEPT ![r] = [request EXCEPT !.at = "select"]]
           /\ \/ UNCHANGED passed
              \/ passed' = [all |-> passed.all + 1, open |-> passed.open + 1]
           /\ UNCHANGED <<window, expiryLost>>
  <2>1. \A q \in Requests : areq'[q].at = "expire" <=> areq[q].at = "expire"
    BY <1>1, <1>2 DEF AuthRequest
  <2> QED
    BY <1>1, <1>2, <2>1 DEF WindowInv, WindowCounts, RateWindowHolds, AuthAssumption
<1>3. CASE /\ areq' = [areq EXCEPT ![r] = [request EXCEPT !.at = "select"]]
           /\ passed' = [all |-> passed.all + 1, open |-> passed.open + 1]
           /\ window' = counted
           /\ expiryLost' = (expiryLost \/ count = 1)
  <2>1. \A q \in Requests : areq'[q].at = "expire" <=> areq[q].at = "expire"
    BY <1>1, <1>3 DEF AuthRequest
  <2>2. \A q \in Requests : areq[q].at = "expire" => window.count > 0
    BY <1>1 DEF WindowInv, RateWindowHolds
  <2>3. WindowCounts'
    BY <1>1, <1>3, <2>1, <2>2 DEF WindowInv, WindowCounts
  <2>4. passed'.all <= RateLimit + passed'.open
    BY <1>1, <1>3, AuthAssumption DEF WindowInv, RateWindowHolds
  <2>5. window'.count > 0 /\ window'.expiry = window.expiry
    BY <1>1, <1>3
  <2>6. CASE count = 1
    <3>1. window.count = 0
      BY <1>1, <2>6
    <3>2. ~window.expiry
      BY <3>1 DEF WindowInv, WindowCounts
    <3>3. expiryLost'
      BY <1>3, <2>6
    <3> QED
      BY <2>3, <2>4, <2>5, <3>2, <3>3 DEF RateWindowHolds
  <2>7. CASE count # 1
    <3>1. window.count > 0 /\ expiryLost' = expiryLost
      BY <1>1, <1>3, <2>7 DEF WindowInv, WindowCounts
    <3> QED
      BY <2>1, <2>3, <2>4, <2>5, <3>1 DEF WindowInv, RateWindowHolds
  <2> QED
    BY <2>3, <2>6, <2>7
<1>4. CASE /\ count > RateLimit /\ End(r) /\ UNCHANGED <<passed, expiryLost>>
           /\ window' = counted
  <2>1. \A q \in Requests : areq'[q].at = "expire" <=> areq[q].at = "expire"
    BY <1>1, <1>4 DEF End, Idle
  <2>2. window.count > 0
    BY <1>1, <1>4 DEF AuthAssumption
  <2> QED
    BY <1>1, <1>4, <2>1, <2>2, AuthAssumption DEF WindowInv, WindowCounts, RateWindowHolds
<1>5. CASE /\ count <= RateLimit
           /\ areq' = [areq EXCEPT ![r] = [request EXCEPT
                  !.at = IF count = 1 THEN "expire" ELSE "select"]]
           /\ passed' = [passed EXCEPT !.all = @ + 1]
           /\ window' = counted /\ UNCHANGED expiryLost
  <2>1. \A q \in Requests : areq'[q].at = "expire" <=>
           areq[q].at = "expire" \/ (q = r /\ count = 1)
    BY <1>1, <1>5 DEF AuthRequest
  <2>2. count = 1 => ~expiryLost /\ \A q \in Requests : areq[q].at # "expire"
    BY <1>1 DEF WindowInv, RateWindowHolds
  <2>3. passed'.all = passed.all + 1 /\ passed'.open = passed.open
    BY <1>5 DEF WindowInv, WindowCounts
  <2>4. WindowCounts'
    BY <1>1, <1>5, <2>1, <2>2, <2>3 DEF WindowInv, WindowCounts
  <2>5. RateWindowHolds'
    BY <1>1, <1>5, <2>1, <2>2, <2>3 DEF WindowInv, WindowCounts, RateWindowHolds
  <2> QED
    BY <2>4, <2>5
<1> QED
  BY <1>1, <1>2, <1>3, <1>4, <1>5 DEF Arrive

LEMMA ExpiryWindow ==
    ASSUME WindowInv, NEW r \in Requests, SetExpiry(r) \/ ExpiryFails(r)
    PROVE  WindowCounts' /\ RateWindowHolds'
<1>1. /\ areq[r].at = "expire" /\ UNCHANGED passed
      /\ \/ expiryLost' = TRUE /\ UNCHANGED window
         \/ window' = [window EXCEPT !.expiry = TRUE] /\ UNCHANGED expiryLost
  BY DEF SetExpiry, ExpiryFails
<1>2. \A q \in Requests : areq'[q].at # "expire"
  BY DEF SetExpiry, ExpiryFails, GoTo, WindowInv, WindowCounts, AuthRequest
<1>3. window.count > 0 /\ ~window.expiry /\ ~expiryLost
  BY <1>1 DEF WindowInv, WindowCounts, RateWindowHolds
<1>4. WindowCounts'
  BY <1>1, <1>2, <1>3 DEF WindowInv, WindowCounts
<1>5. RateWindowHolds'
  BY <1>1, <1>2, <1>3 DEF WindowInv, WindowCounts, RateWindowHolds
<1> QED
  BY <1>4, <1>5

LEMMA WindowNext == WindowInv /\ AuthInv' /\ [AuthNext]_authVars => WindowInv'
<1> SUFFICES ASSUME WindowInv, AuthInv', [AuthNext]_authVars
             PROVE  WindowCounts' /\ RateWindowHolds'
  BY DEF AuthInv, AuthTypeOK, WindowInv
<1> DEFINE Good == WindowCounts' /\ RateWindowHolds'
<1>1. ASSUME NEW r \in Requests, NEW kind \in Kinds,
             NEW email \in IF kind \in DOMAIN TokenUse THEN {None} ELSE Emails,
             NEW password \in IF kind \in {"register", "login", "reset"} THEN Passwords
                              ELSE {None},
             Arrive(r, Request(kind, email, password))
      PROVE  Good
  <2>1. Request(kind, email, password) \in AuthRequest
    BY DEF Request, Idle, AuthRequest
  <2> QED
    BY <1>1, <2>1, ArriveWindow
<1>2. ASSUME NEW r \in Requests, SetExpiry(r) \/ ExpiryFails(r)
      PROVE  Good
  BY <1>2, ExpiryWindow
<1>3. ASSUME NEW r \in Requests,
             \/ RegisterSelect(r) \/ Insert(r) \/ LoginSelect(r) \/ LoginCommit(r)
             \/ GoogleSelect(r) \/ GoogleLink(r)
             \/ ForgotSelect(r) \/ TokenSelect(r) \/ ResetCommit(r) \/ DeleteCommit(r)
      PROVE  Good
  <2>1. /\ UNCHANGED <<window, passed, expiryLost>>
        /\ \A q \in Requests : areq'[q].at = "expire" <=> areq[q].at = "expire"
    BY <1>3, HandlersKeepWindow DEF WindowInv
  <2> QED
    BY <2>1 DEF WindowInv, WindowCounts, RateWindowHolds
<1>4. CASE WindowEnds
  <2>1. ~expiryLost /\ \A q \in Requests : areq[q].at # "expire"
    BY <1>4 DEF WindowEnds, WindowInv, WindowCounts, RateWindowHolds
  <2> QED
    BY <1>4, <2>1, AuthAssumption DEF WindowEnds, WindowInv, WindowCounts, RateWindowHolds
<1>5. CASE UNCHANGED authVars \/ \E u \in UserIds : LockEnds(u)
  BY <1>5 DEF authVars, LockEnds, WindowInv, WindowCounts, RateWindowHolds
<1> QED
  BY <1>1, <1>2, <1>3, <1>4, <1>5 DEF AuthNext

(* A request let through beyond RateLimit in a window is one whose own INCR raised, and a
   counter stands without an expiry only while its EXPIRE is about to be sent, or if Redis
   failed at the calls that make it (auth_rate_limit, middleware/rate_limit.py). *)
THEOREM RateLimitHolds == AuthSpec => []RateWindowHolds
<1>1. AuthInit => WindowInv
  <2> SUFFICES ASSUME AuthInit PROVE WindowInv
    OBVIOUS
  <2>1. areq \in [Requests -> AuthRequest] /\ \A r \in Requests : areq[r].at = "new"
    BY AuthInitInv DEF AuthInv, AuthTypeOK, AuthInit, Idle
  <2>2. /\ window = [count |-> 0, expiry |-> FALSE] /\ passed = [all |-> 0, open |-> 0]
        /\ expiryLost = FALSE
    BY DEF AuthInit
  <2>3. /\ window.count = 0 /\ window.expiry = FALSE /\ passed.all = 0 /\ passed.open = 0
        /\ window \in [count : Nat, expiry : BOOLEAN] /\ passed \in [all : Nat, open : Nat]
    BY <2>2
  <2>4. \A r \in Requests : areq[r].at # "expire"
    BY <2>1
  <2>5. passed.all <= window.count + passed.open
    BY <2>3
  <2>6. WindowCounts
    BY <2>2, <2>3, <2>4, <2>5 DEF WindowCounts
  <2>7. RateWindowHolds
    BY <2>2, <2>3, <2>4, AuthAssumption DEF RateWindowHolds
  <2> QED
    BY <2>1, <2>6, <2>7 DEF WindowInv
<1>2. WindowInv => RateWindowHolds
  BY DEF WindowInv
<1> QED
  BY <1>1, <1>2, AuthInitInv, AuthNextInv, WindowNext, PTL DEF AuthSpec

-------------------------------------------------------------------------------
(* Profile *)

Profiles == [Fields -> Writers \cup {Nothing}]
KeyMaps == [Providers -> Key \cup {Nothing}]

ProfileRequest ==
    [kind : ProfileKinds \cup ByokKinds \cup {Nothing}, at : {"new", "llm", "commit", "end"},
     part : SUBSET (Prefs \cup Providers), drop : SUBSET Providers,
     profile : Profiles \cup {Nothing}, byok : KeyMaps \cup {Nothing},
     text : Writers \cup {Nothing}]

Sending(q) == q.at \in {"llm", "commit"}

(* What a request under way has loaded, and what its body may name. *)
Sent(q) ==
    Sending(q) =>
        /\ q.kind \in ProfileKinds \cup ByokKinds
        /\ q.profile \in Profiles /\ q.byok \in KeyMaps
        /\ q.kind = "settings" => q.part \subseteq Prefs
        /\ q.kind = "keys" => q.part \subseteq Providers

ProfileTypeOK ==
    /\ profile \in Profiles /\ byok \in KeyMaps /\ secret \in 0..1
    /\ resumeText \in Writers \cup {Nothing}
    /\ said \in [Fields \cup Providers -> Writers \cup {Nothing}]
    /\ preq \in [Writers -> ProfileRequest]
    /\ \A w \in Writers : Sent(preq[w])

HoldsColumn(w, c) == Sending(preq[w]) /\ ColumnOf(preq[w].kind) = c

OneHolds(c) == \A v, w \in Writers : HoldsColumn(v, c) /\ HoldsColumn(w, c) => v = w

ProfileTrue ==
    /\ \A f \in Fields : profile[f] = said[f] \/ (f = "resume" /\ said[f] \in edited)
    /\ resumeText # Nothing => profile["resume"] # Nothing /\ resumeText \in usage

KeysTrue ==
    \A p \in Providers : /\ (byok[p] = Nothing) = (said[p] = Nothing)
                         /\ byok[p] # Nothing => byok[p].by = said[p]

ProfileInv ==
    /\ ProfileTypeOK
    /\ "profile" \notin mixed =>
         /\ OneHolds("profile") /\ ProfileTrue
         /\ \A w \in Writers : HoldsColumn(w, "profile") => preq[w].profile = profile
    /\ "byok" \notin mixed =>
         /\ OneHolds("byok") /\ KeysTrue
         /\ \A w \in Writers : HoldsColumn(w, "byok") => preq[w].byok = byok

USE ProfileAssumption

LEMMA UnsentType ==
    /\ Unsent \in ProfileRequest /\ [Unsent EXCEPT !.at = "end"] \in ProfileRequest
    /\ ~Sending(Unsent) /\ ~Sending([Unsent EXCEPT !.at = "end"])
  BY DEF Unsent, ProfileRequest, Sending

LEMMA ProfileInitInv == ProfileInit => ProfileInv
<1> SUFFICES ASSUME ProfileInit PROVE ProfileInv
  OBVIOUS
<1>1. \A w \in Writers : preq[w] = Unsent
  BY DEF ProfileInit
<1>2. ProfileTypeOK
  BY UnsentType DEF ProfileInit, ProfileTypeOK, Profiles, KeyMaps, NoKeys, Sent
<1>3. ProfileTrue /\ KeysTrue
  BY DEF ProfileInit, ProfileTrue, KeysTrue, NoKeys
<1>4. \A w \in Writers, c \in {"profile", "byok"} : ~HoldsColumn(w, c)
  BY <1>1, UnsentType DEF HoldsColumn
<1> QED
  BY <1>2, <1>3, <1>4 DEF ProfileInv, OneHolds

(* A step of a request that stores nothing, and holds no column it did not hold. *)
LEMMA NothingSent ==
    ASSUME ProfileInv, UNCHANGED <<profile, resumeText, byok, said, edited>>, secret' \in 0..1,
           mixed \subseteq mixed', usage \subseteq usage',
           preq' \in [Writers -> ProfileRequest],
           \A w \in Writers : /\ Sent(preq'[w])
                              /\ Sending(preq'[w]) =>
                                   /\ Sending(preq[w]) /\ preq'[w].kind = preq[w].kind
                                   /\ preq'[w].profile = preq[w].profile
                                   /\ preq'[w].byok = preq[w].byok
    PROVE  ProfileInv'
<1>1. ProfileTypeOK'
  BY DEF ProfileInv, ProfileTypeOK
<1>2. \A w \in Writers, c \in {"profile", "byok"} : HoldsColumn(w, c)' => HoldsColumn(w, c)
  BY DEF HoldsColumn, ColumnOf
<1>3. \A w \in Writers, c \in {"profile", "byok"} : HoldsColumn(w, c)' =>
         preq'[w].profile = preq[w].profile /\ preq'[w].byok = preq[w].byok
  BY DEF HoldsColumn
<1>4. "profile" \notin mixed' =>
         /\ OneHolds("profile")' /\ ProfileTrue'
         /\ \A w \in Writers : HoldsColumn(w, "profile")' => preq'[w].profile = profile'
  BY <1>2, <1>3 DEF ProfileInv, OneHolds, ProfileTrue
<1>5. "byok" \notin mixed' =>
         /\ OneHolds("byok")' /\ KeysTrue'
         /\ \A w \in Writers : HoldsColumn(w, "byok")' => preq'[w].byok = byok'
  BY <1>2, <1>3 DEF ProfileInv, OneHolds, KeysTrue
<1> QED
  BY <1>1, <1>4, <1>5 DEF ProfileInv

LEMMA FinishKeeps ==
    ASSUME ProfileTypeOK, NEW w \in Writers, Finish(w)
    PROVE  /\ preq' \in [Writers -> ProfileRequest]
           /\ ~Sending(preq'[w]) /\ \A v \in Writers \ {w} : preq'[v] = preq[v]
           /\ \A v \in Writers : Sent(preq'[v])
  BY UnsentType DEF ProfileTypeOK, Finish, Sent

LEMMA FinishInv ==
    ASSUME ProfileInv, NEW w \in Writers, Finish(w), usage \subseteq usage',
           UNCHANGED <<profile, resumeText, byok, said, edited, secret, mixed>>
    PROVE  ProfileInv'
<1>1. ProfileTypeOK /\ secret' \in 0..1
  BY DEF ProfileInv, ProfileTypeOK
<1>2. /\ preq' \in [Writers -> ProfileRequest]
      /\ ~Sending(preq'[w]) /\ \A v \in Writers \ {w} : preq'[v] = preq[v]
      /\ \A v \in Writers : Sent(preq'[v])
  BY <1>1, FinishKeeps
<1> QED
  BY <1>1, <1>2, NothingSent

LEMMA LoadInvP ==
    ASSUME ProfileInv, NEW w \in Writers, NEW kind \in ProfileKinds \cup ByokKinds,
           NEW part \in SUBSET (Prefs \cup Providers), NEW drop \in SUBSET Providers,
           kind = "settings" => part \subseteq Prefs,
           kind = "keys" => part \subseteq Providers,
           Load(w, kind, part, drop)
    PROVE  ProfileInv'
<1>1. ProfileTypeOK /\ UNCHANGED <<profile, resumeText, byok, usage, secret, said, edited>>
  BY DEF ProfileInv, Load
<1>2. CASE ~alive
  BY <1>1, <1>2, FinishInv DEF Load
<1>3. CASE alive
  <2> DEFINE q == [kind |-> kind, part |-> part, drop |-> drop,
                   at |-> IF kind = "upload" THEN "llm" ELSE "commit",
                   profile |-> profile, byok |-> byok, text |-> resumeText]
  <2>1. /\ preq' = [preq EXCEPT ![w] = q]
        /\ mixed' = mixed \cup
             {ColumnOf(kind) : o \in {v \in Writers : preq[v].at \in {"llm", "commit"}
                                         /\ ColumnOf(preq[v].kind) = ColumnOf(kind)}}
    BY <1>3 DEF Load
  <2>2. q \in ProfileRequest /\ Sent(q) /\ Sending(q)
    BY <1>1 DEF ProfileTypeOK, ProfileRequest, Sent, Sending
  <2>3. q.kind = kind /\ q.profile = profile /\ q.byok = byok
    OBVIOUS
  <2> HIDE DEF q
  <2>4. preq'[w] = q /\ \A v \in Writers \ {w} : preq'[v] = preq[v]
    BY <1>1, <2>1 DEF ProfileTypeOK
  <2>5. ProfileTypeOK'
    BY <1>1, <2>1, <2>2, <2>4 DEF ProfileTypeOK
  <2>6. mixed \subseteq mixed'
    BY <2>1
  <2>7. \A c \in {"profile", "byok"} : c \notin mixed' /\ HoldsColumn(w, c)' =>
           \A v \in Writers \ {w} : ~HoldsColumn(v, c)
    BY <2>1, <2>3, <2>4 DEF HoldsColumn, Sending
  <2>8. \A v \in Writers \ {w}, c \in {"profile", "byok"} :
           HoldsColumn(v, c)' <=> HoldsColumn(v, c)
    BY <2>4 DEF HoldsColumn
  <2>9. \A c \in {"profile", "byok"} : c \notin mixed' /\ OneHolds(c) => OneHolds(c)'
    BY <2>7, <2>8 DEF OneHolds
  <2>10. "profile" \notin mixed' =>
           /\ OneHolds("profile")' /\ ProfileTrue'
           /\ \A v \in Writers : HoldsColumn(v, "profile")' => preq'[v].profile = profile'
    BY <1>1, <2>3, <2>4, <2>6, <2>8, <2>9 DEF ProfileInv, ProfileTrue
  <2>11. "byok" \notin mixed' =>
           /\ OneHolds("byok")' /\ KeysTrue'
           /\ \A v \in Writers : HoldsColumn(v, "byok")' => preq'[v].byok = byok'
    BY <1>1, <2>3, <2>4, <2>6, <2>8, <2>9 DEF ProfileInv, KeysTrue
  <2> QED
    BY <2>5, <2>10, <2>11 DEF ProfileInv
<1> QED
  BY <1>2, <1>3

LEMMA ResumeParsedInv ==
    ASSUME ProfileInv, NEW w \in Writers, ResumeParsed(w)
    PROVE  ProfileInv'
<1> DEFINE q == [preq[w] EXCEPT !.at = "commit"]
<1>1. /\ preq[w] \in ProfileRequest /\ Sent(preq[w]) /\ Sending(preq[w])
      /\ preq' = [preq EXCEPT ![w] = q]
      /\ UNCHANGED <<profile, resumeText, byok, said, edited, mixed, usage>> /\ secret' \in 0..1
  BY DEF ProfileInv, ProfileTypeOK, ResumeParsed, Sending
<1>2. /\ q \in ProfileRequest /\ q.kind = preq[w].kind /\ q.profile = preq[w].profile
      /\ q.byok = preq[w].byok /\ q.part = preq[w].part
  BY <1>1 DEF ProfileRequest
<1> HIDE DEF q
<1>3. Sent(q)
  BY <1>1, <1>2 DEF Sent
<1>4. /\ preq' \in [Writers -> ProfileRequest]
      /\ preq'[w] = q /\ \A v \in Writers \ {w} : preq'[v] = preq[v]
  BY <1>1, <1>2 DEF ProfileInv, ProfileTypeOK
<1>5. \A v \in Writers : Sent(preq'[v])
  BY <1>3, <1>4 DEF ProfileInv, ProfileTypeOK
<1> QED
  BY <1>1, <1>2, <1>4, <1>5, NothingSent

(* The columns a handler computes: its own field, and the others as it loaded them. *)
LEMMA NewProfileMerges ==
    ASSUME ProfileTypeOK, NEW w \in Writers, Sending(preq[w]), preq[w].kind \in ProfileKinds
    PROVE  /\ NewProfile(w) \in Profiles /\ Sets(w) \subseteq Fields
           /\ \A f \in Fields \ Sets(w) : NewProfile(w)[f] = preq[w].profile[f]
           /\ preq[w].profile["resume"] # Nothing => NewProfile(w)["resume"] # Nothing
           /\ preq[w].kind = "upload" => NewProfile(w)["resume"] = w
           /\ InPlace(w) => /\ NewProfile(w) = LoadedProfile(w)
                            /\ Sets(w) = {"resume"} /\ NewProfile(w)["resume"] = w
<1>1. preq[w].profile \in Profiles /\ (preq[w].kind = "settings" => preq[w].part \subseteq Prefs)
  BY DEF ProfileTypeOK, Sent
<1>2. "resume" \in Fields /\ "self_assessment" \in Fields /\ "interview_date" \in Fields
  BY DEF Fields
<1>3. CASE preq[w].kind = "settings"
  <2>1. NewProfile(w) = SettingsProfile(w) /\ Sets(w) = preq[w].part
    BY <1>3 DEF NewProfile, Sets
  <2>2. Prefs \subseteq Fields
    BY DEF Fields
  <2> QED
    BY <1>1, <1>2, <1>3, <2>1, <2>2 DEF SettingsProfile, Profiles, InPlace
<1>4. CASE preq[w].kind = "assessment"
  <2>1. NewProfile(w) = AssessmentProfile(w) /\ Sets(w) = {"self_assessment"}
    BY <1>4 DEF NewProfile, Sets
  <2> QED
    BY <1>1, <1>2, <1>4, <2>1 DEF AssessmentProfile, Profiles, InPlace
<1>5. CASE preq[w].kind \in {"date", "clear_date"}
  <2>1. NewProfile(w) = DateProfile(w) /\ Sets(w) = {"interview_date"}
    BY <1>5 DEF NewProfile, Sets
  <2> QED
    BY <1>1, <1>2, <1>5, <2>1 DEF DateProfile, Profiles, InPlace
<1>6. CASE preq[w].kind \in {"upload", "put_resume"}
  <2>1. NewProfile(w) = ResumeProfile(w) /\ Sets(w) = {"resume"}
    BY <1>6 DEF NewProfile, Sets
  <2> QED
    BY <1>1, <1>2, <1>6, <2>1 DEF ResumeProfile, Profiles, LoadedProfile
<1> QED
  BY <1>3, <1>4, <1>5, <1>6 DEF ProfileKinds

LEMMA CommitProfileInv ==
    ASSUME ProfileInv, NEW w \in Writers, CommitProfile(w)
    PROVE  ProfileInv'
<1> DEFINE new == NewProfile(w)
<1>1. /\ ProfileTypeOK /\ Finish(w) /\ UNCHANGED <<byok, secret, mixed>>
      /\ Sending(preq[w]) /\ preq[w].kind \in ProfileKinds
  BY DEF ProfileInv, CommitProfile, Sending
<1>2. CASE UNCHANGED <<profile, resumeText, usage, said, edited>>
  BY <1>1, <1>2, FinishInv
<1>3. CASE /\ profile' = IF new # LoadedProfile(w) THEN new ELSE profile
           /\ resumeText' = IF preq[w].kind = "upload" THEN w ELSE resumeText
           /\ usage' = IF preq[w].kind = "upload" THEN usage \cup {w} ELSE usage
           /\ said' = [x \in DOMAIN said |-> IF x \in Sets(w) THEN new[x] ELSE said[x]]
           /\ edited' = IF InPlace(w) THEN edited \cup {w} ELSE edited
  <2>1. /\ preq' \in [Writers -> ProfileRequest]
        /\ ~Sending(preq'[w]) /\ \A v \in Writers \ {w} : preq'[v] = preq[v]
        /\ \A v \in Writers : Sent(preq'[v])
    BY <1>1, FinishKeeps
  <2>2. /\ new \in Profiles /\ Sets(w) \subseteq Fields
        /\ \A f \in Fields \ Sets(w) : new[f] = preq[w].profile[f]
        /\ preq[w].profile["resume"] # Nothing => new["resume"] # Nothing
        /\ preq[w].kind = "upload" => new["resume"] = w
        /\ InPlace(w) => /\ new = LoadedProfile(w) /\ Sets(w) = {"resume"} /\ new["resume"] = w
    BY <1>1, NewProfileMerges
  <2> HIDE DEF new
  <2>3. /\ \A f \in Fields : said'[f] = IF f \in Sets(w) THEN new[f] ELSE said[f]
        /\ \A p \in Providers : said'[p] = said[p]
        /\ said' \in [Fields \cup Providers -> Writers \cup {Nothing}]
    BY <1>1, <1>3, <2>2 DEF ProfileTypeOK, Profiles
  <2>4. ProfileTypeOK'
    BY <1>1, <1>3, <2>1, <2>2, <2>3 DEF ProfileTypeOK
  <2>5. HoldsColumn(w, "profile")
    BY <1>1 DEF HoldsColumn, ColumnOf, ProfileKinds, ByokKinds
  <2>6. \A v \in Writers, c \in {"profile", "byok"} : HoldsColumn(v, c)' =>
           v # w /\ HoldsColumn(v, c) /\ preq'[v] = preq[v]
    BY <2>1 DEF HoldsColumn
  <2>7. ASSUME "profile" \notin mixed
        PROVE  /\ OneHolds("profile")' /\ ProfileTrue'
               /\ \A v \in Writers : HoldsColumn(v, "profile")' => preq'[v].profile = profile'
    <3>1. \A v \in Writers : ~HoldsColumn(v, "profile")'
      BY <2>5, <2>6, <2>7 DEF ProfileInv, OneHolds
    <3>2. preq[w].profile = profile /\ ProfileTrue
      BY <2>5, <2>7 DEF ProfileInv
    <3>3. ~InPlace(w) => profile' = new /\ edited' = edited
      BY <1>3, <3>2 DEF LoadedProfile
    <3>4. InPlace(w) => profile' = profile /\ edited' = edited \cup {w} /\ preq[w].kind # "upload"
      BY <1>3, <2>2 DEF InPlace
    <3>5. \A f \in Fields : profile'[f] = said'[f] \/ (f = "resume" /\ said'[f] \in edited')
      BY <2>2, <2>3, <3>2, <3>3, <3>4 DEF ProfileTrue
    <3>6. resumeText' # Nothing => profile'["resume"] # Nothing /\ resumeText' \in usage'
      BY <1>3, <2>2, <3>2, <3>3, <3>4 DEF ProfileTrue
    <3> QED
      BY <3>1, <3>5, <3>6 DEF OneHolds, ProfileTrue
  <2>8. ASSUME "byok" \notin mixed
        PROVE  /\ OneHolds("byok")' /\ KeysTrue'
               /\ \A v \in Writers : HoldsColumn(v, "byok")' => preq'[v].byok = byok'
    BY <1>1, <2>3, <2>6, <2>8 DEF ProfileInv, OneHolds, KeysTrue
  <2> QED
    BY <1>1, <2>4, <2>7, <2>8 DEF ProfileInv
<1> QED
  BY <1>2, <1>3 DEF CommitProfile

LEMMA CommitKeysInv ==
    ASSUME ProfileInv, NEW w \in Writers, CommitKeys(w)
    PROVE  ProfileInv'
<1> DEFINE new == NewKeys(w)
           named == IF preq[w].kind = "delete_keys" THEN Providers
                    ELSE preq[w].part \cup preq[w].drop
<1>1. /\ ProfileTypeOK /\ Finish(w)
      /\ UNCHANGED <<profile, resumeText, usage, secret, edited, mixed>>
      /\ Sending(preq[w]) /\ preq[w].kind \in ByokKinds
  BY DEF ProfileInv, CommitKeys, Sending
<1>2. CASE UNCHANGED <<byok, said>>
  BY <1>1, <1>2, FinishInv
<1>3. CASE /\ byok' = IF new = preq[w].byok THEN byok ELSE new
           /\ said' = [x \in DOMAIN said |->
                  IF x \notin named THEN said[x]
                  ELSE IF new[x] = Nothing THEN Nothing ELSE w]
           /\ named \subseteq Providers
  <2>1. /\ preq' \in [Writers -> ProfileRequest]
        /\ ~Sending(preq'[w]) /\ \A v \in Writers \ {w} : preq'[v] = preq[v]
        /\ \A v \in Writers : Sent(preq'[v])
    BY <1>1, FinishKeeps
  <2>2. preq[w].byok \in KeyMaps /\ secret \in 0..1
    BY <1>1 DEF ProfileTypeOK, Sent
  <2>3. /\ new \in KeyMaps
        /\ \A p \in Providers \ named : new[p] = preq[w].byok[p]
        /\ \A p \in Providers : p \in named /\ new[p] # Nothing => new[p].by = w
    <3>1. CASE preq[w].kind = "delete_keys"
      BY <3>1 DEF NewKeys, NoKeys, KeyMaps
    <3>2. CASE preq[w].kind # "delete_keys"
      <4>1. [by |-> w, secret |-> secret] \in Key
        BY <2>2 DEF Key
      <4> QED
        BY <2>2, <3>2, <4>1 DEF NewKeys, KeyMaps
    <3> QED
      BY <3>1, <3>2
  <2> HIDE DEF new, named
  <2>4. /\ said' \in [Fields \cup Providers -> Writers \cup {Nothing}]
        /\ \A f \in Fields : said'[f] = said[f]
        /\ \A p \in Providers : said'[p] =
              IF p \notin named THEN said[p] ELSE IF new[p] = Nothing THEN Nothing ELSE w
    BY <1>1, <1>3 DEF ProfileTypeOK
  <2>5. ProfileTypeOK'
    BY <1>1, <1>3, <2>1, <2>3, <2>4 DEF ProfileTypeOK
  <2>6. HoldsColumn(w, "byok")
    BY <1>1 DEF HoldsColumn, ColumnOf
  <2>7. \A v \in Writers, c \in {"profile", "byok"} : HoldsColumn(v, c)' =>
           v # w /\ HoldsColumn(v, c) /\ preq'[v] = preq[v]
    BY <2>1 DEF HoldsColumn
  <2>8. ASSUME "profile" \notin mixed
        PROVE  /\ OneHolds("profile")' /\ ProfileTrue'
               /\ \A v \in Writers : HoldsColumn(v, "profile")' => preq'[v].profile = profile'
    BY <1>1, <2>4, <2>7, <2>8 DEF ProfileInv, OneHolds, ProfileTrue
  <2>9. ASSUME "byok" \notin mixed
        PROVE  /\ OneHolds("byok")' /\ KeysTrue'
               /\ \A v \in Writers : HoldsColumn(v, "byok")' => preq'[v].byok = byok'
    <3>1. \A v \in Writers : ~HoldsColumn(v, "byok")'
      BY <2>6, <2>7, <2>9 DEF ProfileInv, OneHolds
    <3>2. preq[w].byok = byok /\ KeysTrue
      BY <2>6, <2>9 DEF ProfileInv
    <3>3. byok' = new
      BY <1>3, <3>2
    <3>4. KeysTrue'
      BY <2>3, <2>4, <3>2, <3>3 DEF KeysTrue
    <3> QED
      BY <3>1, <3>4 DEF OneHolds
  <2> QED
    BY <1>1, <2>5, <2>8, <2>9 DEF ProfileInv
<1>4. named \subseteq Providers
  <2>1. preq[w].kind = "keys" => preq[w].part \subseteq Providers
    BY <1>1 DEF ProfileTypeOK, Sent
  <2>2. preq[w].drop \subseteq Providers
    BY <1>1 DEF ProfileTypeOK, ProfileRequest
  <2> QED
    BY <1>1, <2>1, <2>2 DEF ByokKinds
<1> QED
  BY <1>2, <1>3, <1>4 DEF CommitKeys

LEMMA ProfileNextInv == ProfileInv /\ [ProfileNext]_profileVars => ProfileInv'
<1> SUFFICES ASSUME ProfileInv, [ProfileNext]_profileVars PROVE ProfileInv'
  OBVIOUS
<1>1. ASSUME NEW w \in Writers, NEW part \in (SUBSET Prefs) \ {{}}, Load(w, "settings", part, {})
      PROVE  ProfileInv'
  BY <1>1, LoadInvP DEF ProfileKinds
<1>2. ASSUME NEW w \in Writers, NEW kind \in (ProfileKinds \ {"settings"}) \cup {"delete_keys"},
             Load(w, kind, {}, {})
      PROVE  ProfileInv'
  BY <1>2, LoadInvP DEF ProfileKinds, ByokKinds
<1>3. ASSUME NEW w \in Writers, NEW part \in SUBSET Providers,
             NEW drop \in SUBSET (Providers \ part), Load(w, "keys", part, drop)
      PROVE  ProfileInv'
  BY <1>3, LoadInvP DEF ByokKinds
<1>4. ASSUME NEW w \in Writers,
             UploadFails(w) \/ ResumeParsed(w) \/ CommitProfile(w) \/ CommitKeys(w)
      PROVE  ProfileInv'
  <2>1. CASE UploadFails(w)
    BY <2>1, FinishInv DEF UploadFails
  <2> QED
    BY <1>4, <2>1, ResumeParsedInv, CommitProfileInv, CommitKeysInv
<1>5. CASE DeleteRow \/ ChangeSecret \/ UNCHANGED profileVars
  <2>1. /\ UNCHANGED <<profile, resumeText, byok, said, edited, mixed, usage, preq>>
        /\ ProfileTypeOK /\ secret' \in 0..1
    BY <1>5 DEF DeleteRow, ChangeSecret, profileVars, ProfileInv, ProfileTypeOK
  <2> QED
    BY <2>1, NothingSent DEF ProfileTypeOK
<1> QED
  BY <1>1, <1>2, <1>3, <1>4, <1>5 DEF ProfileNext

(* Unless two requests on the same column overlap, a field of the profile and a provider's key
   are what the last request about them that was answered 200 gave them - but for a resume
   edited in place, which is answered and not stored - and a resume is shown with its text and
   its usage row: handlers merge into the column they loaded ("preserve other keys like resume
   data", settings.py, profile.py, resume.py, byok.py). *)
THEOREM FieldsMerged == ProfileSpec => []FieldsKept
<1>1. ProfileInv => FieldsKept
  BY DEF ProfileInv, ProfileTypeOK, ProfileTrue, KeysTrue, FieldsKept, UsableKeys, Answer
<1> QED
  BY <1>1, ProfileInitInv, ProfileNextInv, PTL DEF ProfileSpec

-------------------------------------------------------------------------------
(* QuestionBank: a row and what a request does to it name one counter. *)

Counts(x, does) ==
    \/ x \in Questions /\ does \in {"next", "vote"}
    \/ x \in Tips /\ does = "tip"

Stored(x) == IF x \in Questions THEN question[x] # NoRow ELSE tip[x] # NoRow

Shown(x, does) ==
    IF does = "next" THEN question[x].used
    ELSE IF does = "vote" THEN question[x].votes ELSE tip[x].votes

VotesFor(x) == {p \in upvotes : p[1] = x}

(* What the counter should be. *)
Total(x, does) == IF does = "vote" THEN Cardinality(VotesFor(x)) + orphaned[x] ELSE served[x]

Seen(q) == IF q.does = "next" THEN q.copy.used ELSE q.copy.votes

BankRequest ==
    [at : {"new", "commit", "end"}, does : {"next", "vote", "tip", NoRow},
     row : Rows \cup {NoRow}, user : Voters \cup {NoRow},
     copy : QuestionRow \cup TipRow \cup {NoRow}]

(* A request that holds a row is about to commit, with a row of the right table. *)
Selecting(q) ==
    q.does # NoRow =>
        /\ q.at = "commit" /\ Counts(q.row, q.does)
        /\ q.copy \in IF q.does = "tip" THEN TipRow ELSE QuestionRow
        /\ q.does = "vote" => q.user \in Voters

BankTypeOK ==
    /\ question \in [Questions -> QuestionRow \cup {NoRow}]
    /\ tip \in [Tips -> TipRow \cup {NoRow}]
    /\ upvotes \subseteq Questions \X Voters /\ IsFiniteSet(upvotes)
    /\ served \in [Rows -> Nat] /\ orphaned \in [Questions -> Nat]
    /\ qreq \in [Visitors -> BankRequest]
    /\ \A v \in Visitors : Selecting(qreq[v])

CounterTrue(x, does) ==
    IF ~Stored(x) THEN Total(x, does) = 0
    ELSE /\ Shown(x, does) <= Total(x, does)
         /\ x \notin raced => Shown(x, does) = Total(x, does)

(* No request has read more than there is; unless it overlaps, it has read what there is. *)
SeenTrue(q) ==
    q.does # NoRow =>
        /\ Stored(q.row) /\ Seen(q) <= Total(q.row, q.does)
        /\ q.row \notin raced => Seen(q) = Shown(q.row, q.does)

OneCounts ==
    \A v, w \in Visitors :
        /\ qreq[v].does # NoRow /\ qreq[v].does = qreq[w].does
        /\ qreq[v].row = qreq[w].row /\ qreq[v].row \notin raced
        => v = w

BankInv ==
    /\ BankTypeOK /\ OneCounts
    /\ \A x, does : Counts(x, does) => CounterTrue(x, does)
    /\ \A v \in Visitors : SeenTrue(qreq[v])

USE BankAssumption

LEMMA FreeType ==
    /\ Free \in BankRequest /\ [Free EXCEPT !.at = "end"] \in BankRequest
    /\ Free.does = NoRow /\ [Free EXCEPT !.at = "end"].does = NoRow
  BY DEF Free, BankRequest

(* The types of the counters, and that the votes for a question are finitely many. *)
LEMMA CounterType ==
    ASSUME BankTypeOK, NEW x, NEW does, Counts(x, does)
    PROVE  /\ Total(x, does) \in Nat /\ (Stored(x) => Shown(x, does) \in Nat)
           /\ IsFiniteSet(VotesFor(x))
<1>1. IsFiniteSet(VotesFor(x)) /\ Cardinality(VotesFor(x)) \in Nat
  BY FS_Subset, FS_CardinalityType DEF VotesFor, BankTypeOK
<1>2. Total(x, does) \in Nat
  BY <1>1 DEF Total, Counts, BankTypeOK, Rows
<1>3. Stored(x) => Shown(x, does) \in Nat
  BY DEF Stored, Shown, Counts, BankTypeOK, QuestionRow, TipRow
<1> QED
  BY <1>1, <1>2, <1>3

LEMMA SeenType ==
    ASSUME BankTypeOK, NEW v \in Visitors, qreq[v].does # NoRow
    PROVE  Seen(qreq[v]) \in Nat /\ Counts(qreq[v].row, qreq[v].does)
  BY DEF BankTypeOK, Selecting, Seen, Counts, QuestionRow, TipRow

LEMMA BankInitInv == BankInit => BankInv
<1> SUFFICES ASSUME BankInit PROVE BankInv
  OBVIOUS
<1>1. \A v \in Visitors : qreq[v] = Free
  BY DEF BankInit
<1>2. /\ question \in [Questions -> QuestionRow \cup {NoRow}]
      /\ \A x \in Questions : question[x] # NoRow => question[x].used = 0 /\ question[x].votes = 0
  BY DEF BankInit, NewQuestion, QuestionRow
<1>3. IsFiniteSet({}) /\ Cardinality({}) = 0
  BY FS_EmptySet
<1>4. BankTypeOK
  BY <1>2, <1>3, FreeType DEF BankInit, BankTypeOK, Selecting
<1>5. ASSUME NEW x, NEW does, Counts(x, does) PROVE CounterTrue(x, does)
  <2>1. VotesFor(x) = {}
    BY DEF BankInit, VotesFor
  <2>2. Total(x, does) = 0
    BY <1>3, <1>5, <2>1 DEF BankInit, Total, Counts, Rows
  <2>3. Stored(x) => Shown(x, does) = 0
    BY <1>2, <1>5 DEF BankInit, Stored, Shown, Counts
  <2> QED
    BY <2>2, <2>3 DEF CounterTrue
<1> QED
  BY <1>1, <1>4, <1>5, FreeType DEF BankInv, OneCounts, SeenTrue

(* A step that moves no counter, or adds a row with counters at 0, and after which no request
   holds a row it did not hold. *)
LEMMA BankKept ==
    ASSUME BankInv, BankTypeOK', raced \subseteq raced',
           \A x, does : Counts(x, does) =>
               /\ Total(x, does)' = Total(x, does)
               /\ Stored(x) => Stored(x)' /\ Shown(x, does)' = Shown(x, does)
               /\ ~Stored(x) /\ Stored(x)' => Shown(x, does)' = 0,
           \A v \in Visitors : qreq'[v].does # NoRow => qreq'[v] = qreq[v]
    PROVE  BankInv'
<1>1. OneCounts'
  BY DEF BankInv, OneCounts
<1>2. ASSUME NEW x, NEW does, Counts(x, does) PROVE CounterTrue(x, does)'
  BY <1>2 DEF BankInv, CounterTrue
<1>3. ASSUME NEW v \in Visitors, qreq'[v].does # NoRow PROVE SeenTrue(qreq[v])'
  <2>1. qreq'[v] = qreq[v] /\ SeenTrue(qreq[v]) /\ Counts(qreq[v].row, qreq[v].does)
    BY <1>3, SeenType DEF BankInv
  <2> QED
    BY <2>1 DEF SeenTrue
<1> QED
  BY <1>1, <1>2, <1>3 DEF BankInv, SeenTrue

(* A commit: the counter becomes what the request read, plus 1; so does what it counts. *)
LEMMA BankCounted ==
    ASSUME BankInv, BankTypeOK', NEW v \in Visitors, qreq[v].does # NoRow, raced' = raced,
           \A x, does : Counts(x, does) =>
               /\ Stored(x)' = Stored(x)
               /\ IF x = qreq[v].row /\ does = qreq[v].does
                  THEN /\ Shown(x, does)' = Seen(qreq[v]) + 1
                       /\ Total(x, does)' = Total(x, does) + 1
                  ELSE /\ Total(x, does)' = Total(x, does)
                       /\ Stored(x) => Shown(x, does)' = Shown(x, does),
           qreq'[v].does = NoRow, \A o \in Visitors \ {v} : qreq'[o] = qreq[o]
    PROVE  BankInv'
<1>1. OneCounts'
  BY DEF BankInv, OneCounts
<1>2. /\ SeenTrue(qreq[v]) /\ Seen(qreq[v]) \in Nat
      /\ Counts(qreq[v].row, qreq[v].does) /\ BankTypeOK
  BY SeenType DEF BankInv
<1>3. ASSUME NEW x, NEW does, Counts(x, does) PROVE CounterTrue(x, does)'
  <2>1. CounterTrue(x, does) /\ Total(x, does) \in Nat /\ (Stored(x) => Shown(x, does) \in Nat)
    BY <1>2, <1>3, CounterType DEF BankInv
  <2>2. CASE x = qreq[v].row /\ does = qreq[v].does
    <3>1. /\ Stored(x)' /\ Shown(x, does)' = Seen(qreq[v]) + 1
          /\ Total(x, does)' = Total(x, does) + 1
      BY <1>2, <1>3, <2>2 DEF SeenTrue
    <3>2. /\ Seen(qreq[v]) <= Total(x, does)
          /\ x \notin raced => Seen(qreq[v]) = Total(x, does)
      BY <1>2, <2>1, <2>2 DEF SeenTrue, CounterTrue
    <3> QED
      BY <1>2, <2>1, <3>1, <3>2 DEF CounterTrue
  <2>3. CASE ~(x = qreq[v].row /\ does = qreq[v].does)
    BY <1>3, <2>1, <2>3 DEF CounterTrue
  <2> QED
    BY <2>2, <2>3
<1>4. ASSUME NEW o \in Visitors, qreq'[o].does # NoRow PROVE SeenTrue(qreq[o])'
  <2>1. /\ o # v /\ qreq'[o] = qreq[o] /\ SeenTrue(qreq[o]) /\ Seen(qreq[o]) \in Nat
        /\ Counts(qreq[o].row, qreq[o].does)
    BY <1>4, SeenType DEF BankInv
  <2>2. Stored(qreq[o].row)' /\ Seen(qreq[o])' = Seen(qreq[o])
    BY <1>4, <2>1 DEF SeenTrue, Seen
  <2>3. CASE qreq[o].row = qreq[v].row /\ qreq[o].does = qreq[v].does
    <3>1. qreq[o].row \in raced
      BY <1>4, <2>1, <2>3 DEF BankInv, OneCounts
    <3>2. /\ Total(qreq[o].row, qreq[o].does) \in Nat
          /\ Seen(qreq[o]) <= Total(qreq[o].row, qreq[o].does)
      BY <1>2, <1>4, <2>1, CounterType DEF SeenTrue
    <3>3. Seen(qreq[o]) <= Total(qreq[o].row, qreq[o].does) + 1
      BY <2>1, <3>2
    <3> QED
      BY <2>1, <2>2, <2>3, <3>1, <3>3 DEF SeenTrue
  <2>4. CASE ~(qreq[o].row = qreq[v].row /\ qreq[o].does = qreq[v].does)
    BY <1>4, <2>1, <2>2, <2>4 DEF SeenTrue
  <2> QED
    BY <2>3, <2>4
<1> QED
  BY <1>1, <1>3, <1>4 DEF BankInv, SeenTrue

LEMMA LeaveType ==
    ASSUME BankTypeOK, NEW v \in Visitors, Leave(v)
    PROVE  /\ qreq' \in [Visitors -> BankRequest] /\ qreq'[v].does = NoRow
           /\ \A o \in Visitors \ {v} : qreq'[o] = qreq[o]
           /\ \A o \in Visitors : Selecting(qreq'[o])
  BY FreeType DEF BankTypeOK, Leave, Selecting

(* A request that only answers. *)
LEMMA LeaveInv ==
    ASSUME BankInv, NEW v \in Visitors, Leave(v),
           UNCHANGED <<question, tip, upvotes, served, orphaned, raced>>
    PROVE  BankInv'
<1>1. BankTypeOK
  BY DEF BankInv
<1>2. BankTypeOK' /\ \A o \in Visitors : qreq'[o].does # NoRow => qreq'[o] = qreq[o]
  BY <1>1, LeaveType DEF BankTypeOK
<1>3. \A x, does : /\ Total(x, does)' = Total(x, does)
                   /\ Stored(x)' = Stored(x) /\ Shown(x, does)' = Shown(x, does)
  BY DEF Total, VotesFor, Stored, Shown
<1> QED
  BY <1>2, <1>3, BankKept

(* A request that selects a row, and holds the row as it is. *)
LEMMA HoldInv ==
    ASSUME BankInv, NEW v \in Visitors, NEW x, NEW does, NEW u, NEW copy,
           Counts(x, does), Stored(x), copy = IF does = "tip" THEN tip[x] ELSE question[x],
           u \in Voters \cup {NoRow}, does = "vote" => u \in Voters,
           Hold(v, does, x, u, copy), qreq[v].at = "new",
           UNCHANGED <<question, tip, upvotes, served, orphaned>>
    PROVE  BankInv'
<1> DEFINE q == [at |-> "commit", does |-> does, row |-> x, user |-> u, copy |-> copy]
<1>1. BankTypeOK /\ qreq[v].does = NoRow
  BY DEF BankInv, BankTypeOK, Selecting
<1>2. copy \in IF does = "tip" THEN TipRow ELSE QuestionRow
  BY <1>1 DEF BankTypeOK, Counts, Stored
<1>3. q \in BankRequest /\ Selecting(q)
  BY <1>2 DEF BankRequest, Selecting, Counts, Rows
<1>4. q.does = does /\ q.row = x /\ q.copy = copy
  OBVIOUS
<1>5. qreq' = [qreq EXCEPT ![v] = q]
  BY DEF Hold
<1> HIDE DEF q
<1>6. qreq'[v] = q /\ \A o \in Visitors \ {v} : qreq'[o] = qreq[o]
  BY <1>1, <1>5 DEF BankTypeOK
<1>7. BankTypeOK'
  BY <1>1, <1>3, <1>5, <1>6 DEF BankTypeOK
<1>8. /\ raced \subseteq raced'
      /\ x \notin raced' =>
           \A o \in Visitors : ~(qreq[o].row = x /\ qreq[o].does = does)
  BY DEF Hold
<1>9. OneCounts'
  BY <1>4, <1>6, <1>8 DEF BankInv, OneCounts
<1>10. \A y, d : /\ Total(y, d)' = Total(y, d)
                 /\ Stored(y)' = Stored(y) /\ Shown(y, d)' = Shown(y, d)
  BY DEF Total, VotesFor, Stored, Shown
<1>11. ASSUME NEW y, NEW d, Counts(y, d) PROVE CounterTrue(y, d)'
  BY <1>8, <1>10, <1>11 DEF BankInv, CounterTrue
<1>12. Seen(q) = Shown(x, does)
  BY <1>4 DEF Seen, Shown, Counts
<1>13. SeenTrue(q)'
  <2>1. CounterTrue(x, does) /\ Total(x, does) \in Nat
    BY <1>1, CounterType DEF BankInv
  <2> QED
    BY <1>4, <1>10, <1>12, <2>1 DEF SeenTrue, CounterTrue, Seen
<1>14. ASSUME NEW o \in Visitors PROVE SeenTrue(qreq[o])'
  <2>1. CASE o = v
    BY <1>6, <1>13, <2>1 DEF SeenTrue, Seen
  <2>2. CASE o # v
    BY <1>6, <1>8, <1>10, <2>2 DEF BankInv, SeenTrue, Seen
  <2> QED
    BY <2>1, <2>2
<1> QED
  BY <1>7, <1>9, <1>11, <1>14 DEF BankInv

LEMMA NextQuestionInv ==
    ASSUME BankInv, NEW v \in Visitors, NEW skills, NEW type, NEW company,
           NextQuestion(v, skills, type, company)
    PROVE  BankInv'
<1> DEFINE tagged == {q \in Approved(type) : CompanyOf[q] = company}
           rows == IF tagged # {} THEN tagged ELSE Approved(type)
<1>1. /\ qreq[v].at = "new" /\ UNCHANGED <<question, tip, upvotes, served, orphaned>>
      /\ \/ Leave(v) /\ UNCHANGED raced
         \/ \E q \in Selected(rows, skills) : Hold(v, "next", q, NoRow, question[q])
  BY DEF NextQuestion
<1>2. \A q \in rows : q \in Questions /\ Counts(q, "next") /\ Stored(q)
  BY DEF Approved, Counts, Stored
<1> HIDE DEF rows
<1>3. CASE Leave(v) /\ UNCHANGED raced
  BY <1>1, <1>3, LeaveInv
<1>4. ASSUME NEW q \in Selected(rows, skills), Hold(v, "next", q, NoRow, question[q])
      PROVE  BankInv'
  <2>1. q \in rows
    BY DEF Selected, LeastUsed, Leading
  <2> QED
    BY <1>1, <1>2, <1>4, <2>1, HoldInv
<1> QED
  BY <1>1, <1>3, <1>4

LEMMA CommitNextInv ==
    ASSUME BankInv, NEW v \in Visitors, CommitNext(v)
    PROVE  BankInv'
<1> DEFINE q == qreq[v].row
           n == Seen(qreq[v])
<1>1. /\ BankTypeOK /\ qreq[v].does = "next" /\ Leave(v)
      /\ question' = [question EXCEPT ![q].used = n + 1]
      /\ served' = [served EXCEPT ![q] = @ + 1]
      /\ UNCHANGED <<tip, upvotes, raced, orphaned>>
  BY DEF BankInv, CommitNext, Seen
<1>2. /\ q \in Questions /\ question[q] \in QuestionRow /\ Stored(q) /\ n \in Nat
  BY <1>1, SeenType DEF BankInv, BankTypeOK, Counts, SeenTrue, Stored
<1>3. /\ served' \in [Rows -> Nat] /\ served'[q] = served[q] + 1
      /\ \A x \in Rows \ {q} : served'[x] = served[x]
  BY <1>1, <1>2 DEF BankTypeOK, Rows
<1> HIDE DEF n
<1>4. /\ question' \in [Questions -> QuestionRow \cup {NoRow}]
      /\ question'[q] \in QuestionRow
      /\ question'[q].used = n + 1 /\ question'[q].votes = question[q].votes
      /\ \A x \in Questions \ {q} : question'[x] = question[x]
  BY <1>1, <1>2 DEF BankTypeOK, QuestionRow
<1>5. BankTypeOK'
  BY <1>1, <1>3, <1>4, LeaveType DEF BankTypeOK
<1>6. \A x, does : Counts(x, does) =>
         /\ Stored(x)' = Stored(x)
         /\ IF x = q /\ does = "next"
            THEN Shown(x, does)' = n + 1 /\ Total(x, does)' = Total(x, does) + 1
            ELSE /\ Total(x, does)' = Total(x, does)
                 /\ Stored(x) => Shown(x, does)' = Shown(x, does)
  BY <1>1, <1>2, <1>3, <1>4 DEF Counts, Stored, Shown, Total, VotesFor, Rows
<1> QED
  BY <1>1, <1>5, <1>6, LeaveType, BankCounted DEF n

LEMMA CommitTipInv ==
    ASSUME BankInv, NEW v \in Visitors, CommitTip(v)
    PROVE  BankInv'
<1> DEFINE t == qreq[v].row
           n == Seen(qreq[v])
<1>1. /\ BankTypeOK /\ qreq[v].does = "tip" /\ Leave(v)
      /\ tip' = [tip EXCEPT ![t].votes = n + 1]
      /\ served' = [served EXCEPT ![t] = @ + 1]
      /\ UNCHANGED <<question, upvotes, raced, orphaned>>
  BY DEF BankInv, CommitTip, Seen
<1>2. /\ t \in Tips /\ tip[t] \in TipRow /\ Stored(t) /\ n \in Nat
  BY <1>1, SeenType DEF BankInv, BankTypeOK, Counts, SeenTrue, Stored
<1>3. /\ served' \in [Rows -> Nat] /\ served'[t] = served[t] + 1
      /\ \A x \in Rows \ {t} : served'[x] = served[x]
  BY <1>1, <1>2 DEF BankTypeOK, Rows
<1> HIDE DEF n
<1>4. /\ tip' \in [Tips -> TipRow \cup {NoRow}]
      /\ tip'[t] \in TipRow /\ tip'[t].votes = n + 1
      /\ \A x \in Tips \ {t} : tip'[x] = tip[x]
  BY <1>1, <1>2 DEF BankTypeOK, TipRow
<1>5. BankTypeOK'
  BY <1>1, <1>3, <1>4, LeaveType DEF BankTypeOK
<1>6. \A x, does : Counts(x, does) =>
         /\ Stored(x)' = Stored(x)
         /\ IF x = t /\ does = "tip"
            THEN Shown(x, does)' = n + 1 /\ Total(x, does)' = Total(x, does) + 1
            ELSE /\ Total(x, does)' = Total(x, does)
                 /\ Stored(x) => Shown(x, does)' = Shown(x, does)
  BY <1>1, <1>2, <1>3, <1>4 DEF Counts, Stored, Shown, Total, VotesFor, Rows
<1> QED
  BY <1>1, <1>5, <1>6, LeaveType, BankCounted DEF n

LEMMA CommitVoteInv ==
    ASSUME BankInv, NEW v \in Visitors, CommitVote(v)
    PROVE  BankInv'
<1> SUFFICES ASSUME NEW q, NEW u, NEW n, q = qreq[v].row, u = qreq[v].user, n = Seen(qreq[v])
             PROVE  BankInv'
  OBVIOUS
<1>1. /\ BankTypeOK /\ qreq[v].does = "vote" /\ Leave(v)
      /\ UNCHANGED <<tip, served, raced, orphaned>>
  BY DEF BankInv, CommitVote
<1>2. CASE <<q, u>> \in upvotes \/ u \in goneVoters
  BY <1>1, <1>2, LeaveInv DEF CommitVote
<1>3. CASE ~(<<q, u>> \in upvotes \/ u \in goneVoters)
  <2>1. /\ upvotes' = upvotes \cup {<<q, u>>}
        /\ question' = [question EXCEPT ![q].votes = n + 1]
    BY <1>1, <1>3 DEF CommitVote, Seen
  <2>2. /\ q \in Questions /\ question[q] \in QuestionRow /\ Stored(q) /\ n \in Nat
        /\ u \in Voters
    BY <1>1, SeenType DEF BankInv, BankTypeOK, Counts, SeenTrue, Stored, Selecting
  <2>3. /\ question' \in [Questions -> QuestionRow \cup {NoRow}]
        /\ question'[q] \in QuestionRow
        /\ question'[q].votes = n + 1 /\ question'[q].used = question[q].used
        /\ \A x \in Questions \ {q} : question'[x] = question[x]
    BY <1>1, <2>1, <2>2 DEF BankTypeOK, QuestionRow
  <2>4. upvotes' \subseteq Questions \X Voters /\ IsFiniteSet(upvotes')
    <3>1. IsFiniteSet(upvotes \cup {<<q, u>>})
      BY <1>1, FS_AddElement DEF BankTypeOK
    <3> QED
      BY <1>1, <2>1, <2>2, <3>1 DEF BankTypeOK
  <2>5. BankTypeOK'
    BY <1>1, <2>3, <2>4, LeaveType DEF BankTypeOK
  <2>6. Cardinality(VotesFor(q))' = Cardinality(VotesFor(q)) + 1
    <3>1. VotesFor(q)' = VotesFor(q) \cup {<<q, u>>}
      BY <2>1 DEF VotesFor
    <3>2. <<q, u>> \notin VotesFor(q)
      BY <1>3 DEF VotesFor
    <3>3. IsFiniteSet(VotesFor(q))
      BY <1>1, FS_Subset DEF BankTypeOK, VotesFor
    <3>4. Cardinality(VotesFor(q) \cup {<<q, u>>}) = Cardinality(VotesFor(q)) + 1
      BY <3>2, <3>3, FS_AddElement
    <3> QED
      BY <3>1, <3>4
  <2>7. \A x : x # q => VotesFor(x)' = VotesFor(x)
    BY <2>1 DEF VotesFor
  <2>8. Total(q, "vote")' = Total(q, "vote") + 1
    <3>1. Total(q, "vote") = Cardinality(VotesFor(q)) + orphaned[q]
      BY DEF Total
    <3>2. Total(q, "vote")' = Cardinality(VotesFor(q))' + orphaned[q]
      BY <1>1, <2>2 DEF Total
    <3>3. Cardinality(VotesFor(q)) \in Nat /\ orphaned[q] \in Nat
      BY <1>1, <2>2, FS_Subset, FS_CardinalityType DEF BankTypeOK, VotesFor
    <3> QED
      BY <2>6, <3>1, <3>2, <3>3
  <2>9. \A x, does : Counts(x, does) =>
           /\ Stored(x)' = Stored(x)
           /\ IF x = q /\ does = "vote"
              THEN Shown(x, does)' = n + 1 /\ Total(x, does)' = Total(x, does) + 1
              ELSE /\ Total(x, does)' = Total(x, does)
                   /\ Stored(x) => Shown(x, does)' = Shown(x, does)
    <3>1. ASSUME NEW x, NEW does, Counts(x, does)
          PROVE  /\ Stored(x)' = Stored(x)
                 /\ IF x = q /\ does = "vote" THEN Shown(x, does)' = n + 1
                    ELSE Stored(x) => Shown(x, does)' = Shown(x, does)
      BY <1>1, <2>2, <2>3, <3>1 DEF Counts, Stored, Shown
    <3>2. ASSUME NEW x, NEW does, Counts(x, does), ~(x = q /\ does = "vote")
          PROVE  Total(x, does)' = Total(x, does)
      BY <1>1, <2>7, <3>2 DEF Total
    <3> QED
      BY <2>8, <3>1, <3>2
  <2> QED
    BY <1>1, <2>5, <2>9, LeaveType, BankCounted
<1> QED
  BY <1>2, <1>3

LEMMA VoterLeavesInv ==
    ASSUME BankInv, NEW u \in Voters, VoterLeaves(u)
    PROVE  BankInv'
<1>1. /\ BankTypeOK /\ UNCHANGED <<question, tip, qreq, served, raced>>
      /\ upvotes' = {p \in upvotes : p[2] # u}
      /\ orphaned' = [q \in Questions |-> orphaned[q] + IF <<q, u>> \in upvotes THEN 1 ELSE 0]
  BY DEF BankInv, VoterLeaves
<1>2. upvotes' \subseteq Questions \X Voters /\ IsFiniteSet(upvotes')
  BY <1>1, FS_Subset DEF BankTypeOK
<1>3. orphaned' \in [Questions -> Nat]
  BY <1>1 DEF BankTypeOK
<1>4. BankTypeOK'
  BY <1>1, <1>2, <1>3 DEF BankTypeOK
<1>5. ASSUME NEW x \in Questions PROVE Total(x, "vote")' = Total(x, "vote")
  <2>1. VotesFor(x)' = VotesFor(x) \ {<<x, u>>}
    <3>1. \A p \in upvotes : p = <<p[1], p[2]>>
      BY <1>1 DEF BankTypeOK
    <3> QED
      BY <1>1, <3>1 DEF VotesFor
  <2>2. IsFiniteSet(VotesFor(x)) /\ (<<x, u>> \in VotesFor(x) <=> <<x, u>> \in upvotes)
    BY <1>1, FS_Subset DEF BankTypeOK, VotesFor
  <2>3. /\ Cardinality(VotesFor(x) \ {<<x, u>>}) =
              IF <<x, u>> \in VotesFor(x) THEN Cardinality(VotesFor(x)) - 1
              ELSE Cardinality(VotesFor(x))
        /\ Cardinality(VotesFor(x)) \in Nat
    BY <2>2, FS_RemoveElement, FS_CardinalityType
  <2>4. Cardinality(VotesFor(x))' =
           IF <<x, u>> \in upvotes THEN Cardinality(VotesFor(x)) - 1
           ELSE Cardinality(VotesFor(x))
    BY <2>1, <2>2, <2>3
  <2>5. orphaned'[x] = orphaned[x] + (IF <<x, u>> \in upvotes THEN 1 ELSE 0)
        /\ orphaned[x] \in Nat
    BY <1>1 DEF BankTypeOK
  <2> QED
    BY <2>3, <2>4, <2>5 DEF Total
<1>6. \A x, does : Counts(x, does) =>
         /\ Total(x, does)' = Total(x, does)
         /\ Stored(x)' = Stored(x) /\ Shown(x, does)' = Shown(x, does)
  BY <1>1, <1>5 DEF Counts, Stored, Shown, Total
<1> QED
  BY <1>1, <1>4, <1>6, BankKept

(* Contribute, Moderate and SubmitTip change one row, and no counter of a row that is there. *)
LEMMA RowAdded ==
    ASSUME BankInv, NEW v \in Visitors, Leave(v), UNCHANGED <<upvotes, served, raced, orphaned>>,
           question' \in [Questions -> QuestionRow \cup {NoRow}],
           tip' \in [Tips -> TipRow \cup {NoRow}],
           \A x \in Questions :
               IF question[x] = NoRow
               THEN question'[x] # NoRow => question'[x].used = 0 /\ question'[x].votes = 0
               ELSE /\ question'[x] # NoRow /\ question'[x].used = question[x].used
                    /\ question'[x].votes = question[x].votes,
           \A x \in Tips :
               IF tip[x] = NoRow THEN tip'[x] # NoRow => tip'[x].votes = 0 ELSE tip'[x] = tip[x]
    PROVE  BankInv'
<1>1. BankTypeOK
  BY DEF BankInv
<1>2. BankTypeOK' /\ \A o \in Visitors : qreq'[o].does # NoRow => qreq'[o] = qreq[o]
  BY <1>1, LeaveType DEF BankTypeOK
<1>3. \A x, does : Counts(x, does) =>
         /\ Total(x, does)' = Total(x, does)
         /\ Stored(x) => Stored(x)' /\ Shown(x, does)' = Shown(x, does)
         /\ ~Stored(x) /\ Stored(x)' => Shown(x, does)' = 0
  BY DEF Total, VotesFor, Stored, Shown, Counts
<1> QED
  BY <1>2, <1>3, BankKept

LEMMA ContributeInv ==
    ASSUME BankInv, NEW v \in Visitors, NEW q \in Questions, Contribute(v, q)
    PROVE  BankInv'
<1>1. /\ BankTypeOK /\ Leave(v) /\ UNCHANGED <<tip, upvotes, served, raced, orphaned>>
  BY DEF BankInv, Contribute
<1>2. CASE UNCHANGED question
  BY <1>1, <1>2, LeaveInv
<1>3. CASE question[q] = NoRow /\ question' = [question EXCEPT ![q] = NewQuestion("pending")]
  <2>1. /\ NewQuestion("pending") \in QuestionRow
        /\ NewQuestion("pending").used = 0 /\ NewQuestion("pending").votes = 0
    BY DEF NewQuestion, QuestionRow
  <2>2. /\ question' \in [Questions -> QuestionRow \cup {NoRow}]
        /\ question'[q] = NewQuestion("pending")
        /\ \A x \in Questions \ {q} : question'[x] = question[x]
    BY <1>1, <1>3, <2>1 DEF BankTypeOK
  <2> QED
    BY <1>1, <1>3, <2>1, <2>2, RowAdded DEF BankTypeOK
<1> QED
  BY <1>2, <1>3 DEF Contribute

LEMMA ModerateInv ==
    ASSUME BankInv, NEW v \in Visitors, NEW q \in Questions,
           NEW status \in {"approved", "rejected"}, Moderate(v, q, status)
    PROVE  BankInv'
<1>1. /\ BankTypeOK /\ Leave(v) /\ UNCHANGED <<tip, upvotes, served, raced, orphaned>>
      /\ question[q] # NoRow /\ question' = [question EXCEPT ![q].status = status]
  BY DEF BankInv, Moderate
<1>2. question[q] \in QuestionRow
  BY <1>1 DEF BankTypeOK
<1>3. /\ question' \in [Questions -> QuestionRow \cup {NoRow}]
      /\ question'[q] \in QuestionRow
      /\ question'[q].used = question[q].used /\ question'[q].votes = question[q].votes
      /\ \A x \in Questions \ {q} : question'[x] = question[x]
  BY <1>1, <1>2 DEF BankTypeOK, QuestionRow
<1> QED
  BY <1>1, <1>3, RowAdded DEF BankTypeOK

LEMMA SubmitTipInv ==
    ASSUME BankInv, NEW v \in Visitors, NEW t \in Tips, SubmitTip(v, t)
    PROVE  BankInv'
<1>1. /\ BankTypeOK /\ Leave(v) /\ UNCHANGED <<question, upvotes, served, raced, orphaned>>
  BY DEF BankInv, SubmitTip
<1>2. CASE UNCHANGED tip
  BY <1>1, <1>2, LeaveInv
<1>3. CASE tip[t] = NoRow /\ tip' = [tip EXCEPT ![t] = [votes |-> 0]]
  <2>1. /\ tip' \in [Tips -> TipRow \cup {NoRow}] /\ tip'[t].votes = 0
        /\ \A x \in Tips \ {t} : tip'[x] = tip[x]
    BY <1>1, <1>3 DEF BankTypeOK, TipRow
  <2> QED
    BY <1>1, <1>3, <2>1, RowAdded DEF BankTypeOK
<1> QED
  BY <1>2, <1>3 DEF SubmitTip

LEMMA BankNextInv == BankInv /\ [BankNext]_bankVars => BankInv'
<1> SUFFICES ASSUME BankInv, [BankNext]_bankVars PROVE BankInv'
  OBVIOUS
<1>1. ASSUME NEW v \in Visitors, NEW q \in Questions, NEW u \in Voters, UpvoteQuestion(v, q, u)
      PROVE  BankInv'
  <2>1. CASE question[q] = NoRow
    BY <1>1, <2>1, LeaveInv DEF UpvoteQuestion
  <2>2. CASE question[q] # NoRow
    BY <1>1, <2>2, HoldInv DEF UpvoteQuestion, Counts, Stored
  <2> QED
    BY <2>1, <2>2
<1>2. ASSUME NEW v \in Visitors, NEW t \in Tips, UpvoteTip(v, t)
      PROVE  BankInv'
  <2>1. CASE tip[t] = NoRow
    BY <1>2, <2>1, LeaveInv DEF UpvoteTip
  <2>2. CASE tip[t] # NoRow
    <3>1. Counts(t, "tip") /\ Stored(t)
      BY <2>2 DEF Counts, Stored
    <3> QED
      BY <1>2, <2>2, <3>1, HoldInv DEF UpvoteTip
  <2> QED
    BY <2>1, <2>2
<1>3. ASSUME NEW v \in Visitors, NEW skills, NEW type, NEW company,
             NextQuestion(v, skills, type, company)
      PROVE  BankInv'
  BY <1>3, NextQuestionInv
<1>4. ASSUME NEW v \in Visitors, CommitNext(v) \/ CommitVote(v) \/ CommitTip(v)
      PROVE  BankInv'
  BY <1>4, CommitNextInv, CommitVoteInv, CommitTipInv
<1>5. ASSUME NEW v \in Visitors, NEW q \in Offered, Contribute(v, q)
      PROVE  BankInv'
  BY <1>5, ContributeInv DEF Questions
<1>6. CASE UNCHANGED bankVars
  <2>1. UNCHANGED <<question, tip, upvotes, served, orphaned, raced, qreq>>
    BY <1>6 DEF bankVars
  <2>2. \A x, does : /\ Total(x, does)' = Total(x, does)
                     /\ Stored(x)' = Stored(x) /\ Shown(x, does)' = Shown(x, does)
    BY <2>1 DEF Total, VotesFor, Stored, Shown
  <2>3. BankTypeOK'
    BY <2>1 DEF BankInv, BankTypeOK
  <2> QED
    BY <2>1, <2>2, <2>3, BankKept
<1> QED
  BY <1>1, <1>2, <1>3, <1>4, <1>5, <1>6, VoterLeavesInv, ModerateInv, SubmitTipInv
  DEF BankNext

(* A question's upvotes are the rows of question_upvotes, one per user, and the votes of deleted
   accounts; times_used and a tip's upvotes are the requests that were answered.  Requests that
   overlap on a row may lose an increment, never add one (questions.py, companies.py). *)
THEOREM CountersCount == BankSpec => []CountersTrue
<1>1. ASSUME BankInv PROVE CountersTrue
  <2>1. ASSUME NEW q \in Listed
        PROVE  LET votes == Cardinality({p \in upvotes : p[1] = q}) + orphaned[q] IN
                /\ question[q].votes <= votes /\ question[q].used <= served[q]
                /\ q \notin raced => question[q].votes = votes /\ question[q].used = served[q]
    <3>1. Stored(q) /\ Counts(q, "next") /\ Counts(q, "vote")
      BY DEF Listed, Stored, Counts
    <3>2. CounterTrue(q, "next") /\ CounterTrue(q, "vote")
      BY <1>1, <3>1 DEF BankInv
    <3> QED
      BY <3>1, <3>2 DEF CounterTrue, Shown, Total, VotesFor
  <2>2. ASSUME NEW t \in Tips, tip[t] # NoRow
        PROVE  /\ tip[t].votes <= served[t]
               /\ t \notin raced => tip[t].votes = served[t]
    <3>1. Stored(t) /\ Counts(t, "tip")
      BY <2>2 DEF Stored, Counts
    <3>2. CounterTrue(t, "tip")
      BY <1>1, <3>1 DEF BankInv
    <3> QED
      BY <3>1, <3>2 DEF CounterTrue, Shown, Total
  <2> QED
    BY <2>1, <2>2 DEF CountersTrue
<1> QED
  BY <1>1, BankInitInv, BankNextInv, PTL DEF BankSpec

-------------------------------------------------------------------------------
(* StoryBank *)

StoryRequest ==
    [at : {"new", "llm", "offer", "commit", "end"}, does : {"update", "delete", "merge", Gone},
     row : StoryIds \cup {Gone}, copy : StoryRow \cup {Gone},
     new : StoryRow \cup Interviews \cup {Gone}]

(* A merge without a row inserts one that is used once. *)
Inserts(q) ==
    /\ q.does = "merge" /\ q.new \in StoryRow
    /\ q.new.used = 1 /\ q.new.best \in Averages /\ ~q.new.warned

(* Edits keep the figures, a merge counts one more use and keeps the best average. *)
Changes(q) ==
    /\ q.copy \in StoryRow
    /\ q.does # "delete" =>
         /\ q.new \in StoryRow /\ (q.new.warned => q.copy.warned \/ Overused(q.copy))
         /\ \/ /\ q.does = "update" /\ q.new.used = q.copy.used /\ q.new.best = q.copy.best
            \/ /\ q.does = "merge" /\ q.new.used = q.copy.used + 1 /\ q.new.best \in Averages
               /\ q.copy.best # Gone => q.copy.best <= q.new.best

Writing(q) ==
    IF q.at = "commit"
    THEN IF q.row = Gone THEN Inserts(q) ELSE Changes(q)
    ELSE q.row = Gone

StoryTypeOK ==
    /\ story \in [StoryIds -> StoryRow \cup {Gone}]
    /\ treq \in [Tellers -> StoryRequest]
    /\ merged \in [StoryIds -> [n : Nat, best : Nat]]
    /\ \A s \in StoryIds : merged[s].n = 0 => merged[s].best = 0
    /\ \A t \in Tellers : Writing(treq[t])

(* The figures of a row, given the builds merged into it. *)
FiguresOf(row, m) ==
    /\ row.used = m.n /\ row.best = (IF m.n = 0 THEN Gone ELSE m.best)
    /\ row.warned => m.n >= OveruseThreshold

FiguresKept == \A s \in Kept \ clashed : FiguresOf(story[s], merged[s])

RowsRead ==
    \A t \in Tellers : treq[t].row \in StoryIds \ clashed => treq[t].copy = story[treq[t].row]

OneWriter ==
    \A t, u \in Tellers :
        treq[t].row \in StoryIds \ clashed /\ treq[t].row = treq[u].row => t = u

StoryInv == StoryTypeOK /\ FiguresKept /\ RowsRead /\ OneWriter

USE StoryAssumption

LEMMA QuietType ==
    /\ Quiet \in StoryRequest /\ [Quiet EXCEPT !.at = "end"] \in StoryRequest
    /\ Quiet.row = Gone /\ [Quiet EXCEPT !.at = "end"].row = Gone
    /\ Writing(Quiet) /\ Writing([Quiet EXCEPT !.at = "end"])
  BY DEF Quiet, StoryRequest, Writing

LEMMA MaxOfTwo ==
    ASSUME NEW a \in Nat, NEW b \in Nat
    PROVE  Max({a, b}) = IF a >= b THEN a ELSE b
<1>1. \E x \in {a, b} : \A y \in {a, b} : x >= y
  OBVIOUS
<1>2. Max({a, b}) \in {a, b} /\ \A y \in {a, b} : Max({a, b}) >= y
  BY <1>1 DEF Max
<1> QED
  BY <1>2

LEMMA StoryInitInv == StoryInit => StoryInv
<1> SUFFICES ASSUME StoryInit PROVE StoryInv
  OBVIOUS
<1>1. /\ \A s \in StoryIds : story[s] = Gone
      /\ \A t \in Tellers : treq[t] = Quiet
  BY DEF StoryInit
<1>2. StoryTypeOK
  BY QuietType DEF StoryInit, StoryTypeOK
<1> QED
  BY <1>1, <1>2, QuietType DEF StoryInv, FiguresKept, Kept, RowsRead, OneWriter

(* Rows are added under unused ids, and no request holds a row it did not hold. *)
LEMMA StoriesAdded ==
    ASSUME StoryInv, UNCHANGED <<merged, clashed>>,
           treq' \in [Tellers -> StoryRequest],
           \A t \in Tellers : /\ Writing(treq'[t])
                              /\ treq'[t].row \in StoryIds => treq'[t] = treq[t],
           story' \in [StoryIds -> StoryRow \cup {Gone}],
           \A s \in StoryIds : story'[s] # story[s] =>
               /\ s \in Unused
               /\ story'[s].used = 0 /\ story'[s].best = Gone /\ ~story'[s].warned
    PROVE  StoryInv'
<1>1. StoryTypeOK'
  BY DEF StoryInv, StoryTypeOK
<1>2. ASSUME NEW s \in StoryIds, story'[s] # Gone, s \notin clashed
      PROVE  FiguresOf(story'[s], merged[s])
  <2>1. CASE story'[s] = story[s]
    BY <1>2, <2>1 DEF StoryInv, FiguresKept, Kept
  <2>2. CASE story'[s] # story[s]
    BY <2>2 DEF Unused, FiguresOf
  <2> QED
    BY <2>1, <2>2
<1>3. FiguresKept'
  BY <1>2 DEF FiguresKept, Kept
<1>4. RowsRead'
  BY DEF StoryInv, RowsRead, Unused
<1>5. OneWriter'
  BY DEF StoryInv, OneWriter
<1> QED
  BY <1>1, <1>3, <1>4, <1>5 DEF StoryInv

LEMMA DoneType ==
    ASSUME StoryTypeOK, NEW t \in Tellers, Done(t)
    PROVE  /\ treq' \in [Tellers -> StoryRequest] /\ treq'[t].row = Gone
           /\ \A u \in Tellers \ {t} : treq'[u] = treq[u]
           /\ \A u \in Tellers : /\ Writing(treq'[u])
                                 /\ treq'[u].row \in StoryIds => treq'[u] = treq[u]
<1>1. /\ treq' \in [Tellers -> StoryRequest] /\ treq'[t].row = Gone
      /\ treq'[t] = [Quiet EXCEPT !.at = "end"]
      /\ \A u \in Tellers \ {t} : treq'[u] = treq[u]
  BY QuietType DEF StoryTypeOK, Done
<1> QED
  BY <1>1, QuietType DEF StoryTypeOK

LEMMA DoneInv ==
    ASSUME StoryInv, NEW t \in Tellers, Done(t), UNCHANGED <<story, merged, clashed>>
    PROVE  StoryInv'
<1>1. StoryTypeOK /\ story' \in [StoryIds -> StoryRow \cup {Gone}]
  BY DEF StoryInv, StoryTypeOK
<1> QED
  BY <1>1, DoneType, StoriesAdded

LEMMA CreateStoryInv ==
    ASSUME StoryInv, NEW t \in Tellers, NEW title \in Titles, NEW comps \in SUBSET Competencies,
           NEW session \in Interviews \cup {Gone}, CreateStory(t, title, comps, session)
    PROVE  StoryInv'
<1> DEFINE new == NewStory(title, comps, session, 0, Gone)
<1>1. StoryTypeOK /\ Done(t) /\ UNCHANGED <<merged, clashed>>
  BY DEF StoryInv, CreateStory
<1>2. PICK s \in Unused : story' = [story EXCEPT ![s] = new]
  BY DEF CreateStory
<1>3. new \in StoryRow /\ new.used = 0 /\ new.best = Gone /\ ~new.warned
  BY DEF NewStory, StoryRow
<1> HIDE DEF new
<1>4. /\ story' \in [StoryIds -> StoryRow \cup {Gone}]
      /\ \A r \in StoryIds : story'[r] # story[r] => r = s /\ story'[r] = new
  BY <1>1, <1>2, <1>3 DEF StoryTypeOK, Unused
<1>5. \A r \in StoryIds : story'[r] # story[r] =>
         r \in Unused /\ story'[r].used = 0 /\ story'[r].best = Gone /\ ~story'[r].warned
  BY <1>3, <1>4
<1> QED
  BY <1>1, <1>4, <1>5, DoneType, StoriesAdded

LEMMA DetectStoriesInv ==
    ASSUME StoryInv, NEW t \in Tellers, NEW session \in Interviews, NEW titles \in SUBSET Titles,
           DetectStories(t, session, titles)
    PROVE  StoryInv'
<1> DEFINE new(x) == NewStory(x, {}, session, 0, Gone)
<1>1. StoryTypeOK /\ Done(t) /\ UNCHANGED <<merged, clashed>>
  BY DEF StoryInv, DetectStories
<1>2. PICK row \in [titles -> Unused] :
         story' = [s \in StoryIds |->
             IF \E x \in titles : row[x] = s THEN new(CHOOSE x \in titles : row[x] = s)
             ELSE story[s]]
  BY DEF DetectStories
<1>3. \A x \in titles : /\ new(x) \in StoryRow /\ new(x).used = 0 /\ new(x).best = Gone
                        /\ ~new(x).warned
  BY DEF NewStory, StoryRow
<1> HIDE DEF new
<1>4. ASSUME NEW s \in StoryIds
      PROVE  /\ story'[s] \in StoryRow \cup {Gone}
             /\ story'[s] # story[s] =>
                  s \in Unused /\ story'[s].used = 0 /\ story'[s].best = Gone /\ ~story'[s].warned
  <2>1. CASE \E x \in titles : row[x] = s
    <3>1. (CHOOSE x \in titles : row[x] = s) \in titles /\ s \in Unused
      BY <2>1
    <3>2. story'[s] = new(CHOOSE x \in titles : row[x] = s)
      BY <1>2, <2>1
    <3> QED
      BY <1>3, <3>1, <3>2
  <2>2. CASE ~\E x \in titles : row[x] = s
    BY <1>1, <1>2, <2>2 DEF StoryTypeOK
  <2> QED
    BY <2>1, <2>2
<1>5. story' \in [StoryIds -> StoryRow \cup {Gone}]
  <2>1. story' = [s \in StoryIds |-> story'[s]]
    BY <1>2
  <2> QED
    BY <1>4, <2>1
<1> QED
  BY <1>1, <1>4, <1>5, DoneType, StoriesAdded

(* ProposeStory and ProposalAnswer: a request that goes on without a row. *)
LEMMA ProposalInv ==
    ASSUME StoryInv, NEW t \in Tellers, NEW q \in StoryRequest, q.row = Gone, Writing(q),
           treq' = [treq EXCEPT ![t] = q], UNCHANGED <<story, merged, clashed>>
    PROVE  StoryInv'
<1>1. StoryTypeOK /\ story' \in [StoryIds -> StoryRow \cup {Gone}]
  BY DEF StoryInv, StoryTypeOK
<1>2. /\ treq' \in [Tellers -> StoryRequest] /\ treq'[t] = q
      /\ \A u \in Tellers \ {t} : treq'[u] = treq[u]
  BY <1>1 DEF StoryTypeOK
<1>3. \A u \in Tellers : Writing(treq'[u]) /\ (treq'[u].row \in StoryIds => treq'[u] = treq[u])
  BY <1>1, <1>2 DEF StoryTypeOK
<1> QED
  BY <1>1, <1>2, <1>3, StoriesAdded

LEMMA HoldStoryInv ==
    ASSUME StoryInv, NEW t \in Tellers, treq[t].at = "new",
           NEW does \in {"update", "delete", "merge"}, NEW s \in StoryIds \cup {Gone}, NEW new,
           HoldStory(t, does, s, new), new \in StoryRow \cup {Gone}, s # Gone => s \in Kept,
           Writing([at |-> "commit", does |-> does, row |-> s,
                    copy |-> IF s = Gone THEN Gone ELSE story[s], new |-> new])
    PROVE  StoryInv'
<1> DEFINE copy == IF s = Gone THEN Gone ELSE story[s]
           q == [at |-> "commit", does |-> does, row |-> s, copy |-> copy, new |-> new]
<1>1. /\ StoryTypeOK /\ UNCHANGED <<story, merged>> /\ treq' = [treq EXCEPT ![t] = q]
      /\ clashed' = IF s # Gone /\ \E o \in Tellers : treq[o].row = s
                    THEN clashed \cup {s} ELSE clashed
  BY DEF StoryInv, HoldStory
<1>2. q \in StoryRequest /\ Writing(q)
  <2>1. copy \in StoryRow \cup {Gone}
    BY <1>1 DEF StoryTypeOK
  <2> QED
    BY <2>1 DEF StoryRequest
<1>3. q.row = s /\ (s # Gone => q.copy = story[s])
  OBVIOUS
<1> HIDE DEF q
<1>4. /\ treq' \in [Tellers -> StoryRequest] /\ treq'[t] = q
      /\ \A u \in Tellers \ {t} : treq'[u] = treq[u]
  BY <1>1, <1>2 DEF StoryTypeOK
<1>5. StoryTypeOK'
  BY <1>1, <1>2, <1>4 DEF StoryTypeOK
<1>6. clashed \subseteq clashed'
  BY <1>1
<1>7. FiguresKept'
  BY <1>1, <1>6 DEF StoryInv, FiguresKept, Kept
<1>8. ASSUME NEW u \in Tellers, treq'[u].row \in StoryIds \ clashed'
      PROVE  treq'[u].copy = story[treq'[u].row]
  BY <1>3, <1>4, <1>6, <1>8 DEF StoryInv, RowsRead
<1>9. \A u \in Tellers : s # Gone /\ treq[u].row = s => s \in clashed'
  BY <1>1
<1>10. OneWriter'
  BY <1>3, <1>4, <1>6, <1>9 DEF StoryInv, OneWriter
<1>11. RowsRead'
  BY <1>1, <1>8 DEF RowsRead
<1> QED
  BY <1>5, <1>7, <1>10, <1>11 DEF StoryInv

LEMMA UpdateStoryInv ==
    ASSUME StoryInv, NEW t \in Tellers, NEW s \in StoryIds, NEW title \in Titles,
           NEW comps \in (SUBSET Competencies) \cup {Gone}, UpdateStory(t, s, title, comps)
    PROVE  StoryInv'
<1> DEFINE row == story[s]
           new == IF comps = Gone THEN [row EXCEPT !.title = title]
                  ELSE [row EXCEPT !.title = title, !.comps = comps, !.warned = Overused(row)]
           q == [at |-> "commit", does |-> "update", row |-> s, copy |-> row, new |-> new]
<1>1. row \in StoryRow /\ treq[t].at = "new" /\ s \in Kept /\ s # Gone
  BY DEF StoryInv, StoryTypeOK, UpdateStory, Kept
<1>2. Overused(row) \in BOOLEAN
  BY DEF Overused
<1>3. /\ new \in StoryRow /\ new.used = row.used /\ new.best = row.best
      /\ new.warned => row.warned \/ Overused(row)
  <2>1. CASE comps = Gone
    BY <1>1, <2>1 DEF StoryRow
  <2>2. CASE comps # Gone
    <3> DEFINE new2 == [row EXCEPT !.title = title, !.comps = comps, !.warned = Overused(row)]
    <3>1. /\ new2 \in StoryRow /\ new2.used = row.used /\ new2.best = row.best
      BY <1>1, <1>2, <2>2, Zenon DEF StoryRow
    <3>2. new2.warned = Overused(row)
      BY <1>1 DEF StoryRow
    <3> QED
      BY <2>2, <3>1, <3>2
  <2> QED
    BY <2>1, <2>2
<1>4. HoldStory(t, "update", s, new)
  BY DEF UpdateStory
<1> HIDE DEF new
<1>5. /\ q.at = "commit" /\ q.row = s /\ q.does = "update" /\ q.copy = row /\ q.new = new
  OBVIOUS
<1>6. Writing(q)
  <2> HIDE DEF q
  <2>1. Changes(q)
    BY <1>1, <1>3, <1>5 DEF Changes
  <2> QED
    BY <1>1, <1>5, <2>1 DEF Writing
<1> QED
  BY <1>1, <1>3, <1>4, <1>6, HoldStoryInv

LEMMA DeleteStoryInv ==
    ASSUME StoryInv, NEW t \in Tellers, NEW s \in StoryIds, DeleteStory(t, s)
    PROVE  StoryInv'
<1>1. story[s] \in StoryRow /\ treq[t].at = "new" /\ s \in Kept /\ s # Gone
  BY DEF StoryInv, StoryTypeOK, DeleteStory, Kept
<1>2. Writing([at |-> "commit", does |-> "delete", row |-> s, copy |-> story[s], new |-> Gone])
  BY <1>1 DEF Writing, Changes
<1> QED
  BY <1>1, <1>2, HoldStoryInv DEF DeleteStory

LEMMA MergeStoryInv ==
    ASSUME StoryInv, NEW t \in Tellers, NEW title \in Titles, NEW comps \in SUBSET Competencies,
           NEW session \in Interviews, NEW average \in Averages,
           MergeStory(t, title, comps, session, average)
    PROVE  StoryInv'
<1>1. StoryTypeOK /\ treq[t].at = "new" /\ average \in Nat
  BY DEF StoryInv, MergeStory
<1>2. CASE Done(t) /\ UNCHANGED <<story, merged, clashed>>
  BY <1>2, DoneInv
<1>3. CASE HoldStory(t, "merge", Gone, NewStory(title, comps, session, 1, average))
  <2> DEFINE new == NewStory(title, comps, session, 1, average)
             q == [at |-> "commit", does |-> "merge", row |-> Gone, copy |-> Gone, new |-> new]
  <2>1. new \in StoryRow /\ new.used = 1 /\ new.best = average /\ ~new.warned
    BY DEF NewStory, StoryRow
  <2> HIDE DEF new
  <2>2. Writing(q)
    BY <2>1 DEF Writing, Inserts
  <2> QED
    BY <1>1, <1>3, <2>1, <2>2, HoldStoryInv DEF new
<1>4. ASSUME NEW s \in Kept,
             HoldStory(t, "merge", s,
                 [story[s] EXCEPT !.used = @ + 1,
                      !.best = IF @ = Gone \/ @ < average THEN average ELSE @])
      PROVE  StoryInv'
  <2> DEFINE row == story[s]
             best == IF row.best = Gone \/ row.best < average THEN average ELSE row.best
             new == [row EXCEPT !.used = @ + 1, !.best = best]
             q == [at |-> "commit", does |-> "merge", row |-> s, copy |-> row, new |-> new]
  <2>1. row \in StoryRow /\ s \in StoryIds /\ s # Gone
    BY <1>1 DEF StoryTypeOK, Kept
  <2>2. row.used \in Nat /\ row.best \in Averages \cup {Gone}
    BY <2>1 DEF StoryRow
  <2>3. best \in Averages /\ (row.best # Gone => row.best <= best)
    <3>1. CASE row.best = Gone
      BY <3>1
    <3>2. CASE row.best # Gone
      <4>1. row.best \in Averages /\ row.best \in Nat /\ average \in Nat
        BY <1>1, <2>2, <3>2
      <4> HIDE DEF row
      <4> QED
        BY <3>2, <4>1
    <3> QED
      BY <3>1, <3>2
  <2>4. HoldStory(t, "merge", s, new)
    BY <1>4
  <2> HIDE DEF best
  <2>5. /\ new \in StoryRow /\ new.used = row.used + 1 /\ new.best = best
        /\ new.warned = row.warned
    <3> HIDE DEF row
    <3>1. row.used + 1 \in Nat
      BY <2>2
    <3>2. new \in StoryRow
      BY <2>1, <2>3, <3>1 DEF StoryRow
    <3> QED
      BY <2>1, <3>2 DEF StoryRow
  <2> HIDE DEF new
  <2>6. q.at = "commit" /\ q.row = s /\ q.does = "merge" /\ q.copy = row /\ q.new = new
    OBVIOUS
  <2>7. Writing(q)
    <3> HIDE DEF q
    <3>1. Changes(q)
      BY <2>1, <2>3, <2>5, <2>6 DEF Changes
    <3> QED
      BY <2>1, <2>6, <3>1 DEF Writing
  <2> QED
    BY <1>1, <2>1, <2>4, <2>5, <2>7, HoldStoryInv
<1> QED
  BY <1>2, <1>3, <1>4 DEF MergeStory

(* A commit changes the row that the request held, or adds one. *)
LEMMA StoryStored ==
    ASSUME StoryInv, NEW t \in Tellers, Done(t), UNCHANGED clashed,
           NEW s \in StoryIds, s \in Unused \/ treq[t].row = s,
           NEW row \in StoryRow \cup {Gone}, story' = [story EXCEPT ![s] = row],
           NEW m \in [n : Nat, best : Nat], merged' = [merged EXCEPT ![s] = m],
           m.n = 0 => m.best = 0, s \notin clashed /\ row # Gone => FiguresOf(row, m)
    PROVE  StoryInv'
<1>1. StoryTypeOK
  BY DEF StoryInv
<1>2. /\ treq' \in [Tellers -> StoryRequest] /\ treq'[t].row = Gone
      /\ \A u \in Tellers \ {t} : treq'[u] = treq[u]
      /\ \A u \in Tellers : Writing(treq'[u]) /\ (treq'[u].row \in StoryIds => treq'[u] = treq[u])
  BY <1>1, DoneType
<1>3. /\ story'[s] = row /\ merged'[s] = m
      /\ \A r \in StoryIds \ {s} : story'[r] = story[r] /\ merged'[r] = merged[r]
  BY <1>1 DEF StoryTypeOK
<1>4. StoryTypeOK'
  BY <1>1, <1>2, <1>3 DEF StoryTypeOK
<1>5. FiguresKept'
  <2> SUFFICES ASSUME NEW r \in StoryIds, story'[r] # Gone, r \notin clashed
               PROVE  FiguresOf(story'[r], merged'[r])
    BY DEF FiguresKept, Kept
  <2>1. CASE r = s
    BY <1>3, <2>1
  <2>2. CASE r # s
    BY <1>3, <2>2 DEF StoryInv, FiguresKept, Kept
  <2> QED
    BY <2>1, <2>2
<1>6. ASSUME NEW u \in Tellers, treq'[u].row \in StoryIds \ clashed
      PROVE  treq'[u].row # s /\ treq'[u] = treq[u]
  <2>1. u # t /\ treq'[u] = treq[u]
    BY <1>2, <1>6
  <2> QED
    BY <1>6, <2>1 DEF StoryInv, OneWriter, Unused
<1>7. RowsRead'
  BY <1>3, <1>6 DEF StoryInv, RowsRead
<1>8. OneWriter'
  BY <1>2, <1>6 DEF StoryInv, OneWriter
<1> QED
  BY <1>4, <1>5, <1>7, <1>8 DEF StoryInv

LEMMA MixedColumns ==
    ASSUME NEW row \in StoryRow, NEW copy \in StoryRow, NEW new \in StoryRow
    PROVE  /\ [c \in DOMAIN row |-> IF new[c] # copy[c] THEN new[c] ELSE row[c]] \in StoryRow
           /\ row = copy =>
                [c \in DOMAIN row |-> IF new[c] # copy[c] THEN new[c] ELSE row[c]] = new
  BY DEF StoryRow

(* The figures of a row that was held, after an edit and after a merge. *)
LEMMA EditedFigures ==
    ASSUME NEW q, Changes(q), q.does = "update", NEW m \in [n : Nat, best : Nat],
           FiguresOf(q.copy, m)
    PROVE  FiguresOf(q.new, m)
  BY DEF Changes, FiguresOf, Overused

LEMMA MergedFigures ==
    ASSUME NEW q, Changes(q), q.does = "merge", NEW m \in [n : Nat, best : Nat],
           m.n = 0 => m.best = 0, FiguresOf(q.copy, m)
    PROVE  FiguresOf(q.new, [n |-> m.n + 1, best |-> Max({m.best, q.new.best})])
<1>1. /\ q.new.used = q.copy.used + 1 /\ q.new.best \in Nat
      /\ q.copy.best # Gone => q.copy.best <= q.new.best
      /\ q.new.warned => q.copy.warned \/ q.copy.used >= OveruseThreshold
  BY DEF Changes, Overused
<1>2. m.n \in Nat /\ m.best \in Nat /\ OveruseThreshold \in Nat
  OBVIOUS
<1>3. Max({m.best, q.new.best}) = IF m.best >= q.new.best THEN m.best ELSE q.new.best
  BY <1>1, <1>2, MaxOfTwo
<1>4. Max({m.best, q.new.best}) = q.new.best
  BY <1>1, <1>2, <1>3 DEF FiguresOf
<1> QED
  BY <1>1, <1>2, <1>4 DEF FiguresOf

LEMMA CommitStoryInv ==
    ASSUME StoryInv, NEW t \in Tellers, CommitStory(t)
    PROVE  StoryInv'
<1> DEFINE q == treq[t]
           Grown(m) == [n |-> m.n + 1, best |-> Max({m.best, q.new.best})]
           Mixed(row) == [c \in DOMAIN row |-> IF q.new[c] # q.copy[c] THEN q.new[c] ELSE row[c]]
<1>1. /\ StoryTypeOK /\ Done(t) /\ UNCHANGED clashed
      /\ q.at = "commit" /\ q \in StoryRequest /\ Writing(q)
  BY DEF StoryInv, StoryTypeOK, CommitStory
<1>2. PICK s \in IF q.row = Gone THEN Unused ELSE {q.row} :
         /\ story' = [story EXCEPT ![s] =
                IF q.row = Gone THEN q.new
                ELSE IF @ = Gone \/ q.does = "delete" THEN Gone ELSE Mixed(@)]
         /\ merged' = IF q.does = "merge" /\ (q.row = Gone \/ story[s] # Gone)
                      THEN [merged EXCEPT ![s] = Grown(@)] ELSE merged
  BY DEF CommitStory
<1>3. s \in StoryIds /\ (s \in Unused \/ q.row = s)
  BY <1>1, <1>2 DEF StoryRequest, Unused
<1>4. /\ merged[s] \in [n : Nat, best : Nat] /\ merged = [merged EXCEPT ![s] = merged[s]]
      /\ merged[s].n = 0 => merged[s].best = 0
  BY <1>1, <1>3 DEF StoryTypeOK
<1>5. ASSUME q.new \in StoryRow, q.new.best \in Averages
      PROVE  /\ Grown(merged[s]) \in [n : Nat, best : Nat] /\ Grown(merged[s]).n # 0
             /\ Max({merged[s].best, q.new.best}) =
                   IF merged[s].best >= q.new.best THEN merged[s].best ELSE q.new.best
  <2>1. /\ Max({merged[s].best, q.new.best}) =
              IF merged[s].best >= q.new.best THEN merged[s].best ELSE q.new.best
        /\ q.new.best \in Nat /\ merged[s].best \in Nat /\ merged[s].n \in Nat
    BY <1>4, <1>5, MaxOfTwo
  <2> QED
    BY <2>1
<1>6. CASE q.row = Gone
  <2>1. Inserts(q)
    BY <1>1, <1>6 DEF Writing
  <2>2. s \in Unused /\ merged[s].n = 0 /\ merged[s].best = 0
    BY <1>2, <1>4, <1>6 DEF Unused
  <2>3. Grown(merged[s]) \in [n : Nat, best : Nat] /\ Grown(merged[s]).n # 0
    BY <1>5, <2>1 DEF Inserts
  <2>4. FiguresOf(q.new, Grown(merged[s]))
    <3>1. Max({0, q.new.best}) = q.new.best
      <4>1. q.new.best \in Nat /\ 0 \in Nat
        BY <2>1 DEF Inserts
      <4>2. Max({0, q.new.best}) = IF 0 >= q.new.best THEN 0 ELSE q.new.best
        BY <4>1, MaxOfTwo
      <4> QED
        BY <4>1, <4>2
    <3>2. Grown(merged[s]).n = 1 /\ Grown(merged[s]).best = q.new.best
      BY <2>2, <3>1
    <3> QED
      BY <2>1, <3>2 DEF Inserts, FiguresOf
  <2>5. story' = [story EXCEPT ![s] = q.new] /\ merged' = [merged EXCEPT ![s] = Grown(merged[s])]
    BY <1>2, <1>6, <2>1 DEF Inserts
  <2> HIDE DEF Grown
  <2> QED
    BY <1>1, <1>3, <2>1, <2>3, <2>4, <2>5, StoryStored DEF Inserts
<1>7. CASE q.row # Gone /\ (story[s] = Gone \/ q.does = "delete")
  <2>1. story' = [story EXCEPT ![s] = Gone] /\ merged' = [merged EXCEPT ![s] = merged[s]]
    BY <1>2, <1>4, <1>7
  <2> QED
    BY <1>1, <1>3, <1>4, <2>1, StoryStored
<1>8. CASE q.row # Gone /\ story[s] # Gone /\ q.does # "delete"
  <2>1. Changes(q) /\ q.new \in StoryRow /\ q.copy \in StoryRow /\ q.row = s
    BY <1>1, <1>2, <1>8 DEF Writing, Changes
  <2>2. story[s] \in StoryRow
    BY <1>1, <1>3, <1>8 DEF StoryTypeOK
  <2>3. Mixed(story[s]) \in StoryRow /\ (story[s] = q.copy => Mixed(story[s]) = q.new)
    BY <2>1, <2>2, MixedColumns
  <2>4. story' = [story EXCEPT ![s] = Mixed(story[s])]
    BY <1>2, <1>8
  <2>5. s \notin clashed => q.copy = story[s] /\ FiguresOf(q.copy, merged[s])
    BY <1>3, <1>8, <2>1 DEF StoryInv, RowsRead, FiguresKept, Kept
  <2> HIDE DEF Mixed
  <2>6. CASE q.does = "update"
    <3>1. merged' = [merged EXCEPT ![s] = merged[s]]
      BY <1>2, <1>4, <2>6
    <3>2. s \notin clashed => FiguresOf(Mixed(story[s]), merged[s])
      BY <1>4, <2>1, <2>3, <2>5, <2>6, EditedFigures
    <3> QED
      BY <1>1, <1>3, <1>4, <2>3, <2>4, <3>1, <3>2, StoryStored
  <2>7. CASE q.does = "merge"
    <3>1. merged' = [merged EXCEPT ![s] = Grown(merged[s])]
      BY <1>2, <1>8, <2>7
    <3>2. Grown(merged[s]) \in [n : Nat, best : Nat] /\ Grown(merged[s]).n # 0
      BY <1>5, <2>1, <2>7 DEF Changes
    <3>3. s \notin clashed => FiguresOf(Mixed(story[s]), Grown(merged[s]))
      BY <1>4, <2>1, <2>3, <2>5, <2>7, MergedFigures
    <3> HIDE DEF Grown
    <3> QED
      BY <1>1, <1>3, <2>3, <2>4, <3>1, <3>2, <3>3, StoryStored
  <2> QED
    BY <1>8, <2>1, <2>6, <2>7 DEF Changes
<1> QED
  BY <1>6, <1>7, <1>8

LEMMA StoryNextInv == StoryInv /\ [StoryNext]_storyVars => StoryInv'
<1> SUFFICES ASSUME StoryInv, [StoryNext]_storyVars PROVE StoryInv'
  OBVIOUS
<1>1. StoryTypeOK
  BY DEF StoryInv
<1>2. ASSUME NEW t \in Tellers, NEW session \in Interviews, ProposeStory(t, session)
      PROVE  StoryInv'
  <2>1. CASE Done(t)
    BY <1>2, <2>1, DoneInv DEF ProposeStory
  <2>2. CASE treq' = [treq EXCEPT ![t].at = "llm", ![t].new = session]
    <3> DEFINE q == [treq[t] EXCEPT !.at = "llm", !.new = session]
    <3>1. treq[t] \in StoryRequest /\ Writing(treq[t]) /\ treq[t].at = "new"
      BY <1>1, <1>2 DEF StoryTypeOK, ProposeStory
    <3>2. q \in StoryRequest /\ q.at = "llm" /\ q.row = treq[t].row
      BY <3>1 DEF StoryRequest
    <3>3. treq' = [treq EXCEPT ![t] = q]
      BY <1>1, <2>2 DEF StoryTypeOK
    <3> HIDE DEF q
    <3> QED
      BY <1>2, <3>1, <3>2, <3>3, ProposalInv DEF Writing, ProposeStory
  <2> QED
    BY <1>2, <2>1, <2>2 DEF ProposeStory
<1>3. ASSUME NEW t \in Tellers, ProposalAnswer(t)
      PROVE  StoryInv'
  <2>1. CASE Done(t)
    BY <1>3, <2>1, DoneInv DEF ProposalAnswer
  <2>2. CASE treq' = [treq EXCEPT ![t].at = "offer"]
    <3> DEFINE q == [treq[t] EXCEPT !.at = "offer"]
    <3>1. treq[t] \in StoryRequest /\ Writing(treq[t]) /\ treq[t].at = "llm"
      BY <1>1, <1>3 DEF StoryTypeOK, ProposalAnswer
    <3>2. q \in StoryRequest /\ q.at = "offer" /\ q.row = treq[t].row
      BY <3>1 DEF StoryRequest
    <3>3. treq' = [treq EXCEPT ![t] = q]
      BY <1>1, <2>2 DEF StoryTypeOK
    <3> HIDE DEF q
    <3> QED
      BY <1>3, <3>1, <3>2, <3>3, ProposalInv DEF Writing, ProposalAnswer
  <2> QED
    BY <1>3, <2>1, <2>2 DEF ProposalAnswer
<1>4. CASE UNCHANGED storyVars
  <2>1. UNCHANGED <<story, treq, merged, clashed>>
    BY <1>4 DEF storyVars
  <2>2. /\ treq' \in [Tellers -> StoryRequest] /\ story' \in [StoryIds -> StoryRow \cup {Gone}]
        /\ \A t \in Tellers : Writing(treq'[t])
    BY <1>1, <2>1 DEF StoryTypeOK
  <2> QED
    BY <2>1, <2>2, StoriesAdded
<1> QED
  BY <1>2, <1>3, <1>4, CreateStoryInv, UpdateStoryInv, DeleteStoryInv, DetectStoriesInv,
     MergeStoryInv, CommitStoryInv
  DEF StoryNext

(* What the coverage map, the warnings and the ranking say of a story is what its builds have
   merged, whoever renames or retags it in between, unless two writers overlap on the row
   (stories.py, builder.py). *)
THEOREM StoryFiguresHold == StorySpec => []StoryFiguresTrue
<1>1. ASSUME StoryInv PROVE StoryFiguresTrue
  <2>1. StoryTypeOK /\ \A s \in Kept \ clashed : s \in StoryIds /\ FiguresOf(story[s], merged[s])
    BY <1>1 DEF StoryInv, FiguresKept, Kept
  <2>2. \A s \in StoryIds : /\ merged[s].n \in Nat /\ merged[s].best \in Nat
                            /\ merged[s].n = 0 => merged[s].best = 0
    BY <2>1 DEF StoryTypeOK
  <2>3. ASSUME NEW s \in Kept \ clashed
        PROVE  /\ story[s].used = merged[s].n
               /\ story[s].best = IF merged[s].n = 0 THEN Gone ELSE merged[s].best
               /\ story[s].warned => merged[s].n >= OveruseThreshold
    BY <2>1 DEF FiguresOf
  <2>4. ASSUME NEW c \in Competencies, clashed = {}
        PROVE  Coverage(c) = "weak" <=>
                   \E s \in StoriesOf(c) : merged[s].n > 0 /\ merged[s].best < 65
    <3>1. \A s \in StoriesOf(c) : story[s].best # Gone /\ story[s].best < 65 <=>
                                    merged[s].n > 0 /\ merged[s].best < 65
      BY <2>1, <2>2, <2>3, <2>4 DEF StoriesOf
    <3> QED
      BY <3>1 DEF Coverage
  <2>5. ASSUME clashed = {}, NEW top \in TopStories(1), NEW s \in top, NEW r \in Kept
        PROVE  merged[r].best <= merged[s].best
    <3>1. /\ top \subseteq Kept /\ Cardinality(top) = Min({1, Cardinality(Kept)})
          /\ \A p \in top, q \in Kept \ top : Ranked(p, q)
      BY <2>5 DEF TopStories
    <3>2. IsFiniteSet(Kept) /\ IsFiniteSet(top) /\ IsFiniteSet({s}) /\ Cardinality({s}) = 1
      BY <3>1, FS_Subset, FS_Singleton DEF Kept
    <3>3. Cardinality(Kept) \in Nat /\ Cardinality(Kept) >= 1
      BY <2>5, <3>1, <3>2, FS_Subset, FS_CardinalityType
    <3>4. Min({1, Cardinality(Kept)}) = 1
      <4>1. Min({1, Cardinality(Kept)}) \in {1, Cardinality(Kept)}
            /\ \A y \in {1, Cardinality(Kept)} : Min({1, Cardinality(Kept)}) =< y
        <5>1. \E x \in {1, Cardinality(Kept)} : \A y \in {1, Cardinality(Kept)} : x =< y
          BY <3>3
        <5> QED
          BY <5>1 DEF Min
      <4> QED
        BY <3>3, <4>1
    <3>5. top = {s}
      BY <2>5, <3>1, <3>2, <3>4, FS_Singleton
    <3>6. CASE r = s
      BY <2>1, <2>2, <2>5, <3>6 DEF Kept
    <3>7. CASE r # s
      <4>1. Ranked(s, r) /\ s \in Kept \ clashed /\ r \in Kept \ clashed
        BY <2>5, <3>1, <3>5, <3>7
      <4>2. /\ story[r].best = Gone \/
                  (story[s].best # Gone /\ story[s].best >= story[r].best)
            /\ merged[r].n \in Nat /\ merged[r].best \in Nat /\ merged[s].best \in Nat
            /\ merged[r].n = 0 => merged[r].best = 0
        BY <2>1, <2>2, <4>1 DEF Ranked
      <4> QED
        BY <2>3, <4>1, <4>2
    <3> QED
      BY <3>6, <3>7
  <2> QED
    BY <2>3, <2>4, <2>5 DEF StoryFiguresTrue
<1> QED
  BY <1>1, StoryInitInv, StoryNextInv, PTL DEF StorySpec
===============================================================================
