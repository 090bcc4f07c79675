------------------------------ MODULE PartsProofs ------------------------------
(***************************************************************************)
(* Proofs about four of the small components.                              *)
(*                                                                         *)
(* Outreach, for any number of users, digest jobs and cards: a job has     *)
(* each user it loaded either behind it or in its list.                    *)
(*                                                                         *)
(* Erasure, for any number of accounts, demo users and inserted rows: what *)
(* an open transaction has deleted is in its undo log, and what holds of   *)
(* rows and log together holds of the rows when the log is played back.    *)
(*                                                                         *)
(* Provisioning, for any sequence of commands: each object has one         *)
(* revision that creates it, so a migration finds what those before it     *)
(* left, and the bank has at least the questions of the revisions.         *)
(*                                                                         *)
(* SpokenTurn, for any reply, blanks, chunks and voices: the worker has    *)
(* taken the first t sentences, the rest and the pill wait in the queue;   *)
(* and each of its steps is a step of VoicePipeline's turn or leaves what  *)
(* the tasks of the pipeline share as it was.                              *)
(***************************************************************************)
EXTENDS Erasure, Outreach, Provisioning, SpokenTurn, FiniteSetTheorems, SequenceTheorems, TLAPS

-------------------------------------------------------------------------------
(* Outreach: the users a job still has to do *)

Distinct(s) == \A a, b \in DOMAIN s : s[a] = s[b] => a = b

\* A list of all elements of a finite set has each of them, once.
LEMMA ListOfAll ==
    ASSUME NEW S, IsFiniteSet(S), NEW s \in SetToSeqs(S)
    PROVE  /\ s \in Seq(S) /\ Distinct(s) /\ ToSet(s) = S
           /\ Len(s) = Cardinality(S) /\ Cardinality(S) \in Nat
<1> DEFINE D == 1..Cardinality(S)
<1>1. Cardinality(S) \in Nat
  BY FS_CardinalityType
<1>2. s \in [D -> S] /\ \A i, j \in D : i # j => s[i] # s[j]
  BY DEF SetToSeqs
<1>3. s \in Seq(S) /\ Len(s) = Cardinality(S)
  BY <1>1, <1>2, IsASeq, LenProperties
<1>4. s \in Injection(D, S)
  BY <1>2 DEF Injection, IsInjective
<1>5. Cardinality(D) = Cardinality(S)
  BY <1>1, FS_Interval
<1> HIDE DEF D
<1>6. s \in Surjection(D, S)
  BY <1>4, <1>5, FS_Injection
<1>7. ToSet(s) = S
  BY <1>2, <1>6 DEF Surjection, ToSet
<1>8. Distinct(s)
  BY <1>2 DEF Distinct
<1> QED
  BY <1>1, <1>3, <1>7, <1>8

\* Taking the first of distinct elements leaves the others.
LEMMA TakeFirst ==
    ASSUME NEW S, NEW s \in Seq(S), s # <<>>, Distinct(s)
    PROVE  /\ Head(s) \in S /\ Head(s) \in ToSet(s)
           /\ Tail(s) \in Seq(S) /\ Distinct(Tail(s))
           /\ ToSet(Tail(s)) = ToSet(s) \ {Head(s)}
           /\ Len(s) \in Nat /\ Len(Tail(s)) \in Nat /\ Len(s) = Len(Tail(s)) + 1
<1>1. /\ DOMAIN s = 1..Len(s) /\ Len(s) \in Nat \ {0} /\ Head(s) = s[1] /\ Head(s) \in S
      /\ Tail(s) \in Seq(S) /\ Len(Tail(s)) = Len(s) - 1
      /\ DOMAIN Tail(s) = 1..(Len(s) - 1) /\ \A i \in 1..(Len(s) - 1) : Tail(s)[i] = s[i + 1]
  BY HeadTailProperties, LenProperties, EmptySeq
<1>2. Distinct(Tail(s))
  <2> SUFFICES ASSUME NEW a \in 1..(Len(s) - 1), NEW b \in 1..(Len(s) - 1), s[a + 1] = s[b + 1]
               PROVE  a = b
    BY <1>1 DEF Distinct
  <2>1. a + 1 \in 1..Len(s) /\ b + 1 \in 1..Len(s)
    BY <1>1
  <2>2. a + 1 = b + 1
    BY <1>1, <2>1 DEF Distinct
  <2> QED
    BY <2>2
<1>3. ASSUME NEW x \in ToSet(Tail(s)) PROVE x \in ToSet(s) \ {Head(s)}
  <2>1. PICK i \in 1..(Len(s) - 1) : x = s[i + 1]
    BY <1>1 DEF ToSet
  <2>2. i + 1 \in 1..Len(s) /\ 1 \in 1..Len(s) /\ i + 1 # 1
    BY <1>1
  <2>3. s[i + 1] # s[1]
    BY <1>1, <2>2 DEF Distinct
  <2> QED
    BY <1>1, <2>1, <2>2, <2>3 DEF ToSet
<1>4. ASSUME NEW x \in ToSet(s), x # Head(s) PROVE x \in ToSet(Tail(s))
  <2>1. PICK i \in 1..Len(s) : x = s[i]
    BY <1>1 DEF ToSet
  <2>2. i - 1 \in 1..(Len(s) - 1) /\ Tail(s)[i - 1] = s[i]
    BY <1>1, <1>4, <2>1
  <2> QED
    BY <1>1, <2>1, <2>2 DEF ToSet
<1>5. Head(s) \in ToSet(s)
  BY <1>1 DEF ToSet
<1>6. Len(s) \in Nat /\ Len(Tail(s)) \in Nat /\ Len(s) = Len(Tail(s)) + 1
  BY <1>1
<1> QED
  BY <1>1, <1>2, <1>3, <1>4, <1>5, <1>6

-------------------------------------------------------------------------------
(* Outreach: what a job has done *)

OutJob == [at : {"new", "loop", "done", "dead"}, todo : Seq(Users), opted : SUBSET Users,
           sent : Nat, skipped : Nat, total : Nat]

MailedBy(j) == {u \in Users : <<j, u>> \in mail}
RefusedBy(j) == {u \in Users : <<j, u>> \in refused}

\* A job that runs has each of its users behind it or in its list, and never both.
JobTrue(j) ==
    /\ job[j].at = "new" => job[j] = Queued
    /\ job[j].at = "done" => job[j].todo = <<>>
    /\ job[j].at \in {"loop", "done"} =>
          job[j].sent + job[j].skipped + Len(job[j].todo) = job[j].total
    /\ Distinct(job[j].todo)
    /\ job[j].sent = Cardinality(MailedBy(j)) /\ MailedBy(j) \cap RefusedBy(j) = {}
    /\ MailedBy(j) \cup RefusedBy(j) = job[j].opted \ ToSet(job[j].todo)

\* A card belongs to an account.
CardsOwned ==
    \A c \in Cards : card[c] # Absent => card[c].owner \in accounts /\ card[c].since \in Nat

OutInv ==
    /\ accounts \subseteq Users /\ optIn \subseteq Users /\ today \in Nat
    /\ job \in [Jobs -> OutJob]
    /\ card \in [Cards -> [owner : Users, since : Nat] \cup {Absent}]
    /\ \A j \in Jobs : JobTrue(j)
    /\ CardsOwned

USE OutreachAssumption, ErasureAssumption

\* A job that has not begun is a job.
LEMMA QueuedType == Queued \in OutJob
<1>1. <<>> \in Seq(Users)
  BY EmptySeq
<1> QED
  BY <1>1 DEF Queued, OutJob

\* The empty lists of a job that has not begun.
LEMMA NothingDone ==
    /\ Distinct(<<>>) /\ ToSet(<<>>) = {} /\ Len(<<>>) = 0
    /\ Cardinality({}) = 0
BY FS_EmptySet DEF Distinct, ToSet

\* No job has begun, and nothing is mailed, refused or shown.
LEMMA InitOut == OutInit => OutInv
<1> SUFFICES ASSUME OutInit PROVE OutInv
  OBVIOUS
<1>1. job \in [Jobs -> OutJob] /\ card \in [Cards -> [owner : Users, since : Nat] \cup {Absent}]
  BY QueuedType DEF OutInit
<1>2. ASSUME NEW j \in Jobs PROVE JobTrue(j)
  <2>1. job[j] = Queued /\ MailedBy(j) = {} /\ RefusedBy(j) = {}
    BY DEF OutInit, MailedBy, RefusedBy
  <2>2. /\ Queued.at = "new" /\ Queued.todo = <<>> /\ Queued.opted = {} /\ Queued.sent = 0
    BY DEF Queued
  <2> QED
    BY <2>1, <2>2, NothingDone DEF JobTrue
<1>3. CardsOwned
  BY DEF OutInit, CardsOwned
<1> QED
  BY <1>1, <1>2, <1>3 DEF OutInv, OutInit

\* A step that leaves a job and its mail alone.
LEMMA JobRests ==
    ASSUME NEW j \in Jobs, JobTrue(j), job'[j] = job[j],
           MailedBy(j)' = MailedBy(j), RefusedBy(j)' = RefusedBy(j)
    PROVE  JobTrue(j)'
BY DEF JobTrue

\* A job's next user goes behind it: skipped, mailed or refused.
LEMMA JobGoesOn ==
    ASSUME OutInv, NEW j \in Jobs, Looping(j), job' \in [Jobs -> OutJob],
           job'[j].at = "loop", job'[j].todo = Tail(job[j].todo),
           job'[j].opted = job[j].opted, job'[j].total = job[j].total,
           \/ /\ Next1(j) \notin job[j].opted
              /\ MailedBy(j)' = MailedBy(j) /\ RefusedBy(j)' = RefusedBy(j)
              /\ job'[j].sent = job[j].sent /\ job'[j].skipped = job[j].skipped + 1
           \/ /\ Next1(j) \in job[j].opted
              /\ MailedBy(j)' = MailedBy(j) \cup {Next1(j)} /\ RefusedBy(j)' = RefusedBy(j)
              /\ job'[j].sent = job[j].sent + 1 /\ job'[j].skipped = job[j].skipped
           \/ /\ Next1(j) \in job[j].opted
              /\ MailedBy(j)' = MailedBy(j) /\ RefusedBy(j)' = RefusedBy(j) \cup {Next1(j)}
              /\ job'[j].sent = job[j].sent /\ job'[j].skipped = job[j].skipped + 1
    PROVE  JobTrue(j)'
<1> DEFINE s == job[j].todo
<1>1. s \in Seq(Users) /\ s # <<>> /\ Distinct(s) /\ JobTrue(j) /\ job[j].at = "loop"
  BY DEF OutInv, OutJob, JobTrue, Looping
<1>2. /\ Head(s) \in ToSet(s) /\ Distinct(Tail(s)) /\ ToSet(Tail(s)) = ToSet(s) \ {Head(s)}
      /\ Len(Tail(s)) \in Nat /\ Len(s) = Len(Tail(s)) + 1
  BY <1>1, TakeFirst
<1>3. Next1(j) = Head(s) /\ Head(s) \in ToSet(s)
  BY <1>2 DEF Next1
<1>4. job[j].sent \in Nat /\ job[j].skipped \in Nat /\ job[j].total \in Nat
  BY DEF OutInv, OutJob
<1>5. job[j].sent + job[j].skipped + Len(s) = job[j].total
  BY <1>1 DEF JobTrue
<1>6. job'[j].sent + job'[j].skipped + Len(Tail(s)) = job[j].total
  <2> DEFINE left == Len(Tail(s))
             before == Len(s)
  <2>1. left \in Nat /\ before = left + 1
    BY <1>2
  <2>2. \/ job'[j].sent = job[j].sent /\ job'[j].skipped = job[j].skipped + 1
        \/ job'[j].sent = job[j].sent + 1 /\ job'[j].skipped = job[j].skipped
    OBVIOUS
  <2>3. job[j].sent + job[j].skipped + before = job[j].total
    BY <1>5
  <2> HIDE DEF left, before
  <2>4. job'[j].sent + job'[j].skipped + left = job[j].total
    BY <1>4, <2>1, <2>2, <2>3
  <2> QED
    BY <2>4 DEF left
<1>7. job'[j].sent = Cardinality(MailedBy(j)')
  <2>1. MailedBy(j) \subseteq job[j].opted \ ToSet(s) /\ job[j].sent = Cardinality(MailedBy(j))
    BY <1>1 DEF JobTrue
  <2>2. IsFiniteSet(MailedBy(j))
    <3>1. MailedBy(j) \in SUBSET Users
      BY DEF MailedBy
    <3> QED
      BY <3>1, FS_Subset
  <2>3. Cardinality(MailedBy(j) \cup {Next1(j)}) = Cardinality(MailedBy(j)) + 1
    BY <1>3, <2>1, <2>2, FS_AddElement
  <2> QED
    BY <2>1, <2>3
<1>8. /\ MailedBy(j)' \cap RefusedBy(j)' = {}
      /\ MailedBy(j)' \cup RefusedBy(j)' = job[j].opted \ ToSet(Tail(s))
  <2>1. /\ MailedBy(j) \cap RefusedBy(j) = {}
        /\ MailedBy(j) \cup RefusedBy(j) = job[j].opted \ ToSet(s)
    BY <1>1 DEF JobTrue
  <2> QED
    BY <1>2, <1>3, <2>1
<1> QED
  BY <1>2, <1>6, <1>7, <1>8 DEF JobTrue

\* Every way a job may end or go on keeps what is true of it and of the others.
LEMMA JobStep ==
    ASSUME OutInv, NEW j \in Jobs,
           \/ LoadUsers(j) \/ SkipUser(j) \/ StatsFail(j) \/ JobEnds(j)
           \/ \E ok \in BOOLEAN : MailUser(j, ok)
    PROVE  job' \in [Jobs -> OutJob] /\ \A k \in Jobs : JobTrue(k)'
<1>t. /\ job \in [Jobs -> OutJob] /\ job[j] \in OutJob /\ JobTrue(j)
      /\ accounts \subseteq Users /\ optIn \subseteq Users
  BY DEF OutInv
<1>1. ASSUME job' \in [Jobs -> OutJob], JobTrue(j)',
             \A k \in Jobs : k # j => /\ job'[k] = job[k]
                                      /\ MailedBy(k)' = MailedBy(k) /\ RefusedBy(k)' = RefusedBy(k)
      PROVE  \A k \in Jobs : JobTrue(k)'
  <2> SUFFICES ASSUME NEW k \in Jobs, k # j PROVE JobTrue(k)'
    BY <1>1
  <2>1. JobTrue(k)
    BY DEF OutInv
  <2> QED
    BY <1>1, <2>1, JobRests
<1>2. ASSUME LoadUsers(j) PROVE job' \in [Jobs -> OutJob] /\ \A k \in Jobs : JobTrue(k)'
  <2>1. PICK order \in SetToSeqs(accounts) :
          job' = [job EXCEPT ![j] = [Queued EXCEPT !.at = "loop", !.todo = order,
                                        !.opted = optIn \cap accounts,
                                        !.total = Cardinality(accounts)]]
    BY <1>2 DEF LoadUsers
  <2>2. IsFiniteSet(accounts)
    BY <1>t, FS_Subset
  <2>3. /\ order \in Seq(accounts) /\ Distinct(order) /\ ToSet(order) = accounts
        /\ Len(order) = Cardinality(accounts) /\ Cardinality(accounts) \in Nat
    BY <2>2, ListOfAll
  <2>4. order \in Seq(Users)
    BY <1>t, <2>3, SeqDef
  <2> DEFINE q == [Queued EXCEPT !.at = "loop", !.todo = order, !.opted = optIn \cap accounts,
                                 !.total = Cardinality(accounts)]
  <2>5. /\ q.at = "loop" /\ q.todo = order /\ q.opted = optIn \cap accounts /\ q.sent = 0
        /\ q.skipped = 0 /\ q.total = Cardinality(accounts) /\ q \in OutJob
    BY <1>t, <2>3, <2>4 DEF Queued, OutJob
  <2>6. job' \in [Jobs -> OutJob] /\ job'[j] = q
    BY <1>t, <2>1, <2>5
  <2>7. MailedBy(j) = {} /\ RefusedBy(j) = {}
    <3>1. job[j] = Queued
      BY <1>2, <1>t DEF LoadUsers, JobTrue
    <3>2. job[j].opted = {}
      BY <3>1 DEF Queued
    <3> QED
      BY <1>t, <3>2 DEF JobTrue
  <2>8. \A k \in Jobs : MailedBy(k)' = MailedBy(k) /\ RefusedBy(k)' = RefusedBy(k)
    BY <1>2 DEF LoadUsers, MailedBy, RefusedBy
  <2>9. \A k \in Jobs : k # j => job'[k] = job[k]
    BY <2>1, <1>t
  <2> HIDE DEF q
  <2>10. 0 + 0 + Len(order) = Cardinality(accounts)
    BY <2>3
  <2>11. JobTrue(j)'
    <3>1. MailedBy(j)' = {} /\ RefusedBy(j)' = {}
      BY <2>7, <2>8
    <3>2. job'[j].sent = Cardinality(MailedBy(j)')
      BY <2>5, <2>6, <3>1, NothingDone
    <3>3. job'[j].sent + job'[j].skipped + Len(job'[j].todo) = job'[j].total
      BY <2>5, <2>6, <2>10
    <3>4. /\ MailedBy(j)' \cap RefusedBy(j)' = {}
          /\ MailedBy(j)' \cup RefusedBy(j)' = job'[j].opted \ ToSet(job'[j].todo)
      BY <2>3, <2>5, <2>6, <3>1
    <3>5. job'[j].at = "loop" /\ Distinct(job'[j].todo)
      BY <2>3, <2>5, <2>6
    <3> QED
      BY <3>2, <3>3, <3>4, <3>5 DEF JobTrue
  <2> QED
    BY <1>1, <2>6, <2>8, <2>9, <2>11
<1>3. ASSUME Looping(j) PROVE Next1(j) \in Users /\ Tail(job[j].todo) \in Seq(Users)
  <2>1. job[j].todo \in Seq(Users) /\ job[j].todo # <<>> /\ Distinct(job[j].todo)
    BY <1>3, <1>t DEF OutJob, JobTrue, Looping
  <2> QED
    BY <2>1, TakeFirst DEF Next1
<1>4. ASSUME SkipUser(j) PROVE job' \in [Jobs -> OutJob] /\ \A k \in Jobs : JobTrue(k)'
  <2>1. Looping(j) /\ Next1(j) \notin job[j].opted /\ UNCHANGED <<mail, refused>>
    BY <1>4 DEF SkipUser
  <2>2. \A k \in Jobs : MailedBy(k)' = MailedBy(k) /\ RefusedBy(k)' = RefusedBy(k)
    BY <2>1 DEF MailedBy, RefusedBy
  <2>3. job' = [job EXCEPT ![j] = [job[j] EXCEPT !.todo = Tail(@), !.skipped = @ + 1]]
    BY <1>4, <1>t DEF SkipUser
  <2> DEFINE q == [job[j] EXCEPT !.todo = Tail(@), !.skipped = @ + 1]
  <2>0. Tail(job[j].todo) \in Seq(Users) /\ job[j].skipped + 1 \in Nat
    <3>1. job[j].skipped \in Nat
      BY <1>t DEF OutJob
    <3>2. Looping(j)
      BY <2>1
    <3> QED
      BY <1>3, <3>1, <3>2
  <2>r. job' = [job EXCEPT ![j] = q]
    BY <2>3
  <2>p. PICK r \in OutJob, l \in Seq(Users), n \in Nat :
          /\ r = job[j] /\ l = Tail(job[j].todo) /\ n = job[j].skipped + 1
          /\ q = [r EXCEPT !.todo = l, !.skipped = n]
    BY <1>t, <2>0
  <2> HIDE DEF q
  <2>4. /\ q.at = job[j].at /\ q.todo = Tail(job[j].todo) /\ q.opted = job[j].opted
        /\ q.sent = job[j].sent /\ q.skipped = job[j].skipped + 1 /\ q.total = job[j].total
        /\ q \in OutJob
    <3>1. /\ q.at = r.at /\ q.todo = l /\ q.opted = r.opted /\ q.total = r.total
          /\ q.skipped = n /\ q.sent = r.sent
      BY <2>p DEF OutJob
    <3>2. q \in OutJob
      BY <2>p DEF OutJob
    <3> QED
      BY <2>p, <3>1, <3>2
  <2>5. job' \in [Jobs -> OutJob] /\ job'[j] = q /\ \A k \in Jobs : k # j => job'[k] = job[k]
    BY <1>t, <2>r, <2>4
  <2>6. job[j].at = "loop"
    BY <2>1 DEF Looping
  <2> HIDE DEF q
  <2>7. JobTrue(j)'
    BY <2>1, <2>2, <2>4, <2>5, <2>6, JobGoesOn
  <2> QED
    BY <1>1, <2>2, <2>5, <2>7
<1>5. ASSUME NEW ok \in BOOLEAN, MailUser(j, ok)
      PROVE  job' \in [Jobs -> OutJob] /\ \A k \in Jobs : JobTrue(k)'
  <2>1. Looping(j) /\ Next1(j) \in job[j].opted /\ Next1(j) \in Users
    BY <1>5, <1>3 DEF MailUser
  <2>6. job[j].at = "loop"
    BY <2>1 DEF Looping
  <2>a. CASE ok
    <3>1. job' = [job EXCEPT ![j] = [job[j] EXCEPT !.todo = Tail(@), !.sent = @ + 1]]
      BY <1>5, <1>t, <2>a DEF MailUser
    <3>2. mail' = mail \cup {<<j, Next1(j)>>} /\ refused' = refused
      BY <1>5, <2>a DEF MailUser
    <3>3. /\ MailedBy(j)' = MailedBy(j) \cup {Next1(j)} /\ RefusedBy(j)' = RefusedBy(j)
          /\ \A k \in Jobs : k # j => MailedBy(k)' = MailedBy(k) /\ RefusedBy(k)' = RefusedBy(k)
      BY <2>1, <3>2 DEF MailedBy, RefusedBy
    <3> DEFINE q == [job[j] EXCEPT !.todo = Tail(@), !.sent = @ + 1]
    <3>0. Tail(job[j].todo) \in Seq(Users) /\ job[j].sent + 1 \in Nat
      <4>1. job[j].sent \in Nat
        BY <1>t DEF OutJob
      <4>2. Looping(j)
        BY <2>1
      <4> QED
        BY <1>3, <4>1, <4>2
    <3>r. job' = [job EXCEPT ![j] = q]
      BY <3>1
    <3>p. PICK r \in OutJob, l \in Seq(Users), n \in Nat :
            /\ r = job[j] /\ l = Tail(job[j].todo) /\ n = job[j].sent + 1
            /\ q = [r EXCEPT !.todo = l, !.sent = n]
      BY <1>t, <3>0
    <3> HIDE DEF q
    <3>4. /\ q.at = job[j].at /\ q.todo = Tail(job[j].todo) /\ q.opted = job[j].opted
          /\ q.sent = job[j].sent + 1 /\ q.skipped = job[j].skipped /\ q.total = job[j].total
          /\ q \in OutJob
      <4>1. /\ q.at = r.at /\ q.todo = l /\ q.opted = r.opted /\ q.total = r.total
            /\ q.sent = n /\ q.skipped = r.skipped
        BY <3>p DEF OutJob
      <4>2. q \in OutJob
        BY <3>p DEF OutJob
      <4> QED
        BY <3>p, <4>1, <4>2
    <3>5. job' \in [Jobs -> OutJob] /\ job'[j] = q /\ \A k \in Jobs : k # j => job'[k] = job[k]
      BY <1>t, <3>r, <3>4
    <3> HIDE DEF q
    <3>6. JobTrue(j)'
      BY <2>1, <2>6, <3>3, <3>4, <3>5, JobGoesOn
    <3> QED
      BY <1>1, <3>3, <3>5, <3>6
  <2>b. CASE ~ok
    <3>1. job' = [job EXCEPT ![j] = [job[j] EXCEPT !.todo = Tail(@), !.skipped = @ + 1]]
      BY <1>5, <1>t, <2>b DEF MailUser
    <3>2. refused' = refused \cup {<<j, Next1(j)>>} /\ mail' = mail
      BY <1>5, <2>b DEF MailUser
    <3>3. /\ MailedBy(j)' = MailedBy(j) /\ RefusedBy(j)' = RefusedBy(j) \cup {Next1(j)}
          /\ \A k \in Jobs : k # j => MailedBy(k)' = MailedBy(k) /\ RefusedBy(k)' = RefusedBy(k)
      BY <2>1, <3>2 DEF MailedBy, RefusedBy
    <3> DEFINE q == [job[j] EXCEPT !.todo = Tail(@), !.skipped = @ + 1]
    <3>0. Tail(job[j].todo) \in Seq(Users) /\ job[j].skipped + 1 \in Nat
      <4>1. job[j].skipped \in Nat
        BY <1>t DEF OutJob
      <4>2. Looping(j)
        BY <2>1
      <4> QED
        BY <1>3, <4>1, <4>2
    <3>r. job' = [job EXCEPT ![j] = q]
      BY <3>1
    <3>p. PICK r \in OutJob, l \in Seq(Users), n \in Nat :
            /\ r = job[j] /\ l = Tail(job[j].todo) /\ n = job[j].skipped + 1
            /\ q = [r EXCEPT !.todo = l, !.skipped = n]
      BY <1>t, <3>0
    <3> HIDE DEF q
    <3>4. /\ q.at = job[j].at /\ q.todo = Tail(job[j].todo) /\ q.opted = job[j].opted
          /\ q.sent = job[j].sent /\ q.skipped = job[j].skipped + 1 /\ q.total = job[j].total
          /\ q \in OutJob
      <4>1. /\ q.at = r.at /\ q.todo = l /\ q.opted = r.opted /\ q.total = r.total
            /\ q.skipped = n /\ q.sent = r.sent
        BY <3>p DEF OutJob
      <4>2. q \in OutJob
        BY <3>p DEF OutJob
      <4> QED
        BY <3>p, <4>1, <4>2
    <3>5. job' \in [Jobs -> OutJob] /\ job'[j] = q /\ \A k \in Jobs : k # j => job'[k] = job[k]
      BY <1>t, <3>r, <3>4
    <3> HIDE DEF q
    <3>6. JobTrue(j)'
      BY <2>1, <2>6, <3>3, <3>4, <3>5, JobGoesOn
    <3> QED
      BY <1>1, <3>3, <3>5, <3>6
  <2> QED
    BY <2>a, <2>b
<1>6. ASSUME StatsFail(j) \/ JobEnds(j)
      PROVE  job' \in [Jobs -> OutJob] /\ \A k \in Jobs : JobTrue(k)'
  <2> DEFINE at == IF job[j].at = "loop" /\ job[j].todo = <<>> THEN "done" ELSE "dead"
  <2>1. /\ job[j].at = "loop" /\ (at = "done" => job[j].todo = <<>>) /\ at \in {"done", "dead"}
        /\ job' = [job EXCEPT ![j] = [job[j] EXCEPT !.at = at]]
    BY <1>6, <1>t DEF StatsFail, JobEnds, Looping
  <2>2. \A k \in Jobs : MailedBy(k)' = MailedBy(k) /\ RefusedBy(k)' = RefusedBy(k)
    BY <1>6 DEF StatsFail, JobEnds, MailedBy, RefusedBy
  <2> HIDE DEF at
  <2> DEFINE q == [job[j] EXCEPT !.at = at]
  <2>4. /\ q.at = at /\ q.todo = job[j].todo /\ q.opted = job[j].opted
        /\ q.sent = job[j].sent /\ q.skipped = job[j].skipped /\ q.total = job[j].total
        /\ q \in OutJob
    BY <1>t, <2>1 DEF OutJob
  <2>5. job' \in [Jobs -> OutJob] /\ job'[j] = q /\ \A k \in Jobs : k # j => job'[k] = job[k]
    BY <1>t, <2>1, <2>4
  <2> HIDE DEF q
  <2>6. JobTrue(j)'
    BY <1>t, <2>1, <2>2, <2>4, <2>5 DEF JobTrue
  <2> QED
    BY <1>1, <2>2, <2>5, <2>6
<1> QED
  BY <1>2, <1>4, <1>5, <1>6

\* Users, settings, cards and days leave the jobs alone, and cards go with their owner.
LEMMA NextOut == OutInv /\ [OutNext]_outVars => OutInv'
<1> SUFFICES ASSUME OutInv, [OutNext]_outVars PROVE OutInv'
  OBVIOUS
<1>t. /\ accounts \subseteq Users /\ optIn \subseteq Users /\ today \in Nat
      /\ job \in [Jobs -> OutJob]
      /\ card \in [Cards -> [owner : Users, since : Nat] \cup {Absent}]
      /\ CardsOwned
  BY DEF OutInv
<1>1. ASSUME NEW j \in Jobs,
             \/ LoadUsers(j) \/ SkipUser(j) \/ StatsFail(j) \/ JobEnds(j)
             \/ \E ok \in BOOLEAN : MailUser(j, ok)
      PROVE  OutInv'
  <2>1. job' \in [Jobs -> OutJob] /\ \A k \in Jobs : JobTrue(k)'
    BY <1>1, JobStep
  <2>2. UNCHANGED <<accounts, optIn, card, today>>
    BY <1>1 DEF LoadUsers, SkipUser, StatsFail, JobEnds, MailUser
  <2> QED
    BY <1>t, <2>1, <2>2 DEF OutInv, CardsOwned
<1>2. ASSUME job' = job, \A j \in Jobs : MailedBy(j)' = MailedBy(j) /\ RefusedBy(j)' = RefusedBy(j)
      PROVE  job' \in [Jobs -> OutJob] /\ \A j \in Jobs : JobTrue(j)'
  BY <1>2, <1>t DEF OutInv, JobTrue
<1>3. ASSUME NEW u \in Users, SendToSelf(u) PROVE OutInv'
  <2>1. \A j \in Jobs : <<Absent, u>> # <<j, u>>
    OBVIOUS
  <2>2. \A j \in Jobs : MailedBy(j)' = MailedBy(j) /\ RefusedBy(j)' = RefusedBy(j)
    BY <1>3, <2>1 DEF SendToSelf, MailedBy, RefusedBy
  <2> QED
    BY <1>t, <1>2, <1>3, <2>2 DEF SendToSelf, OutInv, CardsOwned
<1>4. ASSUME UNCHANGED <<job, mail, refused>>
      PROVE  job' \in [Jobs -> OutJob] /\ \A j \in Jobs : JobTrue(j)'
  BY <1>2, <1>4 DEF MailedBy, RefusedBy
<1>5. ASSUME NEW u \in Users, SetOptIn(u) PROVE OutInv'
  <2>1. UNCHANGED <<job, mail, refused, accounts, card, today>> /\ optIn' \subseteq Users
    BY <1>5, <1>t DEF SetOptIn
  <2> QED
    BY <1>t, <1>4, <2>1 DEF OutInv, CardsOwned
<1>6. ASSUME NEW u \in Users, UserLeaves(u) PROVE OutInv'
  <2>1. /\ UNCHANGED <<job, mail, refused, today>>
        /\ optIn' = optIn \ {u} /\ accounts' = accounts \ {u}
    BY <1>6 DEF UserLeaves
  <2>2. card' = [c \in Cards |-> IF card[c] # Absent /\ card[c].owner = u THEN Absent ELSE card[c]]
    BY <1>6 DEF UserLeaves
  <2>3. card' \in [Cards -> [owner : Users, since : Nat] \cup {Absent}]
    BY <1>t, <2>2
  <2>4. CardsOwned'
    BY <1>t, <2>1, <2>2 DEF CardsOwned
  <2> QED
    BY <1>t, <1>4, <2>1, <2>3, <2>4 DEF OutInv
<1>7. ASSUME NEW u \in Users, NEW c \in Cards, CreateCard(c, u) PROVE OutInv'
  <2>1. UNCHANGED <<job, mail, refused, today, accounts, optIn>> /\ u \in accounts
    BY <1>7 DEF CreateCard
  <2>2. card' = [card EXCEPT ![c] = [owner |-> u, since |-> today]]
    BY <1>7 DEF CreateCard
  <2>3. card' \in [Cards -> [owner : Users, since : Nat] \cup {Absent}]
    BY <1>t, <2>2
  <2>4. CardsOwned'
    BY <1>t, <2>1, <2>2 DEF CardsOwned
  <2> QED
    BY <1>t, <1>4, <2>1, <2>3, <2>4 DEF OutInv
<1>8. ASSUME DayPasses PROVE OutInv'
  BY <1>t, <1>4, <1>8 DEF DayPasses, OutInv, CardsOwned
<1>9. ASSUME UNCHANGED outVars PROVE OutInv'
  BY <1>t, <1>4, <1>9 DEF outVars, OutInv, CardsOwned
<1> QED
  BY <1>1, <1>3, <1>5, <1>6, <1>7, <1>8, <1>9 DEF OutNext

\* digest.py sends to exactly the users who had opted in when the job loaded them, one
\* attempt each, for any number of users and jobs and whatever users change meanwhile;
\* share.py shows no card after its time to live, and none of an account that is gone.
THEOREM DigestsReach == OutSpec => []DigestReaches
<1>1. OutInv => DigestReaches
  <2> SUFFICES ASSUME OutInv PROVE DigestReaches
    OBVIOUS
  <2>1. ASSUME NEW j \in Jobs
        PROVE  LET Mailed == {u \in Users : <<j, u>> \in mail}
                   Refused == {u \in Users : <<j, u>> \in refused}
               IN /\ job[j].sent = Cardinality(Mailed)
                  /\ Mailed \cap Refused = {}
                  /\ Mailed \cup Refused = job[j].opted \ ToSet(job[j].todo)
                  /\ job[j].at = "done" => job[j].sent + job[j].skipped = job[j].total
    <3>1. JobTrue(j) /\ job[j].sent \in Nat /\ job[j].skipped \in Nat
      BY DEF OutInv, OutJob
    <3>2. ASSUME job[j].at = "done" PROVE job[j].sent + job[j].skipped = job[j].total
      <4>1. /\ Len(job[j].todo) = 0
            /\ job[j].sent + job[j].skipped + Len(job[j].todo) = job[j].total
        BY <3>1, <3>2, NothingDone DEF JobTrue
      <4> QED
        BY <3>1, <4>1
    <3> QED
      BY <3>1, <3>2 DEF JobTrue, MailedBy, RefusedBy
  <2>2. ASSUME NEW c \in Cards, Shown(c)
        PROVE  card[c].owner \in accounts /\ today - card[c].since <= Ttl
    <3>1. card[c] # Absent /\ ~(card[c].since + Ttl < today)
      BY <2>2 DEF Shown
    <3>2. card[c].owner \in accounts /\ card[c].since \in Nat /\ today \in Nat
      BY <3>1 DEF OutInv, CardsOwned
    <3> QED
      BY <3>1, <3>2
  <2> QED
    BY <2>1, <2>2 DEF DigestReaches
<1> QED
  BY InitOut, NextOut, <1>1, PTL DEF OutSpec

-------------------------------------------------------------------------------
(* Erasure: the foreign keys of the schema *)

Cascades ==
    {<<"sessions", "users">>, <<"segment_scores", "sessions">>, <<"transcript_words", "sessions">>,
     <<"session_metrics", "sessions">>, <<"skill_graph", "users">>, <<"stories", "users">>,
     <<"share_cards", "users">>, <<"question_upvotes", "questions">>,
     <<"question_upvotes", "users">>, <<"user_memories", "users">>, <<"company_intel", "users">>}

SetNulls ==
    {<<"usage_logs", "sessions">>, <<"usage_logs", "users">>, <<"stories", "sessions">>,
     <<"questions", "users">>}

\* The tables that go with a session, and those that outlive their user.
Group == {"sessions", "segment_scores", "session_metrics", "transcript_words"}
Outlive == {"questions", "usage_logs"}

\* The revisions, in the order of their down_revisions.
LEMMA RevisionList ==
    /\ Latest = 18
    /\ Revisions[1] = InitialSchema /\ Revisions[2] = StoriesTable
    /\ Revisions[3] = UserProfile /\ Revisions[4] = VoiceId /\ Revisions[5] = Persona
    /\ Revisions[6] = Company /\ Revisions[7] = ByokKeys /\ Revisions[8] = FocusSkill
    /\ Revisions[9] = QuestionCompany /\ Revisions[10] = RowsOnly /\ Revisions[11] = ShareCards
    /\ Revisions[12] = Contributions /\ Revisions[13] = RowsOnly
    /\ Revisions[14] = UserMemories /\ Revisions[15] = BatchJobId
    /\ Revisions[16] = DurationLimit /\ Revisions[17] = CompanyIntel
    /\ Revisions[18] = RowsOnly
BY DEF Latest, Revisions

\* Which revision declares which foreign keys.
LEMMA RevisionRefs ==
    /\ Latest = 18
    /\ Revisions[1].refs = UserTables.refs \cup AnswerTables.refs \cup LearningTables.refs
                               \cup AccountingTables.refs
    /\ Revisions[2].refs = StoriesTable.refs /\ Revisions[11].refs = ShareCards.refs
    /\ Revisions[12].refs = Contributions.refs /\ Revisions[14].refs = UserMemories.refs
    /\ Revisions[17].refs = CompanyIntel.refs
    /\ \A r \in 1..18 : r \notin {1, 2, 11, 12, 14, 17} => Revisions[r].refs = {}
<1>1. /\ UserProfile.refs = {} /\ RowsOnly.refs = {}
      /\ VoiceId.refs = {} /\ Persona.refs = {} /\ Company.refs = {} /\ ByokKeys.refs = {}
      /\ FocusSkill.refs = {} /\ QuestionCompany.refs = {} /\ BatchJobId.refs = {}
      /\ DurationLimit.refs = {}
  BY DEF UserProfile, RowsOnly, VoiceId, Persona, Company, ByokKeys, FocusSkill,
         QuestionCompany, BatchJobId, DurationLimit, Column
<1>2. InitialSchema.refs = UserTables.refs \cup AnswerTables.refs \cup LearningTables.refs
                               \cup AccountingTables.refs
  BY DEF InitialSchema
<1>3. ASSUME NEW r \in 1..18, r \notin {1, 2, 11, 12, 14, 17} PROVE Revisions[r].refs = {}
  <2>1. r \in {3, 4, 5, 6, 7, 8, 9, 10, 13, 15, 16, 18}
    BY <1>3
  <2> QED
    BY <1>1, <2>1, RevisionList
<1> QED
  BY <1>2, <1>3, RevisionList

\* The foreign keys of the schema, by what a deletion of their target does.
LEMMA AllReferences ==
    References =
    {Ref("sessions", "users", "CASCADE"), Ref("segment_scores", "sessions", "CASCADE"),
     Ref("transcript_words", "sessions", "CASCADE"),
     Ref("skill_graph", "users", "CASCADE"),
     Ref("session_metrics", "sessions", "CASCADE"),
     Ref("usage_logs", "sessions", "SET_NULL"), Ref("usage_logs", "users", "SET_NULL"),
     Ref("stories", "users", "CASCADE"), Ref("stories", "sessions", "SET_NULL"),
     Ref("share_cards", "users", "CASCADE"), Ref("questions", "users", "SET_NULL"),
     Ref("question_upvotes", "questions", "CASCADE"),
     Ref("question_upvotes", "users", "CASCADE"),
     Ref("user_memories", "users", "CASCADE"),
     Ref("company_intel", "users", "CASCADE")}
<1>1. /\ UserTables.refs = {Ref("sessions", "users", "CASCADE")}
      /\ AnswerTables.refs = {Ref("segment_scores", "sessions", "CASCADE"),
                              Ref("transcript_words", "sessions", "CASCADE")}
      /\ LearningTables.refs = {Ref("skill_graph", "users", "CASCADE")}
      /\ AccountingTables.refs = {Ref("session_metrics", "sessions", "CASCADE"),
                                  Ref("usage_logs", "sessions", "SET_NULL"),
                                  Ref("usage_logs", "users", "SET_NULL")}
  BY DEF UserTables, AnswerTables, LearningTables, AccountingTables
<1>2. /\ StoriesTable.refs = {Ref("stories", "users", "CASCADE"),
                              Ref("stories", "sessions", "SET_NULL")}
      /\ ShareCards.refs = {Ref("share_cards", "users", "CASCADE")}
      /\ Contributions.refs = {Ref("questions", "users", "SET_NULL"),
                               Ref("question_upvotes", "questions", "CASCADE"),
                               Ref("question_upvotes", "users", "CASCADE")}
      /\ UserMemories.refs = {Ref("user_memories", "users", "CASCADE")}
      /\ CompanyIntel.refs = {Ref("company_intel", "users", "CASCADE")}
  BY DEF StoriesTable, ShareCards, Contributions, UserMemories, CompanyIntel
<1>3. References = UNION {Revisions[r].refs : r \in 1..18}
  BY RevisionRefs DEF References
<1>4. \A x : x \in References <=> \E r \in 1..18 : x \in Revisions[r].refs
  BY <1>3
<1>5. \A x : x \in References <=> \E r \in {1, 2, 11, 12, 14, 17} : x \in Revisions[r].refs
  BY <1>4, RevisionRefs
<1>6. \A x : x \in References <=>
          \/ x \in UserTables.refs \/ x \in AnswerTables.refs \/ x \in LearningTables.refs
          \/ x \in AccountingTables.refs \/ x \in StoriesTable.refs \/ x \in ShareCards.refs
          \/ x \in Contributions.refs \/ x \in UserMemories.refs \/ x \in CompanyIntel.refs
  BY <1>5, RevisionRefs
<1> QED
  BY <1>1, <1>2, <1>6

\* The same, key by key.
LEMMA Keys ==
    /\ \A ref \in References :
          \/ ref.onDelete = "CASCADE" /\ <<ref.from, ref.to>> \in Cascades
          \/ ref.onDelete = "SET_NULL" /\ <<ref.from, ref.to>> \in SetNulls
    /\ \A k \in Cascades : \E ref \in References :
          ref.from = k[1] /\ ref.to = k[2] /\ ref.onDelete = "CASCADE"
    /\ \A k \in SetNulls : \E ref \in References :
          ref.from = k[1] /\ ref.to = k[2] /\ ref.onDelete = "SET_NULL"
<1>1. ASSUME NEW ref \in References
      PROVE  \/ ref.onDelete = "CASCADE" /\ <<ref.from, ref.to>> \in Cascades
             \/ ref.onDelete = "SET_NULL" /\ <<ref.from, ref.to>> \in SetNulls
  <2>1. \/ /\ ref.onDelete = "CASCADE"
           /\ \/ ref.from = "sessions" /\ ref.to = "users"
              \/ ref.from = "segment_scores" /\ ref.to = "sessions"
              \/ ref.from = "transcript_words" /\ ref.to = "sessions"
              \/ ref.from = "session_metrics" /\ ref.to = "sessions"
              \/ ref.from = "skill_graph" /\ ref.to = "users"
              \/ ref.from = "stories" /\ ref.to = "users"
              \/ ref.from = "share_cards" /\ ref.to = "users"
              \/ ref.from = "question_upvotes" /\ ref.to = "questions"
              \/ ref.from = "question_upvotes" /\ ref.to = "users"
              \/ ref.from = "user_memories" /\ ref.to = "users"
              \/ ref.from = "company_intel" /\ ref.to = "users"
        \/ /\ ref.onDelete = "SET_NULL"
           /\ \/ ref.from = "usage_logs" /\ ref.to = "sessions"
              \/ ref.from = "usage_logs" /\ ref.to = "users"
              \/ ref.from = "stories" /\ ref.to = "sessions"
              \/ ref.from = "questions" /\ ref.to = "users"
    BY AllReferences DEF Ref
  <2> QED
    BY <2>1 DEF Cascades, SetNulls
<1>2. ASSUME NEW k \in Cascades
      PROVE  \E ref \in References :
                ref.from = k[1] /\ ref.to = k[2] /\ ref.onDelete = "CASCADE"
  <2>1. Ref(k[1], k[2], "CASCADE") \in References
    BY AllReferences DEF Cascades
  <2> QED
    BY <2>1 DEF Ref
<1>3. ASSUME NEW k \in SetNulls
      PROVE  \E ref \in References :
                ref.from = k[1] /\ ref.to = k[2] /\ ref.onDelete = "SET_NULL"
  <2>1. Ref(k[1], k[2], "SET_NULL") \in References
    BY AllReferences DEF SetNulls
  <2> QED
    BY <2>1 DEF Ref
<1> QED
  BY <1>1, <1>2, <1>3

AllTables == Group \cup Outlive \cup {"users", "skill_graph", "stories", "share_cards",
                                      "question_upvotes", "user_memories", "company_intel"}

\* The tables that some foreign key starts at or leads to.
LEMMA TablesAre == Tables = AllTables
<1>1. ASSUME NEW t \in Tables PROVE t \in AllTables
  <2>1. PICK ref \in References : t = ref.from \/ t = ref.to
    BY DEF Tables
  <2> QED
    BY <2>1, Keys DEF Cascades, SetNulls, AllTables, Group, Outlive
<1>2. ASSUME NEW t \in AllTables PROVE t \in Tables
  <2>1. \E k \in Cascades \cup SetNulls : t = k[1] \/ t = k[2]
    BY DEF Cascades, SetNulls, AllTables, Group, Outlive
  <2>2. \E ref \in References : t = ref.from \/ t = ref.to
    <3>1. PICK k \in Cascades \cup SetNulls : t = k[1] \/ t = k[2]
      BY <2>1
    <3>2. PICK ref \in References : ref.from = k[1] /\ ref.to = k[2]
      BY Keys
    <3> QED
      BY <3>1, <3>2
  <2> QED
    BY <2>2 DEF Tables
<1> QED
  BY <1>1, <1>2

\* What a DELETE reaches through the CASCADE keys of the tables it is called on.
LEMMA Dependents ==
    ASSUME NEW S
    PROVE  \A x : x \in WithDependents(S) <=> x \in S \/ \E t \in S : <<x, t>> \in Cascades
<1>1. ASSUME NEW x, x \in Referring(S, "CASCADE") PROVE \E t \in S : <<x, t>> \in Cascades
  <2>1. PICK ref \in References : x = ref.from /\ ref.to \in S /\ ref.onDelete = "CASCADE"
    BY <1>1 DEF Referring
  <2> QED
    BY <2>1, Keys
<1>2. ASSUME NEW x, NEW t \in S, <<x, t>> \in Cascades PROVE x \in Referring(S, "CASCADE")
  <2>1. PICK ref \in References : ref.from = x /\ ref.to = t /\ ref.onDelete = "CASCADE"
    BY <1>2, Keys
  <2> QED
    BY <2>1 DEF Referring
<1> QED
  BY <1>1, <1>2 DEF WithDependents

\* What each deletion of the application reaches: a session takes its answers with it, a
\* user everything but its questions and usage rows, the other tables only their own row.
LEMMA Reached ==
    /\ Removed["sessions"] = Group
    /\ Removed["users"] = AllTables \ Outlive
    /\ \A t \in {"transcript_words", "segment_scores", "session_metrics", "skill_graph",
                 "stories", "usage_logs"} : Removed[t] = {t}
<1>1. \A t \in AllTables : Removed[t] = WithDependents(WithDependents({t}))
  BY TablesAre DEF Removed
<1>2. Removed["sessions"] = Group
  <2>1. WithDependents({"sessions"}) = Group
    BY Dependents DEF Cascades, Group
  <2>2. WithDependents(Group) = Group
    BY Dependents DEF Cascades, Group
  <2> QED
    BY <1>1, <2>1, <2>2 DEF AllTables, Group
<1>3. Removed["users"] = AllTables \ Outlive
  <2> DEFINE S == {"users", "sessions", "skill_graph", "stories", "share_cards",
                   "question_upvotes", "user_memories", "company_intel"}
  <2>1. WithDependents({"users"}) = S
    BY Dependents DEF Cascades
  <2>2. WithDependents(S) = AllTables \ Outlive
    BY Dependents DEF Cascades, Group, AllTables, Outlive
  <2> QED
    BY <1>1, <2>1, <2>2 DEF AllTables
<1>4. ASSUME NEW t \in {"transcript_words", "segment_scores", "session_metrics", "skill_graph",
                        "stories", "usage_logs"}
      PROVE  Removed[t] = {t}
  <2>1. WithDependents({t}) = {t}
    BY Dependents DEF Cascades
  <2>2. t \in AllTables
    BY DEF AllTables, Group, Outlive
  <2> QED
    BY <1>1, <2>1, <2>2
<1> QED
  BY <1>2, <1>3, <1>4

Deleted == {"transcript_words", "segment_scores", "session_metrics", "sessions", "skill_graph",
            "stories", "usage_logs", "users"}

\* Whatever a deletion removes, it removes what refers to it by a CASCADE key.
LEMMA ClosedUnderCascade ==
    ASSUME NEW t \in Deleted
    PROVE  /\ t \in Removed[t] /\ Removed[t] \subseteq Tables /\ t \in Tables
           /\ \A ref \in References :
                 ref.to \in Removed[t] /\ ref.from \notin Removed[t] => ref.onDelete = "SET_NULL"
<1>1. t \in Removed[t] /\ Removed[t] \subseteq Tables /\ t \in Tables
  BY Reached, TablesAre DEF Deleted, AllTables, Group, Outlive
<1>2. \A k \in Cascades : k[2] \in Removed[t] => k[1] \in Removed[t]
  BY Reached DEF Cascades, Deleted, AllTables, Group, Outlive
<1>3. ASSUME NEW ref \in References, ref.to \in Removed[t], ref.from \notin Removed[t]
      PROVE  ref.onDelete = "SET_NULL"
  BY <1>2, <1>3, Keys
<1> QED
  BY <1>1, <1>3

-------------------------------------------------------------------------------
(* Erasure: what holds of each user *)

Pairs == (Tables \X Owners) \X Tables
Erasing == [at : 0..8, removed : SUBSET (Tables \X Owners), before : SUBSET Pairs]

\* No row refers to a missing one, unless its key is cleared.
Sound(held, nulls, u) ==
    \A ref \in References :
       <<ref.from, u>> \in held => <<ref.to, u>> \in held \/ <<<<ref.from, u>>, ref.to>> \in nulls

\* Only nullable keys are cleared.
Nullable(nulls) == \A p \in nulls : <<p[1][1], p[2]>> \in SetNulls

TypeE ==
    /\ rows \subseteq Tables \X Owners /\ cleared \subseteq Pairs /\ Nullable(cleared)
    /\ erase \in [Accounts -> Erasing]
    /\ gone \in [Owners -> {"no", "erased", "replaced"}]
    /\ demo \in Demos \cup {Nobody}

OwnerTrue(u) ==
    /\ Sound(rows, cleared, u)
    /\ gone[u] # "no" => /\ <<"users", u>> \notin rows
                         /\ <<"usage_logs", u>> \in rows => gone[u] = "replaced" \/ u \in late

\* A user that is not deleted has its rows, or the open transaction has them in its undo log.
Kept(u) ==
    /\ \A t \in Tables : <<t, u>> \in rows \cup erase[u].removed \/ (u \in ended /\ t \in Group)
    /\ erase[u].at > 0 => Sound(rows \cup erase[u].removed, erase[u].before, u)

AccountTrue(u) ==
    /\ gone[u] # "replaced" /\ (gone[u] = "erased" => erase[u].at = 8)
    /\ erase[u].removed \subseteq Tables \X {u} /\ Nullable(erase[u].before)
    /\ erase[u].at = 0 => erase[u].removed = {}
    /\ erase[u].at = 8 => <<"users", u>> \notin rows
    /\ erase[u].at >= 7 /\ <<"usage_logs", u>> \in rows => u \in late
    /\ gone[u] = "no" => Kept(u)

EraseInv == TypeE /\ (\A u \in Owners : OwnerTrue(u)) /\ (\A u \in Accounts : AccountTrue(u))

\* A step that touches nothing of a user.
Untouched(u) ==
    /\ \A t : <<t, u>> \in rows' <=> <<t, u>> \in rows
    /\ \A t, s : <<<<t, u>>, s>> \in cleared' <=> <<<<t, u>>, s>> \in cleared
    /\ gone'[u] = gone[u] /\ (u \in late' <=> u \in late) /\ (u \in ended' <=> u \in ended)

\* What is true of a user stays true while nothing touches it,
LEMMA OwnerRests == ASSUME NEW u, Untouched(u), OwnerTrue(u) PROVE OwnerTrue(u)'
BY DEF Untouched, OwnerTrue, Sound

\* and so does what is true of the transaction that deletes it.
LEMMA AccountRests ==
    ASSUME NEW u, Untouched(u), erase'[u] = erase[u], AccountTrue(u)
    PROVE  AccountTrue(u)'
<1>1. ASSUME Kept(u) PROVE Kept(u)'
  <2>1. \A t : <<t, u>> \in rows' \cup erase'[u].removed <=> <<t, u>> \in rows \cup erase[u].removed
    BY DEF Untouched
  <2>2. Sound(rows \cup erase[u].removed, erase[u].before, u)
           => Sound(rows' \cup erase'[u].removed, erase'[u].before, u)
    BY <2>1 DEF Sound
  <2> QED
    BY <1>1, <2>1, <2>2 DEF Kept, Untouched
<1>2. /\ gone'[u] = gone[u] /\ (<<"users", u>> \in rows' <=> <<"users", u>> \in rows)
      /\ (<<"usage_logs", u>> \in rows' <=> <<"usage_logs", u>> \in rows)
      /\ (u \in late' <=> u \in late)
  BY DEF Untouched
<1> QED
  BY <1>1, <1>2 DEF AccountTrue

\* It is enough to look at the users whom a step touches.
LEMMA OneUser ==
    ASSUME EraseInv, TypeE', NEW u,
           \A v \in Owners : v # u => Untouched(v),
           \A v \in Accounts : v # u => erase'[v] = erase[v],
           u \in Owners => OwnerTrue(u)',
           u \in Accounts => AccountTrue(u)'
    PROVE  EraseInv'
<1>1. ASSUME NEW v \in Owners PROVE OwnerTrue(v)'
  BY OwnerRests DEF EraseInv
<1>2. ASSUME NEW v \in Accounts PROVE AccountTrue(v)'
  BY AccountRests DEF EraseInv, Owners
<1> QED
  BY <1>1, <1>2 DEF EraseInv

\* What a DELETE statement does: the rows it reaches are gone, the keys into them are cleared,
\* and no reference is left dangling.
LEMMA DeleteEffect ==
    ASSUME TypeE, NEW t \in Deleted, NEW u \in Owners, Delete(t, u), Sound(rows, cleared, u)
    PROVE  /\ rows' \subseteq rows /\ cleared' \subseteq Pairs /\ Nullable(cleared')
           /\ Sound(rows', cleared', u) /\ <<t, u>> \notin rows'
           /\ \A s : <<s, u>> \in rows => <<s, u>> \in rows' \/ s \in Removed[t]
           /\ rows \ rows' \subseteq Tables \X {u}
           /\ \A v : v # u =>
                 /\ \A s : <<s, v>> \in rows' <=> <<s, v>> \in rows
                 /\ \A s, r : <<<<s, v>>, r>> \in cleared' <=> <<<<s, v>>, r>> \in cleared
<1>1. /\ t \in Removed[t] /\ t \in Tables
      /\ \A ref \in References :
            ref.to \in Removed[t] /\ ref.from \notin Removed[t] => ref.onDelete = "SET_NULL"
  BY ClosedUnderCascade
<1>2. CASE <<t, u>> \notin rows
  BY <1>2 DEF Delete, TypeE
<1>3. CASE <<t, u>> \in rows
  <2>1. rows' = {row \in rows : row[2] # u \/ row[1] \notin Removed[t]}
    BY <1>3 DEF Delete
  <2>2. cleared' = {p \in cleared : p[1][2] # u \/ p[1][1] \notin Removed[t]}
                      \cup {<<<<k[1], u>>, k[2]>> : k \in {j \in Cleared[t] : <<j[1], u>> \in rows}}
    BY <1>3 DEF Delete
  <2>3. \A s, v : <<s, v>> \in rows' <=> <<s, v>> \in rows /\ (v # u \/ s \notin Removed[t])
    BY <2>1
  <2>4. \A s, r : <<s, r>> \in Cleared[t] <=>
           \E ref \in References : /\ ref.from = s /\ ref.to = r /\ ref.onDelete = "SET_NULL"
                                   /\ r \in Removed[t] /\ s \notin Removed[t]
    BY <1>1 DEF Cleared
  <2>5. \A k \in Cleared[t] : k = <<k[1], k[2]>>
    BY <1>1 DEF Cleared
  <2>6. \A s, v, r : <<<<s, v>>, r>> \in cleared' <=>
           \/ <<<<s, v>>, r>> \in cleared /\ (v # u \/ s \notin Removed[t])
           \/ v = u /\ <<s, r>> \in Cleared[t] /\ <<s, u>> \in rows
    <3> SUFFICES ASSUME NEW s, NEW v, NEW r
                 PROVE  <<<<s, v>>, r>> \in cleared' <=>
                           \/ <<<<s, v>>, r>> \in cleared /\ (v # u \/ s \notin Removed[t])
                           \/ v = u /\ <<s, r>> \in Cleared[t] /\ <<s, u>> \in rows
      OBVIOUS
    <3>1. <<<<s, v>>, r>> \in {p \in cleared : p[1][2] # u \/ p[1][1] \notin Removed[t]}
             <=> <<<<s, v>>, r>> \in cleared /\ (v # u \/ s \notin Removed[t])
      OBVIOUS
    <3>2. <<<<s, v>>, r>> \in {<<<<k[1], u>>, k[2]>> :
                                   k \in {j \in Cleared[t] : <<j[1], u>> \in rows}}
             <=> v = u /\ <<s, r>> \in Cleared[t] /\ <<s, u>> \in rows
      BY <2>5
    <3> QED
      BY <2>2, <3>1, <3>2
  <2>7. \A p \in cleared' : p = <<<<p[1][1], p[1][2]>>, p[2]>>
    <3> SUFFICES ASSUME NEW p \in cleared' PROVE p = <<<<p[1][1], p[1][2]>>, p[2]>>
      OBVIOUS
    <3>1. CASE p \in cleared
      BY <3>1 DEF TypeE, Pairs
    <3>2. CASE p \in {<<<<k[1], u>>, k[2]>> : k \in {j \in Cleared[t] : <<j[1], u>> \in rows}}
      <4>1. PICK k \in Cleared[t] : p = <<<<k[1], u>>, k[2]>>
        BY <3>2
      <4> QED
        BY <4>1
    <3> QED
      BY <2>2, <3>1, <3>2
  <2>8. Sound(rows', cleared', u)
    <3> SUFFICES ASSUME NEW ref \in References, <<ref.from, u>> \in rows',
                        <<ref.to, u>> \notin rows'
                 PROVE  <<<<ref.from, u>>, ref.to>> \in cleared'
      BY DEF Sound
    <3>1. <<ref.from, u>> \in rows /\ ref.from \notin Removed[t]
      BY <2>3
    <3>2. CASE <<<<ref.from, u>>, ref.to>> \in cleared
      BY <2>6, <3>1, <3>2
    <3>3. CASE <<ref.to, u>> \in rows
      <4>1. ref.to \in Removed[t]
        BY <2>3, <3>3
      <4>2. <<ref.from, ref.to>> \in Cleared[t]
        BY <1>1, <2>4, <3>1, <4>1
      <4> QED
        BY <2>6, <3>1, <4>2
    <3> QED
      BY <3>1, <3>2, <3>3 DEF Sound
  <2>9. ASSUME NEW p \in cleared' PROVE p \in Pairs /\ <<p[1][1], p[2]>> \in SetNulls
    <3>1. CASE p \in cleared
      BY <3>1 DEF TypeE, Nullable
    <3>2. ASSUME NEW k \in Cleared[t], p = <<<<k[1], u>>, k[2]>>
          PROVE  p \in Pairs /\ <<p[1][1], p[2]>> \in SetNulls
      <4>1. <<k[1], k[2]>> \in Cleared[t]
        BY <2>5
      <4>2. PICK ref \in References :
              ref.from = k[1] /\ ref.to = k[2] /\ ref.onDelete = "SET_NULL"
        BY <2>4, <4>1
      <4>3. k[1] \in Tables /\ k[2] \in Tables
        BY <4>2 DEF Tables
      <4>4. <<k[1], k[2]>> \in SetNulls
        BY <4>2, Keys
      <4>5. p[1][1] = k[1] /\ p[2] = k[2]
        BY <3>2
      <4> QED
        BY <3>2, <4>3, <4>4, <4>5 DEF Pairs
    <3> QED
      BY <2>2, <3>1, <3>2
  <2>10. rows' \subseteq rows /\ rows \ rows' \subseteq Tables \X {u}
    BY <2>1 DEF TypeE
  <2> QED
    BY <1>1, <2>3, <2>6, <2>8, <2>9, <2>10 DEF Nullable
<1> QED
  BY <1>2, <1>3

\* The statements of delete_account that the invariant speaks of.
LEMMA StatementsAre ==
    /\ Len(Statements) = 8 /\ Statements[7] = "usage_logs" /\ Statements[8] = "users"
    /\ \A i \in 1..8 : Statements[i] \in Deleted
<1>1. Len(Statements) = 8 /\ Statements[7] = "usage_logs" /\ Statements[8] = "users"
  BY DEF Statements
<1>2. ASSUME NEW i \in 1..8 PROVE Statements[i] \in Deleted
  <2>1. i \in {1, 2, 3, 4, 5, 6, 7, 8}
    BY <1>2
  <2> QED
    BY <2>1 DEF Statements, Deleted
<1> QED
  BY <1>1, <1>2

\* delete_account executes its next statement.
LEMMA StatementStep ==
    ASSUME EraseInv, NEW u \in Accounts, DeleteStatement(u)
    PROVE  EraseInv'
<1> DEFINE n == erase[u].at
           t == Statements[n + 1]
           q == [at |-> n + 1, removed |-> erase[u].removed \cup (rows \ rows'),
                 before |-> IF n = 0 THEN cleared ELSE erase[u].before]
<1>t. /\ TypeE /\ u \in Owners /\ erase \in [Accounts -> Erasing] /\ erase[u] \in Erasing
      /\ OwnerTrue(u) /\ AccountTrue(u) /\ n \in 0..8
  BY DEF EraseInv, TypeE, Owners, Erasing
<1>1. /\ n < 8 /\ <<"users", u>> \in rows /\ Delete(t, u)
      /\ erase' = [erase EXCEPT ![u] =
           [at |-> @.at + 1, removed |-> @.removed \cup (rows \ rows'),
            before |-> IF @.at = 0 THEN cleared ELSE @.before]]
      /\ UNCHANGED <<demo, gone, inserts, late, ended>>
  BY StatementsAre DEF DeleteStatement
<1>2. n + 1 \in 1..8 /\ t \in Deleted
  BY <1>t, <1>1, StatementsAre
<1>3. n + 1 = 7 => t = "usage_logs"
  BY StatementsAre
<1>4. n + 1 = 8 => t = "users"
  BY StatementsAre
<1>5. erase' = [erase EXCEPT ![u] = q]
  BY <1>1, <1>t
<1>6. Sound(rows, cleared, u)
  BY <1>t DEF OwnerTrue
<1> HIDE DEF t
<1>7. /\ rows' \subseteq rows /\ cleared' \subseteq Pairs /\ Nullable(cleared')
      /\ Sound(rows', cleared', u) /\ <<t, u>> \notin rows'
      /\ rows \ rows' \subseteq Tables \X {u}
      /\ \A v : v # u => /\ \A s : <<s, v>> \in rows' <=> <<s, v>> \in rows
                         /\ \A s, r : <<<<s, v>>, r>> \in cleared' <=> <<<<s, v>>, r>> \in cleared
  BY <1>t, <1>1, <1>2, <1>6, DeleteEffect
<1>8. n + 1 \in 0..8 /\ n + 1 # 0 /\ n \in Nat /\ ~(n + 1 >= 7 /\ n < 6) /\ (n + 1 > 7 => n >= 7)
  BY <1>t, <1>1
<1>9. q \in Erasing
  <2>1. rows \subseteq Tables \X Owners /\ cleared \subseteq Pairs
    BY <1>t DEF TypeE
  <2>2. erase[u].removed \subseteq Tables \X Owners /\ erase[u].before \subseteq Pairs
    BY <1>t DEF Erasing
  <2> QED
    BY <1>8, <2>1, <2>2 DEF Erasing
<1>10. /\ erase' \in [Accounts -> Erasing] /\ erase'[u] = q
       /\ \A v \in Accounts : v # u => erase'[v] = erase[v]
  BY <1>t, <1>5, <1>9
<1>11. /\ q.at = n + 1 /\ q.removed = erase[u].removed \cup (rows \ rows')
       /\ q.before = IF n = 0 THEN cleared ELSE erase[u].before
  OBVIOUS
<1>12. TypeE'
  BY <1>1, <1>7, <1>10, <1>t DEF TypeE
<1>13. gone[u] = "no"
  BY <1>t, <1>1 DEF OwnerTrue
<1> HIDE DEF n, q
<1>14. OwnerTrue(u)'
  BY <1>1, <1>7, <1>13 DEF OwnerTrue
<1>15. rows' \cup q.removed = rows \cup erase[u].removed
  BY <1>7, <1>11
<1>16. Kept(u)'
  <2>1. Kept(u)
    BY <1>t, <1>13 DEF AccountTrue
  <2>2. \A s \in Tables : <<s, u>> \in rows' \cup q.removed \/ (u \in ended' /\ s \in Group)
    BY <1>1, <1>15, <2>1 DEF Kept
  <2>3. Sound(rows' \cup q.removed, q.before, u)
    <3>1. CASE n = 0
      <4>1. erase[u].removed = {}
        BY <1>t, <3>1 DEF AccountTrue, n
      <4> QED
        BY <1>6, <1>11, <1>15, <3>1, <4>1
    <3>2. CASE n # 0
      <4>1. erase[u].at > 0
        BY <1>8, <3>2 DEF n
      <4> QED
        BY <1>11, <1>15, <2>1, <3>2, <4>1 DEF Kept
    <3> QED
      BY <3>1, <3>2
  <2> QED
    BY <1>10, <2>2, <2>3 DEF Kept
<1>17. AccountTrue(u)'
  <2>1. gone'[u] = "no"
    BY <1>1, <1>13
  <2>2. q.removed \subseteq Tables \X {u}
    BY <1>t, <1>7, <1>11 DEF AccountTrue
  <2>3. Nullable(q.before)
    BY <1>t, <1>11 DEF AccountTrue, TypeE
  <2>4. q.at # 0
    BY <1>8, <1>11
  <2>5. q.at = 8 => <<"users", u>> \notin rows'
    BY <1>4, <1>7, <1>11
  <2>6. q.at >= 7 /\ <<"usage_logs", u>> \in rows' => u \in late'
    <3> SUFFICES ASSUME q.at >= 7, <<"usage_logs", u>> \in rows' PROVE u \in late'
      OBVIOUS
    <3>1. n + 1 # 7
      BY <1>3, <1>7
    <3>2. n >= 7
      BY <1>8, <1>11, <3>1
    <3> QED
      BY <1>t, <1>1, <1>7, <3>2 DEF AccountTrue, n
  <2> QED
    BY <1>10, <1>16, <2>1, <2>2, <2>3, <2>4, <2>5, <2>6 DEF AccountTrue
<1>18. \A v \in Owners : v # u => Untouched(v)
  BY <1>1, <1>7 DEF Untouched
<1> QED
  BY <1>10, <1>12, <1>14, <1>17, <1>18, OneUser

\* delete_account commits.
LEMMA CommitStep ==
    ASSUME EraseInv, NEW u \in Accounts, EraseCommits(u)
    PROVE  EraseInv'
<1> DEFINE q == [NotErasing EXCEPT !.at = 8]
<1>t. /\ TypeE /\ u \in Owners /\ erase \in [Accounts -> Erasing]
      /\ gone \in [Owners -> {"no", "erased", "replaced"}]
      /\ OwnerTrue(u) /\ AccountTrue(u)
  BY DEF EraseInv, TypeE, Owners
<1>1. /\ erase[u].at = 8 /\ gone[u] = "no" /\ gone' = [gone EXCEPT ![u] = "erased"]
      /\ erase' = [erase EXCEPT ![u] = q]
      /\ UNCHANGED <<rows, cleared, demo, inserts, late, ended>>
  BY StatementsAre DEF EraseCommits
<1>2. q.at = 8 /\ q.removed = {} /\ q.before = {} /\ q \in Erasing
  BY DEF NotErasing, Erasing
<1> HIDE DEF q
<1>3. /\ erase' \in [Accounts -> Erasing] /\ erase'[u] = q
      /\ \A v \in Accounts : v # u => erase'[v] = erase[v]
  BY <1>t, <1>1, <1>2
<1>4. /\ gone' \in [Owners -> {"no", "erased", "replaced"}] /\ gone'[u] = "erased"
      /\ \A v \in Owners : v # u => gone'[v] = gone[v]
  BY <1>t, <1>1
<1>5. TypeE'
  BY <1>t, <1>1, <1>3, <1>4 DEF TypeE
<1>6. <<"users", u>> \notin rows /\ (<<"usage_logs", u>> \in rows => u \in late)
  BY <1>t, <1>1 DEF AccountTrue
<1>7. OwnerTrue(u)'
  BY <1>t, <1>1, <1>4, <1>6 DEF OwnerTrue
<1>8. AccountTrue(u)'
  BY <1>1, <1>2, <1>3, <1>4, <1>6 DEF AccountTrue, Nullable
<1>9. \A v \in Owners : v # u => Untouched(v)
  BY <1>1, <1>4 DEF Untouched
<1> QED
  BY <1>3, <1>5, <1>7, <1>8, <1>9, OneUser

\* delete_account is rolled back: the undo log brings back what was there.
LEMMA FailStep ==
    ASSUME EraseInv, NEW u \in Accounts, EraseFails(u)
    PROVE  EraseInv'
<1> DEFINE r == erase[u].removed
           b == erase[u].before
<1>t. /\ TypeE /\ u \in Owners /\ erase \in [Accounts -> Erasing]
      /\ OwnerTrue(u) /\ AccountTrue(u) /\ r \subseteq Tables \X Owners /\ b \subseteq Pairs
  BY DEF EraseInv, TypeE, Owners, Erasing
<1>1. /\ erase[u].at > 0 /\ gone[u] = "no" /\ rows' = rows \cup r
      /\ cleared' = {p \in cleared : p[1][2] # u} \cup {p \in b : p[1][2] = u}
      /\ erase' = [erase EXCEPT ![u] = NotErasing] /\ late' = late \ {u}
      /\ UNCHANGED <<demo, gone, inserts, ended>>
  BY DEF EraseFails
<1>2. Kept(u) /\ r \subseteq Tables \X {u} /\ Nullable(b)
  BY <1>t, <1>1 DEF AccountTrue
<1>3. Sound(rows \cup r, b, u)
  BY <1>1, <1>2 DEF Kept
<1>4. \A t \in Tables : <<t, u>> \in rows \cup r \/ (u \in ended /\ t \in Group)
  BY <1>2 DEF Kept
<1> HIDE DEF r, b
<1>5. /\ NotErasing.at = 0 /\ NotErasing.removed = {} /\ NotErasing.before = {}
      /\ NotErasing \in Erasing
  BY DEF NotErasing, Erasing
<1>6. /\ erase' \in [Accounts -> Erasing] /\ erase'[u] = NotErasing
      /\ \A v \in Accounts : v # u => erase'[v] = erase[v]
  BY <1>t, <1>1, <1>5
<1>7. \A s, t : <<<<s, u>>, t>> \in b => <<<<s, u>>, t>> \in cleared'
  BY <1>1
<1>8. Sound(rows', cleared', u)
  BY <1>1, <1>3, <1>7 DEF Sound
<1>9. rows' \subseteq Tables \X Owners /\ cleared' \subseteq Pairs /\ Nullable(cleared')
  BY <1>t, <1>1, <1>2 DEF TypeE, Nullable
<1>10. TypeE'
  BY <1>t, <1>1, <1>6, <1>9 DEF TypeE
<1>11. OwnerTrue(u)'
  BY <1>1, <1>8 DEF OwnerTrue
<1>12. Kept(u)'
  BY <1>1, <1>4, <1>5, <1>6 DEF Kept
<1>13. AccountTrue(u)'
  BY <1>1, <1>5, <1>6, <1>12 DEF AccountTrue, Nullable
<1>14. ASSUME NEW v \in Owners, v # u PROVE Untouched(v)
  <2>1. \A t : <<t, v>> \notin r
    BY <1>2, <1>14
  <2>2. \A t, s : <<<<t, v>>, s>> \in cleared' <=> <<<<t, v>>, s>> \in cleared
    BY <1>1, <1>14
  <2> QED
    BY <1>1, <1>14, <2>1, <2>2 DEF Untouched
<1> QED
  BY <1>6, <1>10, <1>11, <1>13, <1>14, OneUser

\* Which tables a row of one table refers to.
LEMMA TargetsOf ==
    \A t, s : (\E ref \in References : ref.from = t /\ ref.to = s)
                 <=> <<t, s>> \in Cascades \/ <<t, s>> \in SetNulls
<1>1. ASSUME NEW ref \in References
      PROVE  <<ref.from, ref.to>> \in Cascades \/ <<ref.from, ref.to>> \in SetNulls
  BY Keys
<1>2. ASSUME NEW t, NEW s, <<t, s>> \in Cascades \/ <<t, s>> \in SetNulls
      PROVE  \E ref \in References : ref.from = t /\ ref.to = s
  <2>1. CASE <<t, s>> \in Cascades
    <3>1. PICK ref \in References :
            ref.from = <<t, s>>[1] /\ ref.to = <<t, s>>[2] /\ ref.onDelete = "CASCADE"
      BY <2>1, Keys
    <3> QED
      BY <3>1
  <2>2. CASE <<t, s>> \in SetNulls
    <3>1. PICK ref \in References :
            ref.from = <<t, s>>[1] /\ ref.to = <<t, s>>[2] /\ ref.onDelete = "SET_NULL"
      BY <2>2, Keys
    <3> QED
      BY <3>1
  <2> QED
    BY <1>2, <2>1, <2>2
<1> QED
  BY <1>1, <1>2

\* Another request inserts a row.
LEMMA InsertStep ==
    ASSUME EraseInv, NEW row \in Tables \X Owners, InsertRow(row)
    PROVE  EraseInv'
<1>1. PICK t \in Tables, u \in Owners : row = <<t, u>>
  OBVIOUS
<1> DEFINE targets == {ref.to : ref \in {r \in References : r.from = t}}
           missing == {s \in targets : <<s, u>> \notin rows}
<1>t. /\ TypeE /\ erase \in [Accounts -> Erasing] /\ OwnerTrue(u)
      /\ u \in Accounts => AccountTrue(u)
  BY DEF EraseInv, TypeE
<1>2. row[1] = t /\ row[2] = u
  BY <1>1
<1>3. /\ t # "users" /\ row \notin rows
      /\ missing \subseteq (IF t \in {"usage_logs", "stories"} THEN {"sessions"} ELSE {})
      /\ rows' = rows \cup {row} /\ cleared' = cleared \cup {<<row, s>> : s \in missing}
      /\ late' = (IF t = "usage_logs" /\ u \in Accounts /\ erase[u].at >= 7
                  THEN late \cup {u} ELSE late)
      /\ UNCHANGED <<erase, demo, gone, ended>>
  BY <1>2 DEF InsertRow
<1>4. \A ref \in References : ref.from = t => ref.to \in targets
  OBVIOUS
<1>5. \A s \in missing : s = "sessions" /\ t \in {"usage_logs", "stories"} /\ s \in Tables
  BY <1>3 DEF Tables
<1>6. \A s \in targets : s \notin missing => <<s, u>> \in rows
  OBVIOUS
<1> HIDE DEF targets, missing
<1>7. \A p : p \in cleared' <=> p \in cleared \/ \E s \in missing : p = <<<<t, u>>, s>>
  BY <1>1, <1>3
<1>8. \A s, v : <<s, v>> \in rows' <=> <<s, v>> \in rows \/ (s = t /\ v = u)
  BY <1>1, <1>3
<1>9. TypeE'
  <2>1. \A s \in missing : <<<<t, u>>, s>> \in Pairs
    BY <1>5 DEF Pairs
  <2>2. \A s \in missing : <<t, s>> \in SetNulls
    BY <1>5 DEF SetNulls
  <2>3. Nullable(cleared')
    <3> SUFFICES ASSUME NEW p \in cleared' PROVE <<p[1][1], p[2]>> \in SetNulls
      BY DEF Nullable
    <3>1. CASE p \in cleared
      BY <1>t, <3>1 DEF TypeE, Nullable
    <3>2. ASSUME NEW s \in missing, p = <<<<t, u>>, s>> PROVE <<p[1][1], p[2]>> \in SetNulls
      BY <2>2, <3>2
    <3> QED
      BY <1>7, <3>1, <3>2
  <2> QED
    BY <1>t, <1>3, <1>7, <2>1, <2>3 DEF TypeE
<1>10. Sound(rows', cleared', u)
  <2> SUFFICES ASSUME NEW ref \in References, <<ref.from, u>> \in rows', <<ref.to, u>> \notin rows'
               PROVE  <<<<ref.from, u>>, ref.to>> \in cleared'
    BY DEF Sound
  <2>1. <<ref.to, u>> \notin rows
    BY <1>8
  <2>2. CASE <<ref.from, u>> \in rows
    BY <1>t, <1>7, <2>1, <2>2 DEF OwnerTrue, Sound
  <2>3. CASE ref.from = t
    <3>1. ref.to \in missing
      BY <1>4, <1>6, <2>1, <2>3
    <3> QED
      BY <1>7, <2>3, <3>1
  <2> QED
    BY <1>8, <2>2, <2>3
<1>11. OwnerTrue(u)'
  <2>1. <<"users", u>> \in rows' <=> <<"users", u>> \in rows
    BY <1>3, <1>8
  <2>2. ASSUME gone[u] # "no" PROVE t # "usage_logs"
    <3>1. <<"users", u>> \notin rows
      BY <1>t, <2>2 DEF OwnerTrue
    <3>2. SUFFICES ASSUME t = "usage_logs" PROVE FALSE
      OBVIOUS
    <3>3. <<t, "users">> \in SetNulls
      BY <3>2 DEF SetNulls
    <3>4. "users" \in targets
      BY <1>4, <3>3, TargetsOf
    <3>5. "users" \in missing
      BY <1>6, <3>1, <3>4
    <3> QED
      BY <1>5, <3>5
  <2>3. <<"usage_logs", u>> \in rows' /\ gone[u] # "no" => <<"usage_logs", u>> \in rows
    BY <1>8, <2>2
  <2>4. u \in late => u \in late'
    BY <1>3
  <2> QED
    BY <1>t, <1>3, <1>10, <2>1, <2>3, <2>4 DEF OwnerTrue
<1>12. ASSUME u \in Accounts PROVE AccountTrue(u)'
  <2> DEFINE r == erase[u].removed
             b == erase[u].before
  <2>t. AccountTrue(u)
    BY <1>t, <1>12
  <2>1. <<"users", u>> \in rows' <=> <<"users", u>> \in rows
    BY <1>3, <1>8
  <2>2. erase[u].at >= 7 /\ <<"usage_logs", u>> \in rows' => u \in late'
    <3> SUFFICES ASSUME erase[u].at >= 7, <<"usage_logs", u>> \in rows' PROVE u \in late'
      OBVIOUS
    <3>1. CASE <<"usage_logs", u>> \in rows
      BY <1>3, <2>t, <3>1 DEF AccountTrue
    <3>2. CASE t = "usage_logs"
      BY <1>3, <1>12, <3>2
    <3> QED
      BY <1>8, <3>1, <3>2
  <2>3. ASSUME gone[u] = "no" PROVE Kept(u)'
    <3>t. Kept(u)
      BY <2>t, <2>3 DEF AccountTrue
    <3>1. \A s \in Tables : <<s, u>> \in rows' \cup r \/ (u \in ended /\ s \in Group)
      BY <1>8, <3>t DEF Kept
    <3>2. ASSUME erase[u].at > 0 PROVE Sound(rows' \cup r, b, u)
      <4>1. Sound(rows \cup r, b, u)
        BY <3>t, <3>2 DEF Kept
      <4>2. CASE <<t, u>> \in rows \cup r
        BY <1>8, <4>1, <4>2 DEF Sound
      <4>3. CASE <<t, u>> \notin rows \cup r
        <5>1. t \in Group
          BY <3>t, <4>3 DEF Kept
        <5>2. t \notin {"usage_logs", "stories"}
          BY <5>1 DEF Group
        <5>3. missing = {}
          BY <1>5, <5>2
        <5> SUFFICES ASSUME NEW ref \in References, <<ref.from, u>> \in rows' \cup r,
                            <<ref.to, u>> \notin rows' \cup r
                     PROVE  <<<<ref.from, u>>, ref.to>> \in b
          BY DEF Sound
        <5>4. <<ref.to, u>> \notin rows \cup r
          BY <1>8
        <5>5. ref.from # t
          BY <1>4, <1>6, <5>3, <5>4
        <5>6. <<ref.from, u>> \in rows \cup r
          BY <1>8, <5>5
        <5> QED
          BY <4>1, <5>4, <5>6 DEF Sound
      <4> QED
        BY <4>2, <4>3
    <3> QED
      BY <1>3, <3>1, <3>2 DEF Kept
  <2> QED
    BY <1>3, <2>t, <2>1, <2>2, <2>3 DEF AccountTrue
<1>13. ASSUME NEW v \in Owners, v # u PROVE Untouched(v)
  <2>1. \A s, x : <<<<s, v>>, x>> \in cleared' <=> <<<<s, v>>, x>> \in cleared
    BY <1>7, <1>13
  <2> QED
    BY <1>3, <1>8, <1>13, <2>1 DEF Untouched
<1> QED
  BY <1>3, <1>9, <1>11, <1>12, <1>13, OneUser

\* A user deletes its session.
LEMMA SessionStep ==
    ASSUME EraseInv, NEW u \in Owners, DeleteSession(u)
    PROVE  EraseInv'
<1>t. /\ TypeE /\ OwnerTrue(u) /\ (u \in Accounts => AccountTrue(u))
  BY DEF EraseInv
<1>1. /\ (u \in Accounts => erase[u].at = 0) /\ Delete("sessions", u) /\ ended' = ended \cup {u}
      /\ UNCHANGED <<erase, demo, gone, inserts, late>>
  BY DEF DeleteSession
<1>2. "sessions" \in Deleted /\ Sound(rows, cleared, u)
  BY <1>t DEF Deleted, OwnerTrue
<1>3. /\ rows' \subseteq rows /\ cleared' \subseteq Pairs /\ Nullable(cleared')
      /\ Sound(rows', cleared', u)
      /\ \A s : <<s, u>> \in rows => <<s, u>> \in rows' \/ s \in Removed["sessions"]
      /\ \A v : v # u => /\ \A s : <<s, v>> \in rows' <=> <<s, v>> \in rows
                         /\ \A s, r : <<<<s, v>>, r>> \in cleared' <=> <<<<s, v>>, r>> \in cleared
  BY <1>t, <1>1, <1>2, DeleteEffect
<1>4. TypeE'
  BY <1>t, <1>1, <1>3 DEF TypeE
<1>5. OwnerTrue(u)'
  BY <1>t, <1>1, <1>3 DEF OwnerTrue
<1>6. ASSUME u \in Accounts PROVE AccountTrue(u)'
  <2>1. ASSUME gone[u] = "no" PROVE Kept(u)'
    <3>1. Kept(u) /\ erase[u].at = 0
      BY <1>t, <1>1, <1>6, <2>1 DEF AccountTrue
    <3>2. ASSUME NEW s \in Tables
          PROVE  <<s, u>> \in rows' \cup erase[u].removed \/ (u \in ended' /\ s \in Group)
      BY <1>1, <1>3, <3>1, Reached DEF Kept
    <3> QED
      BY <1>1, <3>1, <3>2 DEF Kept
  <2> QED
    BY <1>t, <1>1, <1>3, <1>6, <2>1 DEF AccountTrue
<1>7. \A v \in Owners : v # u => Untouched(v)
  BY <1>1, <1>3 DEF Untouched
<1> QED
  BY <1>1, <1>4, <1>5, <1>6, <1>7, OneUser

\* seed_demo deletes the demo user.
LEMMA DemoGoes ==
    ASSUME EraseInv, DeleteDemo
    PROVE  EraseInv'
<1>t. /\ TypeE /\ gone \in [Owners -> {"no", "erased", "replaced"}]
  BY DEF EraseInv, TypeE
<1>0. demo \in Demos /\ demo \in Owners /\ demo \notin Accounts
  BY <1>t DEF DeleteDemo, TypeE, Owners
<1>1. PICK d \in Owners : d = demo /\ d \notin Accounts
  BY <1>0
<1>2. /\ Delete("users", d) /\ demo' = Nobody /\ gone' = [gone EXCEPT ![d] = "replaced"]
      /\ UNCHANGED <<erase, inserts, late, ended>>
  BY <1>1 DEF DeleteDemo
<1>3. "users" \in Deleted /\ Sound(rows, cleared, d)
  BY DEF EraseInv, OwnerTrue, Deleted
<1>4. /\ rows' \subseteq rows /\ cleared' \subseteq Pairs /\ Nullable(cleared')
      /\ Sound(rows', cleared', d) /\ <<"users", d>> \notin rows'
      /\ \A v : v # d => /\ \A s : <<s, v>> \in rows' <=> <<s, v>> \in rows
                         /\ \A s, r : <<<<s, v>>, r>> \in cleared' <=> <<<<s, v>>, r>> \in cleared
  BY <1>t, <1>2, <1>3, DeleteEffect
<1>5. /\ gone' \in [Owners -> {"no", "erased", "replaced"}] /\ gone'[d] = "replaced"
      /\ \A v \in Owners : v # d => gone'[v] = gone[v]
  BY <1>t, <1>2
<1>6. TypeE'
  BY <1>t, <1>2, <1>4, <1>5 DEF TypeE
<1>7. OwnerTrue(d)'
  BY <1>4, <1>5 DEF OwnerTrue
<1>8. \A v \in Owners : v # d => Untouched(v)
  BY <1>2, <1>4, <1>5 DEF Untouched
<1> QED
  BY <1>1, <1>2, <1>6, <1>7, <1>8, OneUser

\* seed_demo creates a demo user with its rows.
LEMMA DemoComes ==
    ASSUME EraseInv, NEW u \in Demos, CreateDemo(u)
    PROVE  EraseInv'
<1> DEFINE S == {"users", "sessions", "segment_scores", "session_metrics", "usage_logs",
                 "skill_graph", "stories"}
<1>t. TypeE /\ u \in Owners /\ u \notin Accounts /\ OwnerTrue(u)
  BY DEF EraseInv, Owners
<1>1. /\ gone[u] = "no" /\ rows' = rows \cup (S \X {u}) /\ demo' = u
      /\ UNCHANGED <<cleared, erase, gone, inserts, late, ended>>
  BY DEF CreateDemo, DemoRows
<1>2. \A s, v : <<s, v>> \in rows' <=> <<s, v>> \in rows \/ (s \in S /\ v = u)
  BY <1>1
<1>3. S \subseteq Tables
  BY TablesAre DEF AllTables, Group, Outlive
<1>4. \A ref \in References : ref.from \in S => ref.to \in S
  <2>1. \A s, t : <<s, t>> \in Cascades \/ <<s, t>> \in SetNulls => (s \in S => t \in S)
    BY DEF Cascades, SetNulls
  <2> QED
    BY <2>1, Keys
<1> HIDE DEF S
<1>5. Sound(rows', cleared', u)
  BY <1>t, <1>1, <1>2, <1>4 DEF OwnerTrue, Sound
<1>6. rows' \subseteq Tables \X Owners
  BY <1>t, <1>1, <1>3 DEF TypeE
<1>7. TypeE'
  BY <1>t, <1>1, <1>6 DEF TypeE
<1>8. OwnerTrue(u)'
  BY <1>1, <1>5 DEF OwnerTrue
<1>9. \A v \in Owners : v # u => Untouched(v)
  BY <1>1, <1>2 DEF Untouched
<1> QED
  BY <1>t, <1>1, <1>7, <1>8, <1>9, OneUser

\* At the start every account has all its rows, and no transaction is open.
LEMMA InitErase == EraseInit => EraseInv
<1> SUFFICES ASSUME EraseInit PROVE EraseInv
  OBVIOUS
<1>1. /\ NotErasing.at = 0 /\ NotErasing.removed = {} /\ NotErasing.before = {}
      /\ NotErasing \in Erasing
  BY DEF NotErasing, Erasing
<1>2. \A s, v : <<s, v>> \in rows <=> s \in Tables /\ v \in Accounts
  BY DEF EraseInit, RowsOf
<1>3. rows \subseteq Tables \X Owners
  BY DEF EraseInit, RowsOf, Owners
<1>4. TypeE
  BY <1>1, <1>3 DEF EraseInit, TypeE, Nullable
<1>5. ASSUME NEW u \in Owners PROVE OwnerTrue(u)
  BY <1>2, <1>5 DEF EraseInit, OwnerTrue, Sound, Tables
<1>6. ASSUME NEW u \in Accounts PROVE AccountTrue(u)
  <2>1. erase[u] = NotErasing /\ gone[u] = "no"
    BY DEF EraseInit, Owners
  <2>2. Kept(u)
    BY <1>1, <1>2, <2>1 DEF Kept
  <2> QED
    BY <1>1, <2>1, <2>2 DEF AccountTrue, Nullable
<1> QED
  BY <1>4, <1>5, <1>6 DEF EraseInv

\* Each step touches one user, or none.
LEMMA NextErase == EraseInv /\ [EraseNext]_eraseVars => EraseInv'
<1> SUFFICES ASSUME EraseInv, [EraseNext]_eraseVars PROVE EraseInv'
  OBVIOUS
<1>1. ASSUME UNCHANGED eraseVars PROVE EraseInv'
  BY <1>1 DEF eraseVars, EraseInv, TypeE, OwnerTrue, AccountTrue, Kept
<1> QED
  BY <1>1, StatementStep, CommitStep, FailStep, InsertStep, SessionStep, DemoGoes, DemoComes
  DEF EraseNext

\* settings.delete_account and seed_demo leave nothing that names a deleted user, whatever its
\* other requests insert and wherever the transaction fails; no row ever refers to a missing
\* one, and a user that is not deleted loses only what the deletion of a session takes.
THEOREM ErasureComplete == EraseSpec => []NothingLeft
<1>1. EraseInv => NothingLeft
  <2> SUFFICES ASSUME EraseInv PROVE NothingLeft
    OBVIOUS
  <2>1. ASSUME NEW u \in Owners, gone[u] # "no"
        PROVE  /\ \A row \in rows : row[2] = u =>
                     /\ row[1] \in {"questions", "usage_logs"}
                     /\ <<row, "users">> \in cleared
               /\ <<"usage_logs", u>> \in rows => gone[u] = "replaced" \/ u \in late
    <3>1. /\ <<"users", u>> \notin rows /\ Sound(rows, cleared, u) /\ Nullable(cleared)
          /\ <<"usage_logs", u>> \in rows => gone[u] = "replaced" \/ u \in late
          /\ rows \subseteq Tables \X Owners
      BY <2>1 DEF EraseInv, OwnerTrue, TypeE
    <3>2. ASSUME NEW t, NEW s, <<t, u>> \in rows, <<t, s>> \in Cascades \cup SetNulls,
                 <<s, u>> \notin rows
          PROVE  <<<<t, u>>, s>> \in cleared
      <4>1. PICK ref \in References : ref.from = t /\ ref.to = s
        BY <3>2, TargetsOf
      <4> QED
        BY <3>1, <3>2, <4>1 DEF Sound
    <3>3. ASSUME NEW t, NEW s, <<t, s>> \in Cascades, <<t, s>> \notin SetNulls,
                 <<s, u>> \notin rows
          PROVE  <<t, u>> \notin rows
      <4>1. <<<<t, u>>, s>> \notin cleared
        BY <3>1, <3>3 DEF Nullable
      <4> QED
        BY <3>2, <3>3, <4>1
    <3>4. ASSUME NEW t \in {"sessions", "skill_graph", "stories", "share_cards",
                            "question_upvotes", "user_memories", "company_intel"}
          PROVE  <<t, u>> \notin rows
      <4>1. <<t, "users">> \in Cascades /\ <<t, "users">> \notin SetNulls
        BY DEF Cascades, SetNulls
      <4> QED
        BY <3>1, <3>3, <4>1
    <3>5. ASSUME NEW t \in {"segment_scores", "session_metrics", "transcript_words"}
          PROVE  <<t, u>> \notin rows
      <4>1. <<t, "sessions">> \in Cascades /\ <<t, "sessions">> \notin SetNulls
        BY DEF Cascades, SetNulls
      <4> QED
        BY <3>3, <3>4, <4>1
    <3>6. ASSUME NEW t \in Tables, <<t, u>> \in rows PROVE t \in {"questions", "usage_logs"}
      BY <3>1, <3>4, <3>5, <3>6, TablesAre DEF AllTables, Group, Outlive
    <3>7. ASSUME NEW t \in {"questions", "usage_logs"}, <<t, u>> \in rows
          PROVE  <<<<t, u>>, "users">> \in cleared
      <4>1. <<t, "users">> \in SetNulls
        BY DEF SetNulls
      <4> QED
        BY <3>1, <3>2, <3>7, <4>1
    <3>8. ASSUME NEW row \in rows, row[2] = u
          PROVE  row[1] \in {"questions", "usage_logs"} /\ <<row, "users">> \in cleared
      <4>1. row[1] \in Tables /\ row = <<row[1], u>>
        BY <3>1, <3>8
      <4> QED
        BY <3>6, <3>7, <4>1
    <3> QED
      BY <3>1, <3>8
  <2>2. \A ref \in References, u \in Owners :
          <<ref.from, u>> \in rows =>
             <<ref.to, u>> \in rows \/ <<<<ref.from, u>>, ref.to>> \in cleared
    BY DEF EraseInv, OwnerTrue, Sound
  <2>3. \A u \in Accounts : gone[u] = "no" /\ erase[u].at = 0 =>
          \A t \in Tables : <<t, u>> \in rows \/ (u \in ended /\ t \in Group)
    BY DEF EraseInv, AccountTrue, Kept
  <2> QED
    BY <2>1, <2>2, <2>3 DEF NothingLeft, Group
<1> QED
  BY InitErase, NextErase, <1>1, PTL DEF EraseSpec

-------------------------------------------------------------------------------
(* Provisioning: what each revision creates, and in which order *)

\* A sequence of m elements of s and then n of t.
Adjoins(s, t, m, n, r) ==
    /\ Len(r) = m + n
    /\ \A i \in 1..m : r[i] = s[i]
    /\ \A i \in 1..n : r[m + i] = t[i]

LEMMA Joined ==
    ASSUME NEW S, NEW s \in Seq(S), NEW t \in Seq(S)
    PROVE  s \o t \in Seq(S) /\ Adjoins(s, t, Len(s), Len(t), s \o t)
<1> DEFINE r == s \o t
<1>1. r \in Seq(S) /\ Len(r) = Len(s) + Len(t) /\ Len(s) \in Nat /\ Len(t) \in Nat
  BY ConcatProperties
<1>2. \A i \in 1..(Len(s) + Len(t)) : r[i] = IF i <= Len(s) THEN s[i] ELSE t[i - Len(s)]
  BY ConcatProperties
<1> HIDE DEF r
<1>3. \A i \in 1..Len(t) : /\ Len(s) + i \in 1..(Len(s) + Len(t)) /\ ~(Len(s) + i <= Len(s))
                          /\ Len(s) + i - Len(s) = i
  BY <1>1
<1>4. \A i \in 1..Len(s) : i \in 1..(Len(s) + Len(t)) /\ i <= Len(s)
  BY <1>1
<1>5. \A i \in 1..Len(t) : r[Len(s) + i] = t[i]
  BY <1>2, <1>3
<1>6. \A i \in 1..Len(s) : r[i] = s[i]
  BY <1>2, <1>4
<1> QED
  BY <1>1, <1>5, <1>6 DEF Adjoins, r

\* What 001 creates, in order.
InitialTables == << <<"users">>, <<"sessions">>, <<"segment_scores">>, <<"transcript_words">>,
                    <<"skill_graph">>, <<"questions">>, <<"session_metrics">>,
                    <<"usage_logs">> >>

LEMMA InitialUp == InitialSchema.up = InitialTables
<1> DEFINE a == UserTables.up
           b == AnswerTables.up
           c == LearningTables.up
           d == AccountingTables.up
           S == {<<"users">>, <<"sessions">>, <<"segment_scores">>, <<"transcript_words">>,
                 <<"skill_graph">>, <<"questions">>, <<"session_metrics">>, <<"usage_logs">>}
<1>1. /\ a = << <<"users">>, <<"sessions">> >>
      /\ b = << <<"segment_scores">>, <<"transcript_words">> >>
      /\ c = << <<"skill_graph">>, <<"questions">> >>
      /\ d = << <<"session_metrics">>, <<"usage_logs">> >>
  BY DEF UserTables, AnswerTables, LearningTables, AccountingTables
<1>0. InitialSchema.up = a \o b \o c \o d
  BY DEF InitialSchema
<1> HIDE DEF a, b, c, d
<1>2. /\ a \in Seq(S) /\ b \in Seq(S) /\ c \in Seq(S) /\ d \in Seq(S)
  BY <1>1
<1>3. /\ Len(a) = 2 /\ Len(b) = 2 /\ Len(c) = 2 /\ Len(d) = 2
  BY <1>1
<1> HIDE DEF S
<1> DEFINE two == a \o b
           three == two \o c
           four == three \o d
<1>4. two \in Seq(S) /\ Adjoins(a, b, 2, 2, two)
  BY <1>2, <1>3, Joined
<1> HIDE DEF two
<1>41. Len(two) = 4 /\ two[1] = a[1] /\ two[2] = a[2] /\ two[3] = b[1] /\ two[4] = b[2]
  BY <1>4 DEF Adjoins
<1>5. three \in Seq(S) /\ Adjoins(two, c, 4, 2, three)
  BY <1>2, <1>3, <1>4, <1>41, Joined
<1> HIDE DEF three
<1>51. /\ Len(three) = 6 /\ three[1] = two[1] /\ three[2] = two[2] /\ three[3] = two[3]
       /\ three[4] = two[4] /\ three[5] = c[1] /\ three[6] = c[2]
  BY <1>5 DEF Adjoins
<1>6. four \in Seq(S) /\ Adjoins(three, d, 6, 2, four)
  BY <1>2, <1>3, <1>5, <1>51, Joined
<1> HIDE DEF four
<1>61. /\ Len(four) = 8 /\ four[1] = three[1] /\ four[2] = three[2] /\ four[3] = three[3]
       /\ four[4] = three[4] /\ four[5] = three[5] /\ four[6] = three[6]
       /\ four[7] = d[1] /\ four[8] = d[2]
  BY <1>6 DEF Adjoins
<1>7. InitialSchema.up = four
  BY <1>0 DEF four, three, two
<1>8. InitialTables \in Seq(S) /\ Len(InitialTables) = 8
  BY DEF InitialTables, S
<1>9. \A i \in 1..8 : four[i] = InitialTables[i]
  <2>1. /\ four[1] = <<"users">> /\ four[2] = <<"sessions">> /\ four[3] = <<"segment_scores">>
        /\ four[4] = <<"transcript_words">> /\ four[5] = <<"skill_graph">>
        /\ four[6] = <<"questions">> /\ four[7] = <<"session_metrics">>
        /\ four[8] = <<"usage_logs">>
    BY <1>1, <1>41, <1>51, <1>61
  <2> QED
    BY <2>1 DEF InitialTables
<1> QED
  BY <1>6, <1>61, <1>7, <1>8, <1>9, SeqEqual

\* The revision that creates an object.
Home(o) ==
    IF Len(o) = 1
    THEN CASE o[1] = "stories" -> 2
           [] o[1] = "share_cards" -> 11
           [] o[1] = "question_upvotes" -> 12
           [] o[1] = "user_memories" -> 14
           [] o[1] = "company_intel" -> 17
           [] OTHER -> 1
    ELSE CASE o[2] \in {"profile", "resume_text"} -> 3
           [] o[2] = "voice_id" -> 4
           [] o[2] = "persona" -> 5
           [] o[2] = "company" -> IF o[1] = "sessions" THEN 6 ELSE 9
           [] o[2] = "byok_keys" -> 7
           [] o[2] = "focus_skill" -> 8
           [] o[2] \in {"submitted_by", "status", "upvotes"} -> 12
           [] o[2] = "batch_job_id" -> 15
           [] OTHER -> 16

Adds(k) == {Revisions[k].up[i] : i \in DOMAIN Revisions[k].up}

\* Each object has one home.
LEMMA HomeOfUp == \A k \in 1..Latest : \A o \in Adds(k) : Home(o) = k
<1> SUFFICES ASSUME NEW k \in 1..18 PROVE \A o \in Adds(k) : Home(o) = k
  BY RevisionList
<1>1. CASE k = 1
  <2>1. \A o \in Adds(1) : Len(o) = 1 /\ o[1] \in {"users", "sessions", "segment_scores",
          "transcript_words", "skill_graph", "questions", "session_metrics", "usage_logs"}
    BY RevisionList, InitialUp DEF Adds, InitialTables
  <2> QED
    BY <1>1, <2>1 DEF Home
<1>2. CASE k \in {2, 11, 14, 17}
  BY <1>2, RevisionList DEF Adds, Home, StoriesTable, ShareCards, UserMemories, CompanyIntel
<1>3. CASE k = 3
  BY <1>3, RevisionList DEF Adds, Home, UserProfile
<1>4. CASE k \in {4, 5, 6, 7, 8, 9, 15, 16}
  <2>1. Adds(4) = {<<"sessions", "voice_id">>} /\ Adds(5) = {<<"sessions", "persona">>}
    BY RevisionList DEF Adds, VoiceId, Persona, Column
  <2>2. Adds(6) = {<<"sessions", "company">>} /\ Adds(7) = {<<"users", "byok_keys">>}
    BY RevisionList DEF Adds, Company, ByokKeys, Column
  <2>3. Adds(8) = {<<"sessions", "focus_skill">>} /\ Adds(9) = {<<"questions", "company">>}
    BY RevisionList DEF Adds, FocusSkill, QuestionCompany, Column
  <2>4. /\ Adds(15) = {<<"user_memories", "batch_job_id">>}
        /\ Adds(16) = {<<"sessions", "duration_limit_minutes">>}
    BY RevisionList DEF Adds, BatchJobId, DurationLimit, Column
  <2> QED
    BY <1>4, <2>1, <2>2, <2>3, <2>4 DEF Home
<1>5. CASE k \in {10, 13, 18}
  BY <1>5, RevisionList DEF Adds, RowsOnly
<1>6. CASE k = 12
  BY <1>6, RevisionList DEF Adds, Home, Contributions
<1> QED
  BY <1>1, <1>2, <1>3, <1>4, <1>5, <1>6

\* A list of CREATEs runs when each makes something new, in a table that is there, with
\* foreign keys to tables that are there or come before it in the list.
Orderly(had, ops) ==
    \A i \in DOMAIN ops :
        /\ ops[i] \notin had /\ \A j \in 1..(i - 1) : ops[j] # ops[i]
        /\ Len(ops[i]) = 2 => <<ops[i][1]>> \in had
        /\ Len(ops[i]) = 1 => \A ref \in References :
               ref.from = ops[i][1] /\ <<"questions">> # ops[i]
               => <<ref.to>> \in had \/ \E j \in 1..(i - 1) : ops[j] = <<ref.to>>

\* What comes before the i-th of a list.
LEMMA BeforeIs ==
    ASSUME NEW S, NEW ops \in Seq(S), NEW i \in DOMAIN ops
    PROVE  /\ DOMAIN Before(ops, i) = 1..(i - 1)
           /\ \A j \in 1..(i - 1) : Before(ops, i)[j] = ops[j]
<1>1. DOMAIN ops = 1..Len(ops) /\ Len(ops) \in Nat /\ i \in 1..Len(ops)
  OBVIOUS
<1>2. i - 1 \in Nat /\ i - 1 <= Len(ops)
  BY <1>1
<1>3. SubSeq(ops, 1, i - 1) = [j \in 1..(i - 1) |-> ops[j]]
  BY <1>1, <1>2
<1> QED
  BY <1>3 DEF Before

LEMMA CreatesIf ==
    ASSUME NEW S, NEW ops \in Seq(S), NEW had, Orderly(had, ops)
    PROVE  CreatesRun(had, ops)
<1> SUFFICES ASSUME NEW i \in DOMAIN ops
             PROVE  MayCreate(Created(had, Before(ops, i)), ops[i])
  BY DEF CreatesRun
<1>1. \A o : o \in Created(had, Before(ops, i)) <=> o \in had \/ \E j \in 1..(i - 1) : o = ops[j]
  BY BeforeIs DEF Created
<1> DEFINE c == Created(had, Before(ops, i))
           o == ops[i]
<1>2. o \notin had /\ \A j \in 1..(i - 1) : ops[j] # o
  BY DEF Orderly
<1>3. Len(o) = 2 => <<o[1]>> \in had
  BY DEF Orderly
<1>4. Len(o) = 1 => \A ref \in References :
          ref.from = o[1] /\ <<"questions">> # o
          => <<ref.to>> \in had \/ \E j \in 1..(i - 1) : ops[j] = <<ref.to>>
  BY DEF Orderly
<1> HIDE DEF c, o
<1>5. o \notin c
  BY <1>1, <1>2 DEF c
<1>6. \A p \in had : p \in c
  BY <1>1 DEF c
<1>7. \A j \in 1..(i - 1) : ops[j] \in c
  BY <1>1 DEF c
<1>8. MayCreate(c, o)
  BY <1>3, <1>4, <1>5, <1>6, <1>7 DEF MayCreate
<1> QED
  BY <1>8 DEF c, o

\* A list of DROPs runs when each is there and none before it takes it or its table away, and
\* tables that refer to it are not there or come before it in the list.
Undoable(had, ops) ==
    \A i \in DOMAIN ops :
        /\ ops[i] \in had
        /\ \A j \in 1..(i - 1) : ops[j] # ops[i] /\ ops[j] # <<ops[i][1]>>
        /\ Len(ops[i]) = 1 => \A ref \in References :
               ref.to = ops[i][1] /\ ref.from # ops[i][1]
               => <<ref.from>> \notin had \/ \E j \in 1..(i - 1) : ops[j] = <<ref.from>>

LEMMA DropsIf ==
    ASSUME NEW S, NEW ops \in Seq(S), NEW had, Undoable(had, ops)
    PROVE  DropsRun(had, ops)
<1> SUFFICES ASSUME NEW i \in DOMAIN ops
             PROVE  MayDrop(Dropped(had, Before(ops, i)), ops[i])
  BY DEF DropsRun
<1>1. \A o : o \in Dropped(had, Before(ops, i))
             <=> o \in had /\ \A j \in 1..(i - 1) : o # ops[j] /\ <<o[1]>> # ops[j]
  BY BeforeIs DEF Dropped
<1> DEFINE d == Dropped(had, Before(ops, i))
           o == ops[i]
<1>2. o \in had /\ \A j \in 1..(i - 1) : ops[j] # o /\ ops[j] # <<o[1]>>
  BY DEF Undoable
<1>3. Len(o) = 1 => \A ref \in References :
          ref.to = o[1] /\ ref.from # o[1]
          => <<ref.from>> \notin had \/ \E j \in 1..(i - 1) : ops[j] = <<ref.from>>
  BY DEF Undoable
<1> HIDE DEF d, o
<1>4. o \in d
  BY <1>1, <1>2 DEF d
<1>5. \A p : p \notin had => p \notin d
  BY <1>1 DEF d
<1>6. \A j \in 1..(i - 1) : ops[j] \notin d
  BY <1>1 DEF d
<1>7. MayDrop(d, o)
  BY <1>3, <1>4, <1>5, <1>6 DEF MayDrop
<1> QED
  BY <1>7 DEF d, o

-------------------------------------------------------------------------------
ObjectsAt(r) == UNION {Created({}, Revisions[k].up) : k \in 1..r}

LEMMA Placed ==
    ASSUME NEW r \in 0..Latest
    PROVE  /\ \A o : o \in ObjectsAt(r) <=> \E k \in 1..r : o \in Adds(k)
           /\ \A o \in ObjectsAt(r) : Home(o) \in 1..r
<1>1. \A k \in 1..r : Created({}, Revisions[k].up) = Adds(k)
  BY DEF Created, Adds
<1>2. \A o : o \in ObjectsAt(r) <=> \E k \in 1..r : o \in Adds(k)
  BY <1>1 DEF ObjectsAt
<1>3. \A k \in 1..r : k \in 1..Latest
  BY RevisionList
<1> QED
  BY <1>2, <1>3, HomeOfUp

\* The tables of 001 stand from then on, and user_memories from 014 on.
LEMMA TablesStand ==
    ASSUME NEW r \in 1..Latest
    PROVE  /\ \A i \in 1..8 : InitialTables[i] \in ObjectsAt(r)
           /\ r >= 14 => <<"user_memories">> \in ObjectsAt(r)
<1>1. \A i \in 1..8 : InitialTables[i] \in Adds(1)
  <2>1. DOMAIN InitialTables = 1..8
    BY DEF InitialTables
  <2> QED
    BY <2>1, RevisionList, InitialUp DEF Adds
<1>2. <<"user_memories">> \in Adds(14)
  BY RevisionList DEF Adds, UserMemories
<1>3. r \in 0..Latest /\ 1 \in 1..r /\ (r >= 14 => 14 \in 1..r)
  BY RevisionList
<1> QED
  BY <1>1, <1>2, <1>3, Placed

\* Which table refers to which.
LEMMA RefersTo ==
    \A ref \in References :
        <<ref.from, ref.to>> \in
            {<<"sessions", "users">>, <<"segment_scores", "sessions">>,
             <<"transcript_words", "sessions">>, <<"skill_graph", "users">>,
             <<"session_metrics", "sessions">>, <<"usage_logs", "sessions">>,
             <<"usage_logs", "users">>, <<"stories", "users">>, <<"stories", "sessions">>,
             <<"share_cards", "users">>, <<"questions", "users">>,
             <<"question_upvotes", "questions">>, <<"question_upvotes", "users">>,
             <<"user_memories", "users">>, <<"company_intel", "users">>}
BY AllReferences DEF Ref

\* What a revision creates is new, and there afterwards.
LEMMA NewAt ==
    ASSUME NEW r \in 1..Latest, NEW o \in Adds(r)
    PROVE  o \notin ObjectsAt(r - 1) /\ o \in ObjectsAt(r)
<1>1. r - 1 \in 0..Latest /\ r \in 0..Latest /\ r \in 1..r /\ r \notin 1..(r - 1)
  BY RevisionList
<1> QED
  BY <1>1, Placed, HomeOfUp

\* A revision that creates one thing.
LEMMA OneCreated ==
    ASSUME NEW r \in 1..Latest, NEW o, Revisions[r].up = <<o>>,
           Len(o) = 2 => <<o[1]>> \in ObjectsAt(r - 1),
           Len(o) = 1 => \A ref \in References :
                             ref.from = o[1] => <<ref.to>> \in ObjectsAt(r - 1)
    PROVE  CreatesRun(ObjectsAt(r - 1), Revisions[r].up)
<1>1. o \in Adds(r)
  BY DEF Adds
<1>2. o \notin ObjectsAt(r - 1)
  BY <1>1, NewAt
<1> DEFINE had == ObjectsAt(r - 1)
           ops == <<o>>
<1>3. ops \in Seq({o}) /\ DOMAIN ops = {1} /\ ops[1] = o /\ 1..(1 - 1) = {}
  OBVIOUS
<1> HIDE DEF had, ops
<1>4. Orderly(had, ops)
  BY <1>2, <1>3 DEF Orderly, had
<1> QED
  BY <1>3, <1>4, CreatesIf DEF had, ops

\* Every upgrade finds nothing it creates and all it refers to.
LEMMA CreatesFit == \A r \in 1..Latest : CreatesRun(ObjectsAt(r - 1), Revisions[r].up)
<1> SUFFICES ASSUME NEW r \in 1..Latest PROVE CreatesRun(ObjectsAt(r - 1), Revisions[r].up)
  OBVIOUS
<1>0. r \in 1..18 /\ Latest = 18
  BY RevisionList
<1>a. r # 1 => \A i \in 1..8 : InitialTables[i] \in ObjectsAt(r - 1)
  <2> SUFFICES ASSUME r # 1 PROVE \A i \in 1..8 : InitialTables[i] \in ObjectsAt(r - 1)
    OBVIOUS
  <2>1. r - 1 \in 1..Latest
    BY <1>0
  <2> QED
    BY <2>1, TablesStand
<1>b. r # 1 => /\ <<"users">> \in ObjectsAt(r - 1) /\ <<"sessions">> \in ObjectsAt(r - 1)
               /\ <<"questions">> \in ObjectsAt(r - 1)
  BY <1>a DEF InitialTables
<1>c. r = 15 => <<"user_memories">> \in ObjectsAt(r - 1)
  <2>1. r = 15 => r - 1 \in 1..Latest /\ r - 1 >= 14
    BY <1>0
  <2> QED
    BY <2>1, TablesStand
<1>1. CASE r = 1
  <2>1. ObjectsAt(0) = {}
    BY DEF ObjectsAt
  <2> DEFINE S == {InitialTables[i] : i \in 1..8}
  <2>2. InitialTables \in Seq(S) /\ DOMAIN InitialTables = 1..8
    BY DEF InitialTables
  <2>3. ASSUME NEW i \in 1..8, NEW ref \in References, ref.from = InitialTables[i][1],
               <<"questions">> # InitialTables[i]
        PROVE  \E j \in 1..(i - 1) : InitialTables[j] = <<ref.to>>
    <3>1. \/ ref.to = "users" /\ i >= 2
          \/ ref.to = "sessions" /\ i >= 3
      <4>1. CASE i \in {1, 2, 3}
        BY <2>3, <4>1, RefersTo DEF InitialTables
      <4>2. CASE i \in {4, 5, 6}
        BY <2>3, <4>2, RefersTo DEF InitialTables
      <4>3. CASE i \in {7, 8}
        BY <2>3, <4>3, RefersTo DEF InitialTables
      <4> QED
        BY <4>1, <4>2, <4>3
    <3>2. InitialTables[1] = <<"users">> /\ InitialTables[2] = <<"sessions">>
      BY DEF InitialTables
    <3>3. i >= 2 => 1 \in 1..(i - 1)
      OBVIOUS
    <3>4. i >= 3 => 2 \in 1..(i - 1)
      OBVIOUS
    <3> QED
      BY <3>1, <3>2, <3>3, <3>4
  <2>4. \A i, j \in 1..8 : InitialTables[i] = InitialTables[j] => i = j
    BY DEF InitialTables
  <2>5. \A i \in 1..8 : Len(InitialTables[i]) = 1
    BY DEF InitialTables
  <2>6. Orderly({}, InitialTables)
    <3>1. \A i \in 1..8, j \in 1..8 : j \in 1..(i - 1) => InitialTables[j] # InitialTables[i]
      BY <2>4
    <3>2. \A i \in 1..8 : \A j \in 1..(i - 1) : j \in 1..8
      OBVIOUS
    <3> SUFFICES ASSUME NEW i \in 1..8
                 PROVE  /\ \A j \in 1..(i - 1) : InitialTables[j] # InitialTables[i]
                        /\ \A ref \in References :
                               ref.from = InitialTables[i][1] /\ <<"questions">> # InitialTables[i]
                               => \E j \in 1..(i - 1) : InitialTables[j] = <<ref.to>>
      <4> DEFINE had == {}
      <4>1. \A o : o \notin had
        OBVIOUS
      <4> HIDE DEF had
      <4>2. ASSUME NEW i \in 1..8
            PROVE  InitialTables[i] \notin had /\ Len(InitialTables[i]) # 2
        BY <2>5, <4>1
      <4>3. DOMAIN InitialTables = 1..8
        BY <2>2
      <4> QED
        BY <4>2, <4>3 DEF Orderly, had
    <3> QED
      BY <2>3, <3>1, <3>2
  <2>7. CreatesRun({}, InitialTables)
    BY <2>2, <2>6, CreatesIf
  <2> QED
    BY <1>1, <2>1, <2>7, RevisionList, InitialUp
<1>2. CASE r = 2
  <2>1. Revisions[r].up = << <<"stories">> >>
    BY <1>2, RevisionList DEF StoriesTable
  <2>2. \A ref \in References : ref.from = "stories" => <<ref.to>> \in ObjectsAt(r - 1)
    BY <1>2, <1>b, RefersTo
  <2> QED
    BY <2>1, <2>2, OneCreated
<1>3. CASE r \in {11, 14, 17}
  <2>1. PICK t \in {"share_cards", "user_memories", "company_intel"} : Revisions[r].up = << <<t>> >>
    BY <1>3, RevisionList DEF ShareCards, UserMemories, CompanyIntel
  <2>2. \A ref \in References : ref.from = t => <<ref.to>> \in ObjectsAt(r - 1)
    BY <1>3, <1>b, RefersTo
  <2> QED
    BY <2>1, <2>2, OneCreated
<1>4. CASE r \in {4, 5, 6, 7, 8, 9, 16}
  <2>1. PICK t, c : Revisions[r].up = << <<t, c>> >> /\ t \in {"users", "sessions", "questions"}
    BY <1>4, RevisionList DEF VoiceId, Persona, Company, ByokKeys, FocusSkill, QuestionCompany,
       DurationLimit, Column
  <2>2. <<t>> \in ObjectsAt(r - 1)
    BY <1>4, <1>b, <2>1
  <2> QED
    BY <2>1, <2>2, OneCreated
<1>5. CASE r = 15
  <2>1. Revisions[r].up = << <<"user_memories", "batch_job_id">> >>
    BY <1>5, RevisionList DEF BatchJobId, Column
  <2> QED
    BY <1>5, <1>c, <2>1, OneCreated
<1>6. CASE r \in {10, 13, 18}
  BY <1>6, RevisionList DEF RowsOnly, CreatesRun
<1>7. CASE r = 3
  <2> DEFINE ops == << <<"users", "profile">>, <<"users", "resume_text">> >>
             S == {<<"users", "profile">>, <<"users", "resume_text">>}
             had == ObjectsAt(r - 1)
  <2>1. Revisions[r].up = ops
    BY <1>7, RevisionList DEF UserProfile
  <2>2. ops \in Seq(S) /\ DOMAIN ops = 1..2
    OBVIOUS
  <2>3. \A i \in 1..2 : ops[i] \notin had
    <3>1. \A i \in 1..2 : ops[i] \in Adds(r)
      BY <2>1, <2>2 DEF Adds
    <3> QED
      BY <3>1, NewAt
  <2>4. \A i \in 1..2 : Len(ops[i]) = 2 /\ ops[i][1] = "users"
    OBVIOUS
  <2>5. <<"users">> \in had
    BY <1>7, <1>b
  <2>6. \A i, j \in 1..2 : ops[i] = ops[j] => i = j
    OBVIOUS
  <2> HIDE DEF ops, had
  <2>7. Orderly(had, ops)
    BY <2>2, <2>3, <2>4, <2>5, <2>6 DEF Orderly
  <2> QED
    BY <2>1, <2>2, <2>7, CreatesIf DEF had
<1>8. CASE r = 12
  <2> DEFINE ops == Contributions.up
             S == {<<"questions", "submitted_by">>, <<"questions", "status">>,
                   <<"questions", "upvotes">>, <<"question_upvotes">>}
             had == ObjectsAt(r - 1)
  <2>1. Revisions[r].up = ops
    BY <1>8, RevisionList
  <2>2. ops \in Seq(S) /\ DOMAIN ops = 1..4
    BY DEF Contributions
  <2>3. \A i \in 1..4 : ops[i] \notin had
    <3>1. \A i \in 1..4 : ops[i] \in Adds(r)
      BY <2>1, <2>2 DEF Adds
    <3> QED
      BY <3>1, NewAt
  <2>4. /\ \A i \in 1..3 : Len(ops[i]) = 2 /\ ops[i][1] = "questions"
        /\ ops[4] = <<"question_upvotes">>
    BY DEF Contributions
  <2>5. <<"questions">> \in had /\ <<"users">> \in had
    BY <1>8, <1>b
  <2>6. \A i, j \in 1..4 : ops[i] = ops[j] => i = j
    BY DEF Contributions
  <2>8. \A ref \in References : ref.from = "question_upvotes" => <<ref.to>> \in had
    BY <2>5, RefersTo
  <2> HIDE DEF ops, had
  <2>7. Orderly(had, ops)
    <3> SUFFICES ASSUME NEW i \in 1..4
                 PROVE  /\ \A j \in 1..(i - 1) : ops[j] # ops[i]
                        /\ Len(ops[i]) = 2 => <<ops[i][1]>> \in had
                        /\ Len(ops[i]) = 1 => \A ref \in References :
                               ref.from = ops[i][1] => <<ref.to>> \in had
      BY <2>2, <2>3 DEF Orderly
    <3>1. \A j \in 1..(i - 1) : j \in 1..4 /\ j # i
      OBVIOUS
    <3>2. i \in 1..3 \/ i = 4
      OBVIOUS
    <3>3. CASE i \in 1..3
      BY <2>4, <2>5, <2>6, <3>1, <3>3
    <3>4. CASE i = 4
      BY <2>4, <2>6, <2>8, <3>1, <3>4
    <3> QED
      BY <3>2, <3>3, <3>4
  <2> QED
    BY <2>1, <2>2, <2>7, CreatesIf DEF had
<1> QED
  BY <1>0, <1>1, <1>2, <1>3, <1>4, <1>5, <1>6, <1>7, <1>8

\* A column's table is created no later than the column.
LEMMA WithTable ==
    ASSUME NEW k \in 1..Latest, NEW o \in Adds(k)
    PROVE  <<o[1]>> \in ObjectsAt(k)
<1>0. k \in 1..18 /\ Latest = 18
  BY RevisionList
<1>1. \A i \in 1..8 : InitialTables[i] \in ObjectsAt(k)
  BY TablesStand
<1>2. /\ <<"users">> \in ObjectsAt(k) /\ <<"sessions">> \in ObjectsAt(k)
      /\ <<"questions">> \in ObjectsAt(k)
  BY <1>1 DEF InitialTables
<1>3. CASE k = 1
  <2>1. PICK i \in 1..8 : o = InitialTables[i]
    BY <1>3, RevisionList, InitialUp DEF Adds, InitialTables
  <2>2. <<o[1]>> = o
    BY <2>1 DEF InitialTables
  <2> QED
    BY <1>1, <2>1, <2>2
<1>4. CASE k \in {2, 11, 14, 17}
  <2>1. <<o[1]>> = o
    BY <1>4, RevisionList DEF Adds, StoriesTable, ShareCards, UserMemories, CompanyIntel
  <2> QED
    BY <2>1, NewAt
<1>5. CASE k \in {3, 4, 5, 6, 7, 8, 9, 16}
  <2>1. CASE k = 3
    BY <1>2, <2>1, RevisionList DEF Adds, UserProfile
  <2>2. CASE k \in {4, 5, 6, 7}
    BY <1>2, <2>2, RevisionList DEF Adds, VoiceId, Persona, Company, ByokKeys, Column
  <2>3. CASE k \in {8, 9, 16}
    BY <1>2, <2>3, RevisionList DEF Adds, FocusSkill, QuestionCompany, DurationLimit, Column
  <2> QED
    BY <1>5, <2>1, <2>2, <2>3
<1>6. CASE k \in {10, 13, 18}
  BY <1>6, RevisionList DEF Adds, RowsOnly
<1>7. CASE k = 12
  <2>1. o[1] = "questions" \/ <<o[1]>> = o
    BY <1>7, RevisionList DEF Adds, Contributions
  <2> QED
    BY <1>2, <2>1, NewAt
<1>8. CASE k = 15
  <2>1. o[1] = "user_memories"
    BY <1>8, RevisionList DEF Adds, BatchJobId, Column
  <2> QED
    BY <1>8, <2>1, TablesStand
<1> QED
  BY <1>0, <1>3, <1>4, <1>5, <1>6, <1>7, <1>8

\* A downgrade that drops what its upgrade created leaves what the upgrade found.
LEMMA DropsBack ==
    ASSUME NEW r \in 1..Latest, NEW ops, {ops[i] : i \in DOMAIN ops} = Adds(r)
    PROVE  Dropped(ObjectsAt(r), ops) = ObjectsAt(r - 1)
<1>0. r \in 0..Latest /\ r - 1 \in 0..Latest /\ r \in Int
  BY RevisionList
<1>1. \A o : o \in Dropped(ObjectsAt(r), ops)
             <=> o \in ObjectsAt(r) /\ \A p \in Adds(r) : o # p /\ <<o[1]>> # p
  BY DEF Dropped
<1>2. ASSUME NEW o \in ObjectsAt(r - 1) PROVE o \in Dropped(ObjectsAt(r), ops)
  <2>1. PICK k \in 1..(r - 1) : o \in Adds(k)
    BY <1>0, Placed
  <2>2. k \in 1..Latest /\ k \in 1..r /\ k \in 0..Latest
    BY <1>0, RevisionList
  <2>3. o \in ObjectsAt(r)
    BY <1>0, <2>1, <2>2, Placed
  <2>4. PICK m \in 1..k : <<o[1]>> \in Adds(m)
    BY <2>1, <2>2, WithTable, Placed
  <2>5. m \in 1..(r - 1) /\ m \in 1..Latest
    BY <1>0, <2>2, RevisionList
  <2>6. o \notin Adds(r) /\ <<o[1]>> \notin Adds(r)
    <3>1. Home(o) = k /\ Home(<<o[1]>>) = m
      BY <2>1, <2>2, <2>4, <2>5, HomeOfUp
    <3>2. k # r /\ m # r
      BY <1>0, <2>5
    <3> QED
      BY <3>1, <3>2, HomeOfUp
  <2> QED
    BY <1>1, <2>3, <2>6
<1>3. ASSUME NEW o \in Dropped(ObjectsAt(r), ops) PROVE o \in ObjectsAt(r - 1)
  <2>1. o \in ObjectsAt(r) /\ o \notin Adds(r)
    BY <1>1
  <2>2. PICK k \in 1..r : o \in Adds(k)
    BY <1>0, <2>1, Placed
  <2>3. k \in 1..(r - 1)
    BY <1>0, <2>1, <2>2
  <2> QED
    BY <1>0, <2>2, <2>3, Placed
<1> QED
  BY <1>2, <1>3

LEMMA OneDropped ==
    ASSUME NEW r \in 1..Latest, NEW o, Revisions[r].up = <<o>>, Revisions[r].down = <<o>>,
           Len(o) = 1 => \A ref \in References : ref.to # o[1]
    PROVE  /\ DropsRun(ObjectsAt(r), Revisions[r].down)
           /\ {Revisions[r].down[i] : i \in DOMAIN Revisions[r].down} = Adds(r)
<1> DEFINE had == ObjectsAt(r)
           ops == <<o>>
<1>1. {Revisions[r].down[i] : i \in DOMAIN Revisions[r].down} = Adds(r) /\ Adds(r) = {o}
  BY DEF Adds
<1>2. o \in had
  BY <1>1, NewAt
<1>3. ops \in Seq({o}) /\ DOMAIN ops = {1} /\ ops[1] = o /\ 1..(1 - 1) = {}
  OBVIOUS
<1> HIDE DEF had, ops
<1>4. Undoable(had, ops)
  BY <1>2, <1>3 DEF Undoable
<1>5. DropsRun(had, ops)
  BY <1>3, <1>4, DropsIf
<1> QED
  BY <1>1, <1>5 DEF had, ops

\* Every downgrade drops what its upgrade created, and no table that another refers to.
LEMMA DropsFit ==
    \A r \in 1..Latest : /\ DropsRun(ObjectsAt(r), Revisions[r].down)
                         /\ Dropped(ObjectsAt(r), Revisions[r].down) = ObjectsAt(r - 1)
<1> SUFFICES ASSUME NEW r \in 1..Latest
             PROVE  /\ DropsRun(ObjectsAt(r), Revisions[r].down)
                    /\ {Revisions[r].down[i] : i \in DOMAIN Revisions[r].down} = Adds(r)
  BY DropsBack
<1>0. r \in 1..18 /\ Latest = 18
  BY RevisionList
<1>1. CASE r = 1
  <2> DEFINE ops == InitialDown
             S == Adds(1)
             had == ObjectsAt(r)
  <2>1. Revisions[r].down = ops
    BY <1>1, RevisionList DEF InitialSchema
  <2>2. Adds(1) = {<<"users">>, <<"sessions">>, <<"segment_scores">>, <<"transcript_words">>,
                   <<"skill_graph">>, <<"questions">>, <<"session_metrics">>, <<"usage_logs">>}
    BY RevisionList, InitialUp DEF Adds, InitialTables
  <2>3. ops \in Seq(S) /\ DOMAIN ops = 1..8
    BY <2>2 DEF InitialDown
  <2>4. {ops[i] : i \in DOMAIN ops} = Adds(1)
    BY <2>2 DEF InitialDown
  <2>5. \A i, j \in 1..8 : ops[i] = ops[j] => i = j
    BY DEF InitialDown
  <2>6. \A i \in 1..8 : ops[i] \in had /\ Len(ops[i]) = 1 /\ <<ops[i][1]>> = ops[i]
    <3>1. \A i \in 1..8 : ops[i] \in had
      BY <1>1, <2>3, <2>4, NewAt
    <3>2. \A i \in 1..8 : Len(ops[i]) = 1 /\ <<ops[i][1]>> = ops[i]
      BY DEF InitialDown
    <3> QED
      BY <3>1, <3>2
  <2>7. \A t \in {"stories", "share_cards", "question_upvotes", "user_memories", "company_intel"} :
            <<t>> \notin had
    <3>1. \A t \in {"stories", "share_cards", "question_upvotes", "user_memories",
                    "company_intel"} : Home(<<t>>) # 1
      BY DEF Home
    <3>2. \A o \in had : Home(o) = 1
      BY <1>0, <1>1, Placed
    <3> QED
      BY <3>1, <3>2
  <2>8. ASSUME NEW i \in 1..8, NEW ref \in References, ref.to = ops[i][1], ref.from # ops[i][1]
        PROVE  <<ref.from>> \notin had \/ \E j \in 1..(i - 1) : ops[j] = <<ref.from>>
    <3>1. \/ ref.from \in {"stories", "share_cards", "question_upvotes", "user_memories",
                           "company_intel"}
          \/ i >= 7 /\ ref.from \in {"usage_logs", "session_metrics", "segment_scores",
                                     "transcript_words", "skill_graph", "questions"}
          \/ i >= 8 /\ ref.from = "sessions"
      <4>1. CASE i \in {1, 2, 3}
        BY <2>8, <4>1, RefersTo DEF InitialDown
      <4>2. CASE i \in {4, 5, 6}
        BY <2>8, <4>2, RefersTo DEF InitialDown
      <4>3. CASE i = 7
        BY <2>8, <4>3, RefersTo DEF InitialDown
      <4>4. CASE i = 8
        BY <2>8, <4>4, RefersTo DEF InitialDown
      <4> QED
        BY <4>1, <4>2, <4>3, <4>4
    <3>2. /\ ops[1] = <<"usage_logs">> /\ ops[2] = <<"session_metrics">>
          /\ ops[3] = <<"questions">> /\ ops[4] = <<"skill_graph">>
          /\ ops[5] = <<"transcript_words">> /\ ops[6] = <<"segment_scores">>
          /\ ops[7] = <<"sessions">>
      BY DEF InitialDown
    <3>3. i >= 7 => {1, 2, 3, 4, 5, 6} \subseteq 1..(i - 1)
      OBVIOUS
    <3>4. i >= 8 => 7 \in 1..(i - 1)
      OBVIOUS
    <3> QED
      BY <2>7, <3>1, <3>2, <3>3, <3>4
  <2> HIDE DEF ops, had
  <2>9. Undoable(had, ops)
    <3> SUFFICES ASSUME NEW i \in 1..8
                 PROVE  \A j \in 1..(i - 1) : ops[j] # ops[i] /\ ops[j] # <<ops[i][1]>>
      BY <2>3, <2>6, <2>8 DEF Undoable
    <3>1. \A j \in 1..(i - 1) : j \in 1..8 /\ j # i
      OBVIOUS
    <3> QED
      BY <2>5, <2>6, <3>1
  <2> QED
    BY <1>1, <2>1, <2>3, <2>4, <2>9, DropsIf DEF had
<1>2. CASE r \in {2, 11, 14, 17}
  <2>1. PICK t \in {"stories", "share_cards", "user_memories", "company_intel"} :
            Revisions[r].up = << <<t>> >> /\ Revisions[r].down = << <<t>> >>
    BY <1>2, RevisionList DEF StoriesTable, ShareCards, UserMemories, CompanyIntel
  <2>2. \A ref \in References : ref.to # t
    BY RefersTo
  <2> QED
    BY <2>1, <2>2, OneDropped
<1>3. CASE r \in {4, 5, 6, 7, 8, 9, 15, 16}
  <2>1. PICK t, c : Revisions[r].up = << <<t, c>> >> /\ Revisions[r].down = << <<t, c>> >>
    BY <1>3, RevisionList DEF VoiceId, Persona, Company, ByokKeys, FocusSkill, QuestionCompany,
       BatchJobId, DurationLimit, Column
  <2> QED
    BY <2>1, OneDropped
<1>4. CASE r \in {10, 13, 18}
  BY <1>4, RevisionList DEF Adds, RowsOnly, DropsRun
<1>5. CASE r = 3
  <2> DEFINE ops == << <<"users", "resume_text">>, <<"users", "profile">> >>
             had == ObjectsAt(r)
  <2>1. Revisions[r].down = ops
    BY <1>5, RevisionList DEF UserProfile
  <2>2. Adds(r) = {<<"users", "profile">>, <<"users", "resume_text">>}
    BY <1>5, RevisionList DEF Adds, UserProfile
  <2>3. ops \in Seq(Adds(r)) /\ DOMAIN ops = 1..2 /\ {ops[i] : i \in DOMAIN ops} = Adds(r)
    BY <2>2
  <2>4. \A i \in 1..2 : ops[i] \in had
    BY <2>3, NewAt
  <2>5. \A i \in 1..2 : Len(ops[i]) = 2 /\ \A j \in 1..2 : ops[j] # <<ops[i][1]>>
    OBVIOUS
  <2>6. \A i, j \in 1..2 : ops[i] = ops[j] => i = j
    OBVIOUS
  <2> HIDE DEF ops, had
  <2>7. Undoable(had, ops)
    <3> SUFFICES ASSUME NEW i \in 1..2
                 PROVE  \A j \in 1..(i - 1) : ops[j] # ops[i] /\ ops[j] # <<ops[i][1]>>
      BY <2>3, <2>4, <2>5 DEF Undoable
    <3>1. \A j \in 1..(i - 1) : j \in 1..2 /\ j # i
      OBVIOUS
    <3> QED
      BY <2>5, <2>6, <3>1
  <2> QED
    BY <2>1, <2>3, <2>7, DropsIf DEF had
<1>6. CASE r = 12
  <2> DEFINE ops == Contributions.down
             had == ObjectsAt(r)
  <2>1. Revisions[r].down = ops
    BY <1>6, RevisionList
  <2>2. Adds(r) = {<<"questions", "submitted_by">>, <<"questions", "status">>,
                   <<"questions", "upvotes">>, <<"question_upvotes">>}
    BY <1>6, RevisionList DEF Adds, Contributions
  <2>3. ops \in Seq(Adds(r)) /\ DOMAIN ops = 1..4 /\ {ops[i] : i \in DOMAIN ops} = Adds(r)
    BY <2>2 DEF Contributions
  <2>4. \A i \in 1..4 : ops[i] \in had
    BY <2>3, NewAt
  <2>5. /\ ops[1] = <<"question_upvotes">>
        /\ \A i \in 2..4 : Len(ops[i]) = 2 /\ \A j \in 1..4 : ops[j] # <<ops[i][1]>>
    BY DEF Contributions
  <2>6. \A i, j \in 1..4 : ops[i] = ops[j] => i = j
    BY DEF Contributions
  <2>7. \A ref \in References : ref.to # "question_upvotes"
    BY RefersTo
  <2> HIDE DEF ops, had
  <2>8. Undoable(had, ops)
    <3> SUFFICES ASSUME NEW i \in 1..4
                 PROVE  /\ \A j \in 1..(i - 1) : ops[j] # ops[i] /\ ops[j] # <<ops[i][1]>>
                        /\ Len(ops[i]) = 1 => \A ref \in References : ref.to # ops[i][1]
      BY <2>3, <2>4 DEF Undoable
    <3>1. \A j \in 1..(i - 1) : j \in 1..4 /\ j # i
      OBVIOUS
    <3>2. CASE i = 1
      BY <2>5, <2>7, <3>2
    <3>3. CASE i \in 2..4
      BY <2>5, <2>6, <3>1, <3>3
    <3> QED
      BY <3>2, <3>3
  <2> QED
    BY <2>1, <2>3, <2>8, DropsIf DEF had
<1> QED
  BY <1>0, <1>1, <1>2, <1>3, <1>4, <1>5, <1>6

-------------------------------------------------------------------------------
(* The question bank *)

\* A bank: the rows of each origin and type.
Banks == [Origins -> [QuestionTypes -> Nat]]

\* What the revisions up to r insert, once each.
Due(r) == [o \in Origins |-> IF o \in Releases /\ o <= r THEN Inserts(o) ELSE NoQuestions]

\* Every question of the revisions up to r is there.
Holds(b, r) ==
    \A o \in Releases, t \in QuestionTypes : o <= r => b[o][t] >= Inserts(o)[t]

LEMMA OriginsAre == /\ Releases = {9, 10, 13} /\ Script = 0 /\ Origins = {0, 9, 10, 13}
                    /\ Releases \subseteq Origins /\ Releases \subseteq Nat
BY DEF Releases, Script, Origins

\* The rows of each release, by type.
LEMMA InsertsAre ==
    /\ \A o \in Releases : Inserts(o) \in [QuestionTypes -> Nat]
    /\ Inserts(9)["behavioral"] = 31 /\ Inserts(9)["system_design"] = 14
    /\ Inserts(9)["coding_discussion"] = 1
    /\ Inserts(10)["behavioral"] = 14 /\ Inserts(10)["system_design"] = 15
    /\ Inserts(10)["coding_discussion"] = 29
<1>1. /\ "behavioral" \in QuestionTypes /\ "system_design" \in QuestionTypes
      /\ "coding_discussion" \in QuestionTypes
  BY DEF QuestionTypes
<1>2. ASSUME NEW t \in QuestionTypes
      PROVE  BigTechQuestions[t] + OtherCompanyQuestions[t]
             = CASE t = "behavioral" -> 31 [] t = "system_design" -> 14
                 [] t = "coding_discussion" -> 1 [] OTHER -> 0
  <2>1. BigTechQuestions[t] = CASE t = "behavioral" -> 19 [] t = "system_design" -> 7
                                [] OTHER -> 0
    BY <1>1 DEF BigTechQuestions, Batch
  <2>2. OtherCompanyQuestions[t] = CASE t = "behavioral" -> 12 [] t = "system_design" -> 7
                                     [] t = "coding_discussion" -> 1 [] OTHER -> 0
    BY <1>1 DEF OtherCompanyQuestions, Batch
  <2> QED
    BY <2>1, <2>2
<1>3. ASSUME NEW t \in QuestionTypes
      PROVE  CodingQuestions010[t] + DesignQuestions010[t] + BehavioralExtra010[t]
             = CASE t = "behavioral" -> 14 [] t = "system_design" -> 15
                 [] t = "coding_discussion" -> 29 [] OTHER -> 0
  BY DEF CodingQuestions010, DesignQuestions010, BehavioralExtra010, Batch
<1>4. ASSUME NEW t \in QuestionTypes
      PROVE  TechLeadership[t] + Execution[t] + CrossTeam[t] + FailureRecovery[t] + Conflict[t]
                + Coding013[t] + MlDs[t] \in Nat
  BY DEF TechLeadership, Execution, CrossTeam, FailureRecovery, Conflict, Coding013, MlDs, Batch
<1>5. \A t \in QuestionTypes :
         /\ Inserts(9)[t] = BigTechQuestions[t] + OtherCompanyQuestions[t]
         /\ Inserts(10)[t] = CodingQuestions010[t] + DesignQuestions010[t] + BehavioralExtra010[t]
         /\ Inserts(13)[t] = TechLeadership[t] + Execution[t] + CrossTeam[t] + FailureRecovery[t]
                                 + Conflict[t] + Coding013[t] + MlDs[t]
  BY DEF Inserts
<1>6. \A o \in {9, 10, 13}, t \in QuestionTypes : Inserts(o)[t] \in Nat
  BY <1>2, <1>3, <1>4, <1>5
<1>7. \A o \in {9, 10, 13} : Inserts(o) = [t \in QuestionTypes |-> Inserts(o)[t]]
  BY DEF Inserts
<1>8. \A o \in Releases : Inserts(o) \in [QuestionTypes -> Nat]
  BY <1>6, <1>7, OriginsAre
<1> QED
  BY <1>1, <1>2, <1>3, <1>5, <1>8

LEMMA PlusIs ==
    ASSUME NEW b \in [QuestionTypes -> Nat], NEW c \in [QuestionTypes -> Nat]
    PROVE  /\ Plus(b, c) \in [QuestionTypes -> Nat]
           /\ \A t \in QuestionTypes : Plus(b, c)[t] = b[t] + c[t]
BY DEF Plus

LEMMA RowsAre ==
    ASSUME NEW b \in [QuestionTypes -> Nat]
    PROVE  /\ Rows(b) \in Nat
           /\ Rows(b) >= b["behavioral"] + b["system_design"] + b["coding_discussion"]
           /\ b["behavioral"] \in Nat /\ b["system_design"] \in Nat
           /\ b["coding_discussion"] \in Nat
BY DEF Rows, QuestionTypes

\* A bank with the questions of 009 and 010 has 104 rows or more.
LEMMA BankSize ==
    ASSUME NEW b \in Banks, NEW r \in Nat, r >= 10, Holds(b, r)
    PROVE  Size(b) \in Nat /\ Size(b) >= 104
<1>1. \A o \in Origins : b[o] \in [QuestionTypes -> Nat]
  BY DEF Banks
<1>2. /\ Rows(b[0]) \in Nat /\ Rows(b[9]) \in Nat /\ Rows(b[10]) \in Nat /\ Rows(b[13]) \in Nat
      /\ Rows(b[9]) >= b[9]["behavioral"] + b[9]["system_design"] + b[9]["coding_discussion"]
      /\ Rows(b[10]) >= b[10]["behavioral"] + b[10]["system_design"] + b[10]["coding_discussion"]
  BY <1>1, OriginsAre, RowsAre
<1>3. /\ b[9]["behavioral"] >= 31 /\ b[9]["system_design"] >= 14 /\ b[9]["coding_discussion"] >= 1
      /\ b[10]["behavioral"] >= 14 /\ b[10]["system_design"] >= 15
      /\ b[10]["coding_discussion"] >= 29
  <2>1. 9 \in Releases /\ 10 \in Releases /\ 9 <= r /\ 10 <= r
    BY OriginsAre
  <2>2. /\ "behavioral" \in QuestionTypes /\ "system_design" \in QuestionTypes
        /\ "coding_discussion" \in QuestionTypes
    BY DEF QuestionTypes
  <2> QED
    BY <2>1, <2>2, InsertsAre DEF Holds
<1>4. /\ b[9]["behavioral"] \in Nat /\ b[9]["system_design"] \in Nat
      /\ b[9]["coding_discussion"] \in Nat /\ b[10]["behavioral"] \in Nat
      /\ b[10]["system_design"] \in Nat /\ b[10]["coding_discussion"] \in Nat
  BY <1>1, OriginsAre, RowsAre
<1>5. Size(b) = Rows(b[9]) + Rows(b[10]) + Rows(b[13]) + Rows(b[0])
  BY OriginsAre DEF Size
<1>6. Rows(b[9]) >= 46
  BY <1>2, <1>3, <1>4
<1>7. Rows(b[10]) >= 58
  BY <1>2, <1>3, <1>4
<1> QED
  BY <1>2, <1>5, <1>6, <1>7

-------------------------------------------------------------------------------
(* Provisioning: the revision says which objects there are and what the bank holds at least *)

ProvInv ==
    /\ revision \in 0..Latest
    /\ objects = ObjectsAt(revision)
    /\ bank \in Banks /\ Holds(bank, revision)
    /\ ftsIndex \in {"none", "invalid", "valid"}
    /\ revision = Latest => ftsIndex # "none"
    /\ untouched => ftsIndex # "invalid" /\ bank = Due(revision)

LEMMA EmptyBank ==
    LET empty == [o \in Origins |-> NoQuestions] IN
    empty \in Banks /\ Due(0) = empty /\ Holds(empty, 0)
<1>1. NoQuestions \in [QuestionTypes -> Nat]
  BY DEF NoQuestions
<1>2. \A o \in Releases : ~ (o <= 0)
  BY OriginsAre
<1> QED
  BY <1>1, <1>2 DEF Banks, Due, Holds

LEMMA InitProv == ProvInit => ProvInv
<1> SUFFICES ASSUME ProvInit PROVE ProvInv
  OBVIOUS
<1>1. ObjectsAt(0) = {}
  BY DEF ObjectsAt
<1>2. bank \in Banks /\ bank = Due(0) /\ Holds(bank, 0)
  BY EmptyBank DEF ProvInit
<1> QED
  BY <1>1, <1>2, RevisionList DEF ProvInit, ProvInv

LEMMA UpgradeProv == ASSUME ProvInv, NEW to \in 1..Latest, UpgradeTo(to) PROVE ProvInv'
<1> DEFINE news == (revision + 1)..to
           fresh == Releases \cap news
<1>1. /\ revision \in 0..18 /\ to \in 1..17 /\ revision < to /\ revision' = to /\ Latest = 18
      /\ UNCHANGED <<ftsIndex, untouched>>
  BY RevisionList DEF ProvInv, UpgradeTo
<1>2. objects' = ObjectsAt(to)
  <2>1. objects' = ObjectsAt(revision) \cup UNION {Created({}, Revisions[k].up) : k \in news}
    BY DEF ProvInv, UpgradeTo
  <2>2. 1..to = (1..revision) \cup news
    BY <1>1
  <2> QED
    BY <2>1, <2>2 DEF ObjectsAt
<1>3. bank' = [o \in Origins |-> IF o \in fresh THEN Plus(bank[o], Inserts(o)) ELSE bank[o]]
  BY DEF UpgradeTo
<1>4. \A o \in Releases : o \in fresh <=> o <= to /\ ~ (o <= revision)
  BY <1>1, OriginsAre
<1> HIDE DEF news, fresh
<1>5. \A o \in Origins : bank[o] \in [QuestionTypes -> Nat]
  BY DEF ProvInv, Banks
<1>6. \A o \in Releases :
         /\ Inserts(o) \in [QuestionTypes -> Nat] /\ o \in Origins
         /\ Plus(bank[o], Inserts(o)) \in [QuestionTypes -> Nat]
         /\ \A t \in QuestionTypes : Plus(bank[o], Inserts(o))[t] = bank[o][t] + Inserts(o)[t]
  BY <1>5, InsertsAre, OriginsAre, PlusIs
<1>7. bank' \in Banks
  <2>1. \A o \in fresh : o \in Releases
    BY DEF fresh
  <2> QED
    BY <1>3, <1>5, <1>6, <2>1 DEF Banks
<1>8. Holds(bank', to)
  <2> SUFFICES ASSUME NEW o \in Releases, NEW t \in QuestionTypes, o <= to
               PROVE  bank'[o][t] >= Inserts(o)[t]
    BY DEF Holds
  <2>1. bank[o][t] \in Nat /\ Inserts(o)[t] \in Nat
    BY <1>5, <1>6
  <2>2. CASE o \in fresh
    <3>1. bank'[o][t] = bank[o][t] + Inserts(o)[t]
      BY <1>3, <1>6, <2>2
    <3> QED
      BY <2>1, <3>1
  <2>3. CASE o \notin fresh
    <3>1. o <= revision /\ bank'[o] = bank[o]
      BY <1>3, <1>4, <1>6, <2>3
    <3> QED
      BY <3>1 DEF ProvInv, Holds
  <2> QED
    BY <2>2, <2>3
<1>9. ASSUME untouched PROVE bank' = Due(to)
  <2>1. bank = Due(revision)
    BY <1>9 DEF ProvInv
  <2>2. ASSUME NEW o \in Origins
        PROVE  bank'[o] = IF o \in Releases /\ o <= to THEN Inserts(o) ELSE NoQuestions
    <3>1. CASE o \notin Releases
      <4>1. o \notin fresh /\ bank[o] = NoQuestions
        BY <2>1, <3>1 DEF Due, fresh
      <4> QED
        BY <1>3, <3>1, <4>1
    <3>2. CASE o \in Releases /\ o \in fresh
      <4>1. bank[o] = NoQuestions /\ o <= to
        BY <1>4, <2>1, <3>2 DEF Due
      <4>2. Plus(NoQuestions, Inserts(o)) = Inserts(o)
        BY <1>6, <3>2 DEF Plus, NoQuestions
      <4> QED
        BY <1>3, <3>2, <4>1, <4>2
    <3>3. CASE o \in Releases /\ o \notin fresh
      <4>1. o <= to <=> o <= revision
        BY <1>1, <1>4, <3>3, OriginsAre
      <4>2. bank'[o] = bank[o]
        BY <1>3, <3>3
      <4> QED
        BY <2>1, <3>3, <4>1, <4>2 DEF Due
    <3> QED
      BY <3>1, <3>2, <3>3
  <2>3. bank' = [o \in Origins |-> bank'[o]]
    BY <1>3
  <2> QED
    BY <2>2, <2>3 DEF Due
<1> QED
  BY <1>1, <1>2, <1>7, <1>8, <1>9 DEF ProvInv

LEMMA DowngradeProv == ASSUME ProvInv, Downgrade PROVE ProvInv'
<1>1. /\ revision \in 1..Latest /\ revision' = revision - 1 /\ ~untouched'
      /\ objects = ObjectsAt(revision)
  BY RevisionList DEF ProvInv, Downgrade
<1>2. objects' = ObjectsAt(revision - 1)
  BY <1>1, DropsFit DEF Downgrade
<1>3. ftsIndex' \in {"none", "invalid", "valid"}
  BY DEF ProvInv, Downgrade
<1>4. bank' \in Banks /\ Holds(bank', revision - 1)
  <2>1. CASE <<"questions">> \in objects'
    <3>1. bank' = bank /\ bank \in Banks
      BY <2>1 DEF ProvInv, Downgrade
    <3>2. \A o \in Releases : o <= revision - 1 => o <= revision
      BY <1>1, OriginsAre, RevisionList
    <3> QED
      BY <3>1, <3>2 DEF ProvInv, Holds
  <2>2. CASE <<"questions">> \notin objects'
    <3>1. revision = 1
      <4>1. InitialTables[6] = <<"questions">>
        BY DEF InitialTables
      <4>2. revision # 1 => revision - 1 \in 1..Latest
        BY <1>1, RevisionList
      <4> QED
        BY <1>2, <2>2, <4>1, <4>2, TablesStand
    <3>2. bank' = [o \in Origins |-> NoQuestions]
      BY <2>2 DEF Downgrade
    <3> QED
      BY <3>1, <3>2, EmptyBank
  <2> QED
    BY <2>1, <2>2
<1>5. revision - 1 \in 0..Latest /\ revision - 1 # Latest
  BY <1>1, RevisionList
<1> QED
  BY <1>1, <1>2, <1>3, <1>4, <1>5 DEF ProvInv

\* The script never adds to a bank that the revisions have filled: the columns it needs come
\* with 012, and by then there are more questions than the threshold.
LEMMA SeedsNothing ==
    ASSUME SeedThreshold \in 0..103, ProvInv, SeedQuestions
    PROVE  UNCHANGED <<revision, objects, ftsIndex, bank, scriptRows, untouched>>
<1>1. SUFFICES ASSUME Size(bank) <= SeedThreshold, QuestionModel \subseteq objects PROVE FALSE
  BY DEF SeedQuestions
<1>2. revision >= 12 /\ revision \in 0..Latest
  <2>1. <<"questions", "upvotes">> \in ObjectsAt(revision)
    BY <1>1 DEF QuestionModel, ProvInv
  <2>2. Home(<<"questions", "upvotes">>) \in 1..revision
    BY <2>1, Placed DEF ProvInv
  <2>3. Home(<<"questions", "upvotes">>) = 12
    BY DEF Home
  <2> QED
    BY <2>2, <2>3 DEF ProvInv
<1>3. revision \in Nat /\ revision >= 10
  BY <1>2, RevisionList
<1>4. Size(bank) \in Nat /\ Size(bank) >= 104
  BY <1>3, BankSize DEF ProvInv
<1> QED
  BY <1>1, <1>4

LEMMA NextProv ==
    ASSUME SeedThreshold \in 0..103, ProvInv, [ProvNext]_provVars
    PROVE  ProvInv'
<1>1. CASE \E to \in 1..Latest : UpgradeTo(to)
  BY <1>1, UpgradeProv
<1>2. CASE BuildIndex
  BY <1>2, RevisionList DEF BuildIndex, ProvInv
<1>3. CASE StampLatest
  <2>1. \A o \in Releases : o <= Latest /\ o <= Latest - 1
    BY OriginsAre, RevisionList
  <2>2. Due(Latest) = Due(Latest - 1)
    BY <2>1 DEF Due
  <2>3. Holds(bank, Latest - 1) => Holds(bank, Latest)
    BY <2>1 DEF Holds
  <2>4. ObjectsAt(Latest) = ObjectsAt(Latest - 1)
    <3>1. Created({}, Revisions[18].up) = {}
      BY RevisionList DEF Created, RowsOnly
    <3>2. 1..18 = (1..17) \cup {18}
      OBVIOUS
    <3> QED
      BY <3>1, <3>2, RevisionList DEF ObjectsAt
  <2>5. /\ revision = Latest - 1 /\ revision' = Latest /\ ftsIndex # "none" /\ Latest \in 0..Latest
        /\ UNCHANGED <<objects, ftsIndex, bank, untouched>>
    BY <1>3, RevisionList DEF StampLatest
  <2> QED
    BY <2>2, <2>3, <2>4, <2>5 DEF ProvInv
<1>4. CASE Downgrade
  BY <1>4, DowngradeProv
<1>5. CASE SeedQuestions
  BY <1>5, SeedsNothing DEF ProvInv
<1>6. CASE UNCHANGED provVars
  BY <1>6 DEF provVars, ProvInv
<1> QED
  BY <1>1, <1>2, <1>3, <1>4, <1>5, <1>6 DEF ProvNext

\* However many upgrades and downgrades are run, in whatever order, cut off or failing: every
\* migration runs from where the one before it ended, in both directions; every question of the
\* releases up to the revision is there, by origin and type; and a database only ever upgraded has
\* each of them once, no others, and a usable full-text index.  The threshold of the seed script
\* matters: at 104 or more it would add its own questions to those of 009 and 010.
THEOREM BankStands ==
    ASSUME SeedThreshold \in 0..103
    PROVE  ProvSpec => []BankAsReleased
<1>1. ProvInv => BankAsReleased
  <2> SUFFICES ASSUME ProvInv PROVE BankAsReleased
    OBVIOUS
  <2>1. MigrationsRun
    <3>1. objects = UNION {Created({}, Revisions[r].up) : r \in 1..revision}
      BY DEF ProvInv, ObjectsAt
    <3>2. revision < Latest => CreatesRun(objects, Revisions[revision + 1].up)
      <4>1. revision < Latest => revision + 1 \in 1..Latest /\ (revision + 1) - 1 = revision
        BY RevisionList DEF ProvInv
      <4> QED
        BY <4>1, CreatesFit DEF ProvInv
    <3>3. revision > 0 => DropsRun(objects, Revisions[revision].down)
      <4>1. revision > 0 => revision \in 1..Latest
        BY RevisionList DEF ProvInv
      <4> QED
        BY <4>1, DropsFit DEF ProvInv
    <3> QED
      BY <3>1, <3>2, <3>3 DEF MigrationsRun
  <2>2. untouched => (revision = Latest => ftsIndex = "valid")
    BY DEF ProvInv
  <2>3. untouched => bank = [o \in Origins |-> IF o \in Releases /\ o <= revision
                                              THEN Inserts(o) ELSE NoQuestions]
    BY DEF ProvInv, Due
  <2>4. \A o \in Releases, t \in QuestionTypes : o <= revision => bank[o][t] >= Inserts(o)[t]
    BY DEF ProvInv, Holds
  <2> QED
    BY <2>1, <2>2, <2>3, <2>4 DEF BankAsReleased
<1>2. ProvInit => ProvInv
  BY InitProv
<1>3. ProvInv /\ [ProvNext]_provVars => ProvInv'
  BY NextProv
<1> QED
  BY <1>1, <1>2, <1>3, PTL DEF ProvSpec

\* The seed script never adds a question to a database that the migrations built, whatever
\* commands came before: seed_questions.seed finds more than its threshold or fails.
THEOREM SeedNeverAdds ==
    ASSUME SeedThreshold \in 0..103
    PROVE  ProvSpec => [][SeedQuestions => UNCHANGED <<bank, scriptRows>>]_provVars
<1>1. ProvInv /\ [ProvNext]_provVars
      => ProvInv' /\ [SeedQuestions => UNCHANGED <<bank, scriptRows>>]_provVars
  BY NextProv, SeedsNothing
<1> QED
  BY InitProv, <1>1, PTL DEF ProvSpec

-------------------------------------------------------------------------------
(* SpokenTurn: which sentence is where *)

USE SpokenAssumption

Heard == {shown[k] : k \in DOMAIN shown}
Readable(n) == (1..n) \ Blanks
Voiced(n, c) == \E i \in DOMAIN voiced : voiced[i] = <<n, c>>

SpokenType ==
    /\ llm \in {"streaming", "joining", "waiting", "replied", "waited", "raised"}
    /\ worker \in {"idle", "speaking", "done", "failed", "cancelled"}
    /\ made \in Nat /\ ttsQueue \in Seq(Nat)
    /\ sentence \in [n : Nat, sent : Nat] /\ sentence.sent <= Chunks
    /\ flag \in BOOLEAN /\ fallback \in BOOLEAN /\ stopped \in BOOLEAN
    /\ shown \in Seq(Nat) /\ voiced \in Seq(Nat \X Nat)

Working == worker \in {"idle", "speaking"}

\* The sentences after the first t are in the queue, and then the pill if it was put there.
Waiting(t) ==
    /\ Len(ttsQueue) = (made - t) + (IF llm = "streaming" THEN 0 ELSE 1)
    /\ \A i \in 1..(made - t) : ttsQueue[i] = t + i
    /\ llm # "streaming" => ttsQueue[Len(ttsQueue)] = 0

\* What was heard of a sentence: all of it, or of the one being spoken what was sent.
Complete(t) ==
    \A n \in Heard, c \in 1..Chunks :
        (worker = "speaking" /\ n = t /\ c > sentence.sent) \/ Voiced(n, c)

\* The worker has taken the first t sentences.
Taken(t) ==
    /\ Heard = Readable(t)
    /\ Working => Waiting(t)
    /\ worker = "speaking" => sentence.n = t /\ t \in Heard
    /\ worker = "done" /\ ~stopped => t = made
    /\ ~stopped /\ worker # "cancelled" => Complete(t)

InOrder ==
    /\ \A i, j \in DOMAIN shown : i < j => shown[i] < shown[j]
    /\ \A i \in DOMAIN voiced : voiced[i][1] \in Heard
    /\ \A i, j \in DOMAIN voiced : i < j => voiced[i][1] <= voiced[j][1]

Phases ==
    /\ llm \in {"waiting", "waited"} => made = 0
    /\ Working => llm \in {"streaming", "joining", "waiting"}
    /\ llm \in {"replied", "waited"} => worker = "done" /\ ~flag
    /\ worker = "done" /\ llm = "streaming" => stopped
    /\ llm = "waited" => role = "earlier"

SpokenInv ==
    /\ SpokenType /\ InOrder /\ Phases
    /\ \E t \in 0..made : Taken(t)

\* A turn starts with nothing taken, shown or voiced.
LEMMA InitSpoken == SpokenInit => SpokenInv
<1> SUFFICES ASSUME SpokenInit PROVE SpokenInv
  OBVIOUS
<1>1. SpokenType /\ Phases
  <2>1. <<>> \in Seq(Nat) /\ <<>> \in Seq(Nat \X Nat)
    BY EmptySeq
  <2>2. sentence \in [n : Nat, sent : Nat] /\ sentence.sent <= Chunks
    BY DEF SpokenInit
  <2> QED
    BY <2>1, <2>2 DEF SpokenInit, SpokenType, Phases, Working
<1>2. DOMAIN shown = {} /\ DOMAIN voiced = {} /\ Heard = {} /\ Readable(0) = {}
  BY DEF SpokenInit, Heard, Readable
<1>3. InOrder
  BY <1>2 DEF InOrder
<1>4. Waiting(0)
  BY EmptySeq DEF SpokenInit, Waiting
<1>5. Taken(0) /\ 0 \in 0..made
  BY <1>2, <1>4 DEF SpokenInit, Taken, Complete
<1> QED
  BY <1>1, <1>3, <1>5 DEF SpokenInv

\* The other tasks of the turn leave what is shown and heard as it is.
LEMMA SpokenSame ==
    ASSUME UNCHANGED <<shown, voiced>>
    PROVE  /\ Heard' = Heard /\ \A n, c : Voiced(n, c)' <=> Voiced(n, c)
           /\ InOrder' <=> InOrder
BY DEF Heard, Voiced, InOrder

\* A sentence, or the last one and the pill, goes to the end of the queue.
LEMMA QueueGrows ==
    ASSUME SpokenType, NEW t \in 0..made, Waiting(t), llm = "streaming",
           NEW q \in {<<made + 1>>, << 0 >>, <<made + 1, 0>>},
           ttsQueue' = ttsQueue \o q,
           made' = IF q = << 0 >> THEN made ELSE made + 1,
           llm' = "streaming" <=> q = <<made + 1>>
    PROVE  Waiting(t)'
<1>1. made \in Nat /\ t \in Nat /\ t <= made /\ ttsQueue \in Seq(Nat)
  BY DEF SpokenType
<1>2. Len(ttsQueue) = made - t /\ \A i \in 1..(made - t) : ttsQueue[i] = t + i
  BY <1>1 DEF Waiting
<1>3. /\ Len(ttsQueue') = made - t + Len(q)
      /\ \A i \in 1..(made - t) : ttsQueue'[i] = t + i
      /\ \A i \in 1..Len(q) : ttsQueue'[made - t + i] = q[i]
  <2>1. q \in Seq(Nat) /\ Len(q) \in Nat
    <3>1. /\ <<made + 1>> \in Seq(Nat) /\ << 0 >> \in Seq(Nat) /\ <<made + 1, 0>> \in Seq(Nat)
          /\ Len(<<made + 1>>) = 1 /\ Len(<< 0 >>) = 1 /\ Len(<<made + 1, 0>>) = 2
      BY <1>1
    <3> QED
      BY <3>1
  <2>2. /\ Len(ttsQueue') = made - t + Len(q)
        /\ \A i \in 1..(made - t + Len(q)) :
              ttsQueue'[i] = IF i <= made - t THEN ttsQueue[i] ELSE q[i - (made - t)]
    <3> DEFINE joined == ttsQueue \o q
    <3>1. /\ Len(joined) = Len(ttsQueue) + Len(q)
          /\ \A i \in 1..(Len(ttsQueue) + Len(q)) :
                joined[i] = IF i <= Len(ttsQueue) THEN ttsQueue[i] ELSE q[i - Len(ttsQueue)]
      BY <1>1, <2>1, ConcatProperties
    <3> HIDE DEF joined
    <3>2. ttsQueue' = joined
      BY DEF joined
    <3> QED
      BY <1>2, <3>1, <3>2
  <2>3. ASSUME NEW i \in 1..Len(q) PROVE ttsQueue'[made - t + i] = q[i]
    <3>1. /\ made - t + i \in 1..(made - t + Len(q)) /\ ~ (made - t + i <= made - t)
          /\ (made - t + i) - (made - t) = i
      BY <1>1, <2>1
    <3> QED
      BY <2>2, <3>1
  <2>4. ASSUME NEW i \in 1..(made - t) PROVE ttsQueue'[i] = t + i
    BY <1>1, <1>2, <2>1, <2>2
  <2> QED
    BY <2>2, <2>3, <2>4
<1>4. CASE q = <<made + 1>>
  <2>1. q # << 0 >> /\ Len(q) = 1 /\ q[1] = made + 1
    BY <1>1, <1>4
  <2>2. /\ made' = made + 1 /\ llm' = "streaming" /\ Len(ttsQueue') = made' - t
        /\ ttsQueue'[made - t + 1] = t + (made - t + 1)
    BY <1>1, <1>3, <1>4, <2>1
  <2>3. \A i \in 1..(made' - t) : i \in 1..(made - t) \/ i = made - t + 1
    BY <1>1, <2>2
  <2>4. \A i \in 1..(made' - t) : ttsQueue'[i] = t + i
    BY <1>3, <2>2, <2>3
  <2> QED
    BY <1>1, <2>2, <2>4 DEF Waiting
<1>5. CASE q = << 0 >>
  <2>1. q # <<made + 1>> /\ Len(q) = 1 /\ q[1] = 0
    BY <1>1, <1>5
  <2>2. /\ made' = made /\ llm' # "streaming" /\ Len(ttsQueue') = made' - t + 1
        /\ ttsQueue'[made' - t + 1] = 0
    BY <1>1, <1>3, <1>5, <2>1
  <2> QED
    BY <1>3, <2>2 DEF Waiting
<1>6. CASE q = <<made + 1, 0>>
  <2>1. q # << 0 >> /\ q # <<made + 1>> /\ Len(q) = 2 /\ q[1] = made + 1 /\ q[2] = 0
    BY <1>1, <1>6
  <2>2. /\ made' = made + 1 /\ llm' # "streaming" /\ Len(ttsQueue') = made' - t + 1
        /\ ttsQueue'[made - t + 1] = t + (made - t + 1) /\ ttsQueue'[made' - t + 1] = 0
    <3>1. ttsQueue'[made - t + 1] = made + 1 /\ ttsQueue'[made - t + 2] = 0
      <4>1. 1 \in 1..Len(q) /\ 2 \in 1..Len(q)
        BY <2>1
      <4> QED
        BY <1>3, <2>1, <4>1
    <3>2. made' = made + 1 /\ llm' # "streaming" /\ Len(ttsQueue') = made - t + 2
      BY <1>3, <1>6, <2>1
    <3> QED
      BY <1>1, <3>1, <3>2
  <2>3. \A i \in 1..(made' - t) : i \in 1..(made - t) \/ i = made - t + 1
    BY <1>1, <2>2
  <2>4. \A i \in 1..(made' - t) : ttsQueue'[i] = t + i
    BY <1>3, <2>2, <2>3
  <2> QED
    BY <1>1, <2>2, <2>4 DEF Waiting
<1> QED
  BY <1>4, <1>5, <1>6

\* What the coroutine and the client do leaves the worker's place.
LEMMA TurnSteps ==
    ASSUME SpokenInv, Token \/ WaitToken \/ StreamEnds
    PROVE  SpokenInv'
<1> USE DEF SpokenInv
<1>0. /\ made \in Nat /\ ttsQueue \in Seq(Nat) /\ llm = "streaming"
      /\ UNCHANGED <<worker, sentence, flag, fallback, shown, voiced, role, stopped>>
      /\ \/ llm' = "streaming" /\ made' = made + 1 /\ ttsQueue' = Append(ttsQueue, made + 1)
         \/ /\ llm' \in {"joining", "waiting"} /\ made' = made /\ ttsQueue' = Append(ttsQueue, 0)
            /\ llm' = "waiting" => made = 0
         \/ llm' = "joining" /\ made' = made + 1 /\ ttsQueue' = ttsQueue \o <<made + 1, 0>>
  BY DEF SpokenType, Token, WaitToken, StreamEnds
<1>q. PICK q \in {<<made + 1>>, << 0 >>, <<made + 1, 0>>} :
           /\ ttsQueue' = ttsQueue \o q
           /\ made' = IF q = << 0 >> THEN made ELSE made + 1
           /\ llm' = "streaming" <=> q = <<made + 1>>
  <2>1. \A x \in Nat : Append(ttsQueue, x) = ttsQueue \o <<x>>
    BY <1>0, AppendIsConcat
  <2>3. <<made + 1>>[1] # << 0 >>[1] /\ Len(<<made + 1, 0>>) # Len(<< 0 >>)
        /\ Len(<<made + 1, 0>>) # Len(<<made + 1>>)
    BY <1>0
  <2>4. <<made + 1>> # << 0 >> /\ <<made + 1, 0>> # << 0 >> /\ <<made + 1, 0>> # <<made + 1>>
    BY <2>3
  <2>5. CASE llm' = "streaming" /\ made' = made + 1 /\ ttsQueue' = Append(ttsQueue, made + 1)
    BY <1>0, <2>1, <2>4, <2>5
  <2>6. CASE llm' \in {"joining", "waiting"} /\ made' = made /\ ttsQueue' = Append(ttsQueue, 0)
    BY <1>0, <2>1, <2>4, <2>6
  <2>7. CASE llm' = "joining" /\ made' = made + 1 /\ ttsQueue' = ttsQueue \o <<made + 1, 0>>
    BY <1>0, <2>1, <2>4, <2>7
  <2> QED
    BY <1>0, <2>5, <2>6, <2>7
<1>1. SpokenType'
  <2>1. q \in Seq(Nat)
    <3>1. made + 1 \in Nat /\ 0 \in Nat
      BY <1>0
    <3>2. <<made + 1>> \in Seq(Nat) /\ << 0 >> \in Seq(Nat) /\ <<made + 1, 0>> \in Seq(Nat)
      BY <3>1
    <3> QED
      BY <3>2
  <2>2. ttsQueue' \in Seq(Nat)
    BY <1>0, <1>q, <2>1, ConcatProperties
  <2>3. llm' \in {"streaming", "joining", "waiting"} /\ made' \in Nat
    BY <1>0
  <2>4. UNCHANGED <<worker, sentence, flag, fallback, shown, voiced, stopped>>
    BY <1>0
  <2> QED
    BY <2>2, <2>3, <2>4 DEF SpokenType
<1>2. InOrder' /\ Heard' = Heard /\ \A n, c : Voiced(n, c)' <=> Voiced(n, c)
  BY <1>0, SpokenSame
<1>3. Phases'
  BY <1>0 DEF Phases, SpokenType, Working
<1>4. PICK t \in 0..made : Taken(t)
  OBVIOUS
<1>5. Working => Waiting(t)'
  BY <1>0, <1>4, <1>q, QueueGrows DEF Taken
<1>6. worker = "done" /\ ~stopped => FALSE
  BY <1>0 DEF Phases
<1>7. Taken(t)'
  BY <1>0, <1>2, <1>4, <1>5, <1>6 DEF Taken, Complete, Working
<1>8. t \in 0..made'
  BY <1>0
<1> QED
  BY <1>1, <1>2, <1>3, <1>7, <1>8

\* So do the turn's ends, its join with the worker and the client's interrupt.
LEMMA TurnEnding ==
    ASSUME SpokenInv, TurnRaises \/ JoinWorker \/ ClientInterrupts
    PROVE  SpokenInv'
<1> USE DEF SpokenInv, TurnRaises, JoinWorker, ClientInterrupts
<1>1. SpokenType'
  BY DEF SpokenType
<1>2. InOrder' /\ Heard' = Heard /\ \A n, c : Voiced(n, c)' <=> Voiced(n, c)
  BY SpokenSame
<1>3. Phases'
  BY DEF Phases, SpokenType, Working, TurnOver
<1>4. PICK t \in 0..made : Taken(t)
  OBVIOUS
<1>5. Working' => Waiting(t)'
  BY <1>4 DEF Taken, Working, Waiting, TurnOver
<1>6. Taken(t)'
  BY <1>2, <1>4, <1>5 DEF Taken, Complete, Working, SpokenType
<1> QED
  BY <1>1, <1>2, <1>3, <1>6

\* The worker takes the next of the queue.
LEMMA Takes ==
    ASSUME SpokenInv, TakeSentence
    PROVE  SpokenInv'
<1> USE DEF SpokenInv, TakeSentence
<1>1. PICK t \in 0..made : Taken(t)
  OBVIOUS
<1> DEFINE n == Head(ttsQueue)
<1>2. /\ ttsQueue \in Seq(Nat) /\ made \in Nat /\ t \in Nat /\ t <= made
      /\ Len(ttsQueue) \in Nat \ {0} /\ n \in Nat /\ n = ttsQueue[1] /\ Tail(ttsQueue) \in Seq(Nat)
      /\ Len(Tail(ttsQueue)) = Len(ttsQueue) - 1
      /\ \A i \in 1..(Len(ttsQueue) - 1) : Tail(ttsQueue)[i] = ttsQueue[i + 1]
  BY HeadTailProperties, EmptySeq, LenProperties DEF SpokenType
<1>3. Waiting(t) /\ Heard = Readable(t) /\ (~stopped => Complete(t))
  BY <1>1 DEF Taken, Working
<1>4. SpokenType'
  <2>1. n # 0 => Append(shown, n) \in Seq(Nat)
    BY <1>2, AppendProperties DEF SpokenType
  <2>2. ttsQueue' \in Seq(Nat)
    BY <1>2, EmptySeq
  <2>3. shown' \in Seq(Nat)
    BY <2>1 DEF SpokenType
  <2>4. sentence' \in [n : Nat, sent : Nat] /\ sentence'.sent <= Chunks
    BY <1>2 DEF SpokenType
  <2> QED
    BY <2>2, <2>3, <2>4 DEF SpokenType
<1>5. CASE n = 0
  <2>1. made = t /\ llm # "streaming"
    BY <1>2, <1>3, <1>5 DEF Waiting
  <2>2. InOrder' /\ Heard' = Heard /\ \A m, c : Voiced(m, c)' <=> Voiced(m, c)
    BY <1>5, SpokenSame
  <2>3. Phases'
    BY <1>5, <2>1 DEF Phases, Working
  <2>4. Taken(t)'
    BY <1>3, <1>5, <2>1, <2>2 DEF Taken, Complete, Working
  <2> QED
    BY <1>4, <1>5, <2>2, <2>3, <2>4
<1>6. ASSUME n # 0 PROVE n = t + 1 /\ n <= made
  BY <1>2, <1>3, <1>6 DEF Waiting
<1>7. CASE n # 0 /\ flag
  <2>1. InOrder' /\ Heard' = Heard /\ \A m, c : Voiced(m, c)' <=> Voiced(m, c)
    BY <1>7, SpokenSame
  <2>2. Phases'
    BY <1>7 DEF Phases, Working
  <2>3. Taken(t)'
    BY <1>3, <1>7, <2>1 DEF Taken, Complete, Working
  <2> QED
    BY <1>4, <1>7, <2>1, <2>2, <2>3
<1>8. ASSUME n # 0, ~flag PROVE Waiting(t + 1)' /\ t + 1 \in 0..made
  <2>1. ttsQueue' = Tail(ttsQueue) /\ llm' = llm /\ made' = made
    BY <1>8
  <2>2. \A i \in 1..(made - (t + 1)) : ttsQueue'[i] = t + 1 + i
    BY <1>2, <1>3, <2>1 DEF Waiting
  <2>3. llm # "streaming" => ttsQueue'[Len(ttsQueue')] = 0
    <3>1. llm # "streaming" => Len(ttsQueue) = made - t + 1
      BY <1>3 DEF Waiting
    <3> QED
      BY <1>2, <1>3, <1>6, <1>8, <2>1, <3>1 DEF Waiting
  <2>4. Len(ttsQueue') = (made - (t + 1)) + (IF llm = "streaming" THEN 0 ELSE 1)
    BY <1>2, <1>3, <2>1 DEF Waiting
  <2> QED
    BY <1>2, <1>6, <1>8, <2>1, <2>2, <2>3, <2>4 DEF Waiting
<1>9. CASE n # 0 /\ ~flag /\ n \in Blanks
  <2>1. InOrder' /\ Heard' = Heard /\ \A m, c : Voiced(m, c)' <=> Voiced(m, c)
    BY <1>9, SpokenSame
  <2>2. Phases'
    BY <1>9 DEF Phases, Working
  <2>3. Readable(t + 1) = Readable(t)
    BY <1>2, <1>6, <1>9 DEF Readable
  <2>4. Taken(t + 1)'
    BY <1>3, <1>8, <1>9, <2>1, <2>3 DEF Taken, Complete, Working, Readable
  <2> QED
    BY <1>4, <1>8, <1>9, <2>1, <2>2, <2>4
<1>10. CASE n # 0 /\ ~flag /\ n \notin Blanks
  <2>1. /\ shown' = Append(shown, n) /\ UNCHANGED <<voiced, stopped, made, llm, role>>
        /\ worker' = "speaking" /\ sentence' = [n |-> n, sent |-> 0]
    BY <1>10
  <2>2. /\ Len(shown) \in Nat /\ DOMAIN shown = 1..Len(shown) /\ DOMAIN shown' = 1..(Len(shown) + 1)
        /\ \A k \in 1..Len(shown) : shown'[k] = shown[k]
        /\ shown'[Len(shown) + 1] = n
    BY <1>2, <2>1, AppendProperties, LenProperties DEF SpokenType
  <2>3. Heard' = Heard \cup {n}
    <3>1. Heard' = {shown'[k] : k \in 1..(Len(shown) + 1)} /\ Heard = {shown[k] : k \in 1..Len(shown)}
      BY <2>2 DEF Heard
    <3>2. Heard' \subseteq Heard \cup {n}
      BY <2>2, <3>1
    <3>3. Heard \subseteq Heard' /\ n \in Heard'
      BY <2>2, <3>1
    <3> QED
      BY <3>2, <3>3
  <2>4. \A m \in Heard : m \in Nat /\ m <= t
    BY <1>2, <1>3 DEF Readable
  <2>5. Readable(t + 1) = Readable(t) \cup {n}
    BY <1>2, <1>6, <1>10 DEF Readable
  <2>6. InOrder'
    <3>1. ASSUME NEW i \in DOMAIN shown', NEW j \in DOMAIN shown', i < j PROVE shown'[i] < shown'[j]
      <4>1. i \in 1..Len(shown) /\ shown[i] \in Heard
        BY <2>2, <3>1 DEF Heard
      <4>2. CASE j = Len(shown) + 1
        BY <1>2, <1>6, <1>10, <2>2, <2>4, <4>1, <4>2
      <4>3. CASE j # Len(shown) + 1
        <5>1. j \in 1..Len(shown)
          BY <2>2, <4>3
        <5> QED
          BY <2>2, <3>1, <4>1, <5>1 DEF InOrder
      <4> QED
        BY <4>2, <4>3
    <3> QED
      BY <2>1, <2>3, <3>1 DEF InOrder
  <2>7. Phases'
    BY <2>1 DEF Phases, Working
  <2>8. \A m, c : Voiced(m, c)' <=> Voiced(m, c)
    BY <2>1 DEF Voiced
  <2>9. (~stopped)' => Complete(t + 1)'
    <3> SUFFICES ASSUME ~stopped, NEW m \in Heard', NEW c \in 1..Chunks, m # t + 1
                 PROVE  Voiced(m, c)'
      BY <2>1 DEF Complete
    <3>1. m \in Heard
      BY <1>6, <1>10, <2>3
    <3> QED
      BY <1>3, <2>8, <3>1 DEF Complete
  <2>10. Taken(t + 1)'
    BY <1>3, <1>6, <1>8, <1>10, <2>1, <2>3, <2>5, <2>9 DEF Taken, Working
  <2> QED
    BY <1>4, <1>8, <1>10, <2>1, <2>6, <2>7, <2>10
<1> QED
  BY <1>5, <1>7, <1>9, <1>10

\* A chunk is one more of the sentence being spoken.
LEMMA Sends ==
    ASSUME SpokenInv, SendChunk
    PROVE  SpokenInv'
<1> USE DEF SpokenInv, SendChunk
<1>1. PICK t \in 0..made : Taken(t)
  OBVIOUS
<1>2. /\ t \in Nat /\ sentence.n = t /\ t \in Heard /\ Heard = Readable(t) /\ Waiting(t)
      /\ (~stopped => Complete(t)) /\ sentence.sent \in Nat /\ sentence.n \in Nat
  BY <1>1 DEF Taken, Working, SpokenType
<1>c. PICK c \in 1..Chunks : c = sentence.sent + 1
  BY <1>2
<1>3. sentence' = [n |-> t, sent |-> c] /\ voiced' = Append(voiced, <<t, c>>) /\ <<t, c>> \in Nat \X Nat
  <2>1. sentence \in [n : Nat, sent : Nat]
    BY DEF SpokenType
  <2>2. sentence' = [n |-> sentence.n, sent |-> sentence.sent + 1]
    BY <2>1
  <2>3. t \in Nat /\ c \in Nat
    BY <1>2
  <2> QED
    BY <1>2, <1>c, <2>2, <2>3
<1>4. SpokenType'
  <2>1. voiced' \in Seq(Nat \X Nat)
    BY <1>3, AppendProperties DEF SpokenType
  <2>2. sentence' \in [n : Nat, sent : Nat] /\ sentence'.sent <= Chunks
    <3>1. c \in Nat /\ c <= Chunks
      OBVIOUS
    <3> QED
      <4>1. [n |-> t, sent |-> c] \in [n : Nat, sent : Nat] /\ [n |-> t, sent |-> c].sent = c
        BY <1>2, <3>1
      <4> QED
        BY <1>3, <3>1, <4>1
  <2> QED
    BY <2>1, <2>2 DEF SpokenType
<1>5. /\ Len(voiced) \in Nat /\ DOMAIN voiced = 1..Len(voiced) /\ DOMAIN voiced' = 1..(Len(voiced) + 1)
      /\ \A k \in 1..Len(voiced) : voiced'[k] = voiced[k]
      /\ voiced'[Len(voiced) + 1] = <<t, c>>
  BY <1>3, AppendProperties, LenProperties DEF SpokenType
<1>6. Heard' = Heard
  BY DEF Heard
<1>7. \A m \in Heard : m \in Nat /\ m <= t
  BY <1>2 DEF Readable
<1>8. InOrder'
  <2>1. ASSUME NEW i \in DOMAIN voiced' PROVE voiced'[i][1] \in Heard
    BY <1>2, <1>5 DEF InOrder
  <2>2. ASSUME NEW i \in DOMAIN voiced', NEW j \in DOMAIN voiced', i < j
        PROVE  voiced'[i][1] <= voiced'[j][1]
    <3>1. CASE j = Len(voiced) + 1
      BY <1>5, <1>7, <2>1, <3>1
    <3>2. CASE j # Len(voiced) + 1
      <4>1. i \in 1..Len(voiced) /\ j \in 1..Len(voiced)
        BY <1>5, <2>2, <3>2
      <4> QED
        BY <1>5, <2>2, <4>1 DEF InOrder
    <3> QED
      BY <3>1, <3>2
  <2> QED
    BY <1>6, <2>1, <2>2 DEF InOrder
<1>9. Phases'
  BY DEF Phases, Working
<1>10. Voiced(t, c)' /\ \A m, d : Voiced(m, d) => Voiced(m, d)'
  <2>1. \E i \in DOMAIN voiced' : voiced'[i] = <<t, c>>
    BY <1>5
  <2>2. ASSUME NEW m, NEW d, NEW i \in DOMAIN voiced, voiced[i] = <<m, d>>
        PROVE  \E k \in DOMAIN voiced' : voiced'[k] = <<m, d>>
    BY <1>5, <2>2
  <2> QED
    BY <2>1, <2>2 DEF Voiced
<1>11. (~stopped)' => Complete(t)'
  <2> SUFFICES ASSUME ~stopped, NEW m \in Heard, NEW d \in 1..Chunks, m = t => ~ (d > c)
               PROVE  Voiced(m, d)'
    BY <1>3, <1>6 DEF Complete
  <2>1. CASE m = t /\ d = c
    BY <1>10, <2>1
  <2>2. CASE ~ (m = t /\ d = c)
    <3>1. m = t => ~ (d > sentence.sent)
      BY <1>2, <1>c, <2>2
    <3>2. Voiced(m, d)
      BY <1>2, <3>1 DEF Complete
    <3> QED
      BY <1>10, <3>2
  <2> QED
    BY <2>1, <2>2
<1>12. Taken(t)'
  BY <1>2, <1>3, <1>6, <1>11 DEF Taken, Working, Waiting
<1> QED
  BY <1>4, <1>8, <1>9, <1>12

\* A voice that fails, a closed socket and a sentence's end keep what was shown and voiced.
LEMMA Fails ==
    ASSUME SpokenInv, VoiceFails \/ SendFails \/ SentenceEnds
    PROVE  SpokenInv'
<1> USE DEF SpokenInv, VoiceFails, SendFails, SentenceEnds
<1>1. PICK t \in 0..made : Taken(t)
  OBVIOUS
<1>2. InOrder' /\ Heard' = Heard /\ \A n, c : Voiced(n, c)' <=> Voiced(n, c)
  BY SpokenSame
<1>3. /\ sentence.sent \in Nat /\ sentence.sent <= Chunks /\ sentence.n = t /\ t \in Heard
      /\ Heard = Readable(t) /\ Waiting(t) /\ (~stopped => Complete(t))
  BY <1>1 DEF Taken, Working, SpokenType
<1>4. SpokenType'
  <2>1. sentence' \in [n : Nat, sent : Nat] /\ sentence'.sent <= Chunks
    BY <1>3 DEF SpokenType
  <2> QED
    BY <2>1 DEF SpokenType
<1>5. Phases'
  BY DEF Phases, Working
<1>6. Working' => Waiting(t)'
  BY <1>3 DEF Waiting
<1>7. (~stopped)' => Complete(t)'
  <2> SUFFICES ASSUME ~stopped', NEW n \in Heard, NEW c \in 1..Chunks,
                      ~ (worker' = "speaking" /\ n = t /\ c > sentence'.sent)
               PROVE  Voiced(n, c)
    BY <1>2 DEF Complete
  <2>1. ~stopped /\ ~ (n = t /\ c > sentence.sent)
    BY <1>3, <1>4 DEF SpokenType
  <2> QED
    BY <1>3, <2>1 DEF Complete
<1>8. Taken(t)'
  <2>1. worker' = "speaking" => sentence'.n = t
    BY <1>3 DEF SpokenType
  <2>2. worker' # "done" /\ worker' # "cancelled"
    OBVIOUS
  <2>3. Readable(t)' = Readable(t)
    BY DEF Readable
  <2> QED
    BY <1>2, <1>3, <1>6, <1>7, <2>1, <2>2, <2>3 DEF Taken
<1> QED
  BY <1>2, <1>4, <1>5, <1>8

\* The place of the worker in the reply is kept by every step of both tasks.
LEMMA SpokenAlways == SpokenSpec => []SpokenInv
<1>1. SpokenInv /\ [SpokenNext]_spokenVars => SpokenInv'
  <2>1. ASSUME SpokenInv, UNCHANGED spokenVars PROVE SpokenInv'
    <3>1. SpokenType' /\ InOrder' /\ Phases' /\ Heard' = Heard
      BY <2>1, SpokenSame DEF spokenVars, SpokenInv, SpokenType, Phases, Working
    <3>2. ASSUME NEW t \in 0..made, Taken(t) PROVE Taken(t)'
      BY <2>1, <3>1, <3>2, SpokenSame DEF spokenVars, Taken, Waiting, Complete, Working
    <3> QED
      BY <2>1, <3>1, <3>2 DEF spokenVars, SpokenInv
  <2> QED
    BY <2>1, TurnSteps, TurnEnding, Takes, Sends, Fails DEF SpokenNext, WorkerStep, LlmStep
<1> QED
  BY <1>1, InitSpoken, PTL DEF SpokenSpec

\* The client reads what it hears: sentences in order, none left out but blank ones, audio only of
\* what was shown, all of the reply after a turn nobody stopped, nothing after [WAIT]
\* (_tts_worker and _llm_tts_turn).
THEOREM ReadAsHeard == SpokenSpec => []HeardAsRead
<1>1. SpokenInv => HeardAsRead
  <2> SUFFICES ASSUME SpokenInv PROVE HeardAsRead
    OBVIOUS
  <2>1. PICK t \in 0..made : Taken(t)
    BY DEF SpokenInv
  <2>2. Heard = Readable(t) /\ InOrder
    BY <2>1 DEF Taken, SpokenInv
  <2>3. ASSUME llm = "replied"
        PROVE  /\ ~flag
               /\ ~stopped => Heard = Readable(made) /\ \A n \in Heard, c \in 1..Chunks : Voiced(n, c)
    BY <2>1, <2>3 DEF SpokenInv, Phases, Taken, Complete
  <2>4. ASSUME llm = "waited" PROVE shown = <<>> /\ role # "assistant"
    <3>1. made = 0 /\ role = "earlier"
      BY <2>4 DEF SpokenInv, Phases
    <3>2. Heard = {}
      BY <2>1, <2>2, <3>1 DEF Readable
    <3>3. Len(shown) \in Nat /\ DOMAIN shown = 1..Len(shown)
      BY LenProperties DEF SpokenInv, SpokenType
    <3>4. 1 \notin DOMAIN shown
      BY <3>2 DEF Heard
    <3>5. shown = <<>>
      BY <3>3, <3>4, EmptySeq DEF SpokenInv, SpokenType
    <3> QED
      BY <3>1, <3>5
  <2> QED
    BY <2>1, <2>2, <2>3, <2>4 DEF HeardAsRead, InOrder, Heard, Readable, Voiced
<1> QED
  BY <1>1, SpokenAlways, PTL

-------------------------------------------------------------------------------
(* SpokenTurn implements the turn of VoicePipeline *)

Running == llm \in {"streaming", "joining", "waiting"}

\* The answer stays in the conversation until the turn is over.
Asking == Running => role = "user"

LEMMA AskingAlways == SpokenSpec => []Asking
<1>1. SpokenInit => Asking
  BY DEF SpokenInit, Asking
<1>2. Asking /\ [SpokenNext]_spokenVars => Asking'
  BY DEF Asking, Running, SpokenNext, spokenVars, Token, WaitToken, TurnRaises, ClientInterrupts, SendFails,
     WorkerStep, TakeSentence, SendChunk, VoiceFails, SentenceEnds, LlmStep, StreamEnds, JoinWorker
<1> QED
  BY <1>1, <1>2, PTL DEF SpokenSpec

\* How a turn that runs looks from outside.
LEMMA RunningView ==
    ASSUME Running
    PROVE  /\ ~NoResponse /\ ~TurnOver /\ llm # "raised" /\ llm # "replied"
           /\ LlmPc = IF Spoken THEN "speak" ELSE "gen"
BY DEF Running, NoResponse, TurnOver, LlmPc

\* Outside the turn is seen only whether and how it is over, whether it has spoken, and the flag.
LEMMA Unseen ==
    ASSUME UNCHANGED <<flag, role>>, Spoken' <=> Spoken,
           (llm' = llm /\ made' = made) \/ (Running /\ Running')
    PROVE  UNCHANGED Pipeline!vars
<1>1. /\ (NoResponse' <=> NoResponse) /\ (TurnOver' <=> TurnOver)
      /\ (llm' = "raised") <=> (llm = "raised")
      /\ (llm' = "replied") <=> (llm = "replied")
  <2>1. CASE llm' = llm /\ made' = made
    BY <2>1 DEF NoResponse, TurnOver
  <2>2. CASE Running /\ Running'
    BY <2>2 DEF Running, NoResponse, TurnOver
  <2> QED
    BY <2>1, <2>2
<1>2. LlmPc' = LlmPc
  <2>1. CASE llm' = llm /\ made' = made
    BY <1>1, <2>1 DEF LlmPc, NoResponse, TurnOver, Spoken
  <2>2. CASE Running /\ Running'
    <3>1. LlmPc = IF Spoken THEN "speak" ELSE "gen"
      BY <2>2, RunningView
    <3>2. LlmPc' = IF Spoken' THEN "speak" ELSE "gen"
      BY <2>2 DEF LlmPc, Running, NoResponse, TurnOver
    <3> QED
      BY <3>1, <3>2
  <2> QED
    BY <2>1, <2>2
<1>3. TurnPc' = TurnPc
  BY <1>1, <1>2 DEF TurnPc
<1>4. /\ (IF TurnOver' THEN "free" ELSE "llm") = (IF TurnOver THEN "free" ELSE "llm")
      /\ (IF Spoken' /\ llm' # "replied" THEN "speaking" ELSE "processing")
            = (IF Spoken /\ llm # "replied" THEN "speaking" ELSE "processing")
      /\ (IF NoResponse' THEN <<Answer>> ELSE <<>>) = (IF NoResponse THEN <<Answer>> ELSE <<>>)
      /\ (IF NoResponse' THEN "fresh" ELSE "none") = (IF NoResponse THEN "fresh" ELSE "none")
      /\ (IF NoResponse' THEN 1 ELSE 0) = (IF NoResponse THEN 1 ELSE 0)
  BY <1>1
<1> QED
  BY <1>3, <1>4 DEF Pipeline!vars, Pipeline!queues, Pipeline!carryVars, Pipeline!locals, Pipeline!db,
     Pipeline!client

\* The first sentence that is not blank.
LEMMA FirstSentence ==
    ASSUME Running, ~Spoken, Spoken', ~flag, UNCHANGED <<llm, made, flag, role>>
    PROVE  Pipeline!Turn("llm")
<1>1. Running'
  BY DEF Running
<1>2. /\ ~NoResponse /\ ~TurnOver /\ llm # "raised" /\ llm # "replied" /\ LlmPc = "gen"
      /\ ~NoResponse' /\ ~TurnOver' /\ llm' # "raised" /\ llm' # "replied" /\ LlmPc' = "speak"
  BY <1>1, RunningView DEF Running, NoResponse, TurnOver, LlmPc
<1>3. TurnPc' = [TurnPc EXCEPT !["llm"] = "speak"] /\ TurnPc["llm"] = "gen"
  BY <1>2 DEF TurnPc
<1>4. Pipeline!Speak("llm")
  BY <1>2, <1>3 DEF Pipeline!Speak, Pipeline!Enter, Pipeline!queues, Pipeline!carryVars, Pipeline!locals,
     Pipeline!db, Pipeline!client
<1> QED
  BY <1>4 DEF Pipeline!Turn

\* The end of a turn with a reply, an empty one or [WAIT].
LEMMA Joining ==
    ASSUME JoinWorker, worker = "done", Asking, llm = "waiting" \/ made = 0 => ~Spoken
    PROVE  Pipeline!Turn("llm")
<1>1. Running /\ role = "user" /\ flag' = FALSE /\ UNCHANGED <<made, shown>>
  BY DEF JoinWorker, Asking, Running
<1>2. /\ ~NoResponse /\ ~TurnOver /\ llm # "raised" /\ llm # "replied"
      /\ LlmPc = (IF Spoken THEN "speak" ELSE "gen") /\ (Spoken' <=> Spoken)
  BY <1>1, RunningView DEF Spoken
<1>3. TurnPc["llm"] = IF Spoken THEN "speak" ELSE "gen"
  BY <1>2 DEF TurnPc
<1>4. CASE llm = "joining" /\ made # 0
  <2>1. /\ llm' = "replied" /\ role' = "assistant" /\ ~NoResponse' /\ TurnOver' /\ LlmPc' = "replied"
    BY <1>1, <1>4 DEF JoinWorker, NoResponse, TurnOver, LlmPc
  <2>2. TurnPc' = [TurnPc EXCEPT !["llm"] = "replied"]
    BY <1>2, <2>1 DEF TurnPc
  <2>3. Pipeline!Reply("llm")
    BY <1>1, <1>2, <1>3, <2>1, <2>2 DEF Pipeline!Reply, Pipeline!InTurn, Pipeline!AfterReply,
       Pipeline!Enter, Pipeline!Assistant, Pipeline!queues, Pipeline!db, Pipeline!client, Asked, Answered
  <2> QED
    BY <2>3 DEF Pipeline!Turn
<1>5. CASE llm = "joining" /\ made = 0
  <2>1. /\ llm' = "replied" /\ role' = "assistant" /\ NoResponse' /\ TurnOver' /\ LlmPc' = "waited"
    BY <1>1, <1>5 DEF JoinWorker, NoResponse, TurnOver, LlmPc
  <2>2. TurnPc' = [TurnPc EXCEPT !["llm"] = "waited"]
    BY <1>2, <2>1 DEF TurnPc
  <2>3. Pipeline!EmptyReply("llm")
    BY <1>1, <1>2, <1>3, <1>5, <2>1, <2>2 DEF Pipeline!EmptyReply, Pipeline!AfterWait,
       Pipeline!Assistant, Pipeline!queues, Pipeline!db, Pipeline!client, Asked, Answered
  <2> QED
    BY <2>3 DEF Pipeline!Turn
<1>6. CASE llm = "waiting"
  <2>1. /\ llm' = "waited" /\ role' = "earlier" /\ NoResponse' /\ TurnOver' /\ LlmPc' = "waited"
    BY <1>1, <1>6 DEF JoinWorker, NoResponse, TurnOver, LlmPc
  <2>2. TurnPc' = [TurnPc EXCEPT !["llm"] = "waited"]
    BY <1>2, <2>1 DEF TurnPc
  <2>3. /\ Pipeline!Front(<<Asked>>) = <<>> /\ Pipeline!Last(<<Asked>>).role = "user"
        /\ <<Asked>> # <<>>
    BY DEF Pipeline!Front, Pipeline!Last, Asked
  <2>4. Pipeline!PopIf("user") = <<>>
    BY <1>1, <2>3 DEF Pipeline!PopIf, Pipeline!EndsWith
  <2>5. role' = "earlier" /\ llm' # "replied" /\ ~Spoken'
    BY <1>2, <1>6, <2>1
  <2>6. Pipeline!AfterWait("llm", <<>>)
    BY <1>1, <1>2, <2>1, <2>2, <2>5 DEF Pipeline!AfterWait
  <2>7. Pipeline!WaitSignal("llm")
    BY <1>1, <1>2, <1>3, <1>6, <2>1, <2>4, <2>6 DEF Pipeline!WaitSignal,
       Pipeline!queues, Pipeline!db, Pipeline!client
  <2> QED
    BY <2>7 DEF Pipeline!Turn
<1> QED
  BY <1>1, <1>4, <1>5, <1>6 DEF JoinWorker

\* The end of a turn with an exception, of the stream or of the worker.
LEMMA Raising ==
    ASSUME Running, llm' = "raised", UNCHANGED <<flag, role, shown>>
    PROVE  Pipeline!Turn("llm")
<1>1. /\ ~NoResponse /\ ~TurnOver /\ llm # "raised" /\ llm # "replied"
      /\ LlmPc = (IF Spoken THEN "speak" ELSE "gen") /\ (Spoken' <=> Spoken)
  BY RunningView DEF Spoken
<1>2. ~NoResponse' /\ TurnOver' /\ llm' # "replied" /\ LlmPc' = "none"
  BY DEF NoResponse, TurnOver, LlmPc
<1> DEFINE failed == [TurnPc EXCEPT !["consumer"] = "dead", !["llm"] = "none",
                                    !["reader"] = IF Pipeline!Alive("reader") THEN "dead" ELSE "done"]
<1>3. TurnPc["llm"] = (IF Spoken THEN "speak" ELSE "gen") /\ Pipeline!Alive("reader")
  BY <1>1 DEF TurnPc, Pipeline!Alive, Resting
<1>4. TurnPc' = [t \in Pipeline!Tasks |->
                   CASE t \in {"rx", "text", "monitor"} /\ failed[t] # "done" -> "dead"
                     [] t = "run" /\ failed[t] = "run" -> "finalize"
                     [] OTHER -> failed[t]]
  <2> DEFINE after == [t \in Pipeline!Tasks |->
                        CASE t \in {"rx", "text", "monitor"} /\ failed[t] # "done" -> "dead"
                          [] t = "run" /\ failed[t] = "run" -> "finalize"
                          [] OTHER -> failed[t]]
  <2>1. DOMAIN TurnPc = Pipeline!Tasks /\ DOMAIN failed = Pipeline!Tasks
    BY DEF TurnPc, Pipeline!Tasks
  <2>2. /\ TurnPc["rx"] = "recv" /\ TurnPc["text"] = "get" /\ TurnPc["monitor"] = "sleep"
        /\ TurnPc["run"] = "run"
    BY <1>1 DEF TurnPc, Resting
  <2>3. /\ failed["rx"] = "recv" /\ failed["text"] = "get" /\ failed["monitor"] = "sleep"
        /\ failed["run"] = "run" /\ failed["consumer"] = "dead" /\ failed["reader"] = "dead"
        /\ failed["llm"] = "none"
    BY <1>3, <2>1, <2>2 DEF Pipeline!Tasks
  <2> HIDE DEF failed
  <2>4. /\ after["rx"] = "dead" /\ after["text"] = "dead" /\ after["monitor"] = "dead"
        /\ after["run"] = "finalize" /\ after["consumer"] = "dead" /\ after["reader"] = "dead"
        /\ after["llm"] = "none"
    BY <2>3 DEF Pipeline!Tasks
  <2>5. \A t \in Pipeline!Tasks : after[t] = IF t = "llm" THEN "none" ELSE IF t = "run" THEN "finalize" ELSE "dead"
    BY <2>4 DEF Pipeline!Tasks
  <2>6. TurnPc' = [t \in Pipeline!Tasks |->
                     IF t = "llm" THEN "none" ELSE IF t = "run" THEN "finalize" ELSE "dead"]
    BY <1>2 DEF TurnPc, Pipeline!Tasks
  <2>7. after = [t \in Pipeline!Tasks |-> after[t]]
    OBVIOUS
  <2> HIDE DEF after
  <2>8. TurnPc' = after
    BY <2>5, <2>6, <2>7
  <2> QED
    BY <2>8 DEF after
<1>5. failed["llm"] = "none"
  BY DEF TurnPc
<1>6. Pipeline!ConsumerFails
  BY <1>1, <1>2, <1>4, <1>5 DEF Pipeline!ConsumerFails, Pipeline!EndRun
<1>7. Pipeline!TurnFails("llm")
  BY <1>1, <1>2, <1>3, <1>6 DEF Pipeline!TurnFails, Pipeline!InTurn, Pipeline!queues, Pipeline!carryVars,
     Pipeline!locals, Pipeline!db, Pipeline!client
<1> QED
  BY <1>7 DEF Pipeline!Turn

\* Nothing is shown of a [WAIT] turn, nor before the LLM has completed a sentence.
LEMMA NothingShown ==
    ASSUME SpokenInv, llm = "waiting" \/ made = 0
    PROVE  ~Spoken
<1>1. PICK t \in 0..made : Taken(t)
  BY DEF SpokenInv
<1>2. made = 0 /\ made \in Nat
  BY DEF SpokenInv, Phases, SpokenType
<1>3. Heard = {}
  BY <1>1, <1>2 DEF Taken, Readable
<1>4. Len(shown) \in Nat /\ DOMAIN shown = 1..Len(shown)
  BY LenProperties DEF SpokenInv, SpokenType
<1>5. 1 \notin DOMAIN shown
  BY <1>3 DEF Heard
<1> QED
  BY <1>4, <1>5, EmptySeq DEF SpokenInv, SpokenType, Spoken

\* A turn is, for the rest of the pipeline, what VoicePipeline takes it to be.
THEOREM TurnAsTaken == SpokenSpec => ImplementsTurn
<1>1. SpokenInv /\ Asking /\ [SpokenNext]_spokenVars
         => [ClientInterrupts \/ Pipeline!Turn("llm")]_<<Pipeline!vars>>
  <2> DEFINE Seen == ClientInterrupts \/ Pipeline!Turn("llm") \/ UNCHANGED Pipeline!vars
  <2> SUFFICES ASSUME SpokenInv, Asking, [SpokenNext]_spokenVars PROVE Seen
    OBVIOUS
  <2>0. Working => Running
    BY DEF SpokenInv, Phases, Running
  <2>1. CASE Token \/ WaitToken \/ StreamEnds
    <3>1. UNCHANGED <<flag, role, shown>> /\ Running /\ Running'
      BY <2>1 DEF Token, WaitToken, StreamEnds, Running
    <3> QED
      BY <3>1, Unseen DEF Spoken
  <2>2. CASE TurnRaises
    BY <2>2, Raising DEF TurnRaises, Running
  <2>3. CASE JoinWorker
    <3>1. CASE worker = "done"
      BY <2>3, <3>1, Joining, NothingShown
    <3>2. CASE worker # "done"
      BY <2>3, <3>2, Raising DEF JoinWorker, Running
    <3> QED
      BY <3>1, <3>2
  <2>4. CASE ClientInterrupts
    BY <2>4
  <2>5. CASE SendChunk \/ VoiceFails \/ SendFails \/ SentenceEnds
    <3>1. UNCHANGED <<flag, role, shown, llm, made>>
      BY <2>5 DEF SendChunk, VoiceFails, SendFails, SentenceEnds
    <3> QED
      BY <3>1, Unseen DEF Spoken
  <2>6. CASE TakeSentence
    <3>1. UNCHANGED <<flag, role, llm, made>> /\ Running
      BY <2>0, <2>6 DEF TakeSentence, Working
    <3>2. shown' = shown \/ (~flag /\ Spoken')
      <4>1. ASSUME NEW n \in Nat, shown' = Append(shown, n) PROVE shown' # <<>>
        <5>1. Len(shown') = Len(shown) + 1 /\ Len(shown) \in Nat
          BY <4>1, AppendProperties, LenProperties DEF SpokenInv, SpokenType
        <5>2. Len(shown') # 0
          BY <5>1
        <5> QED
          BY <5>2, EmptySeq
      <4>2. Head(ttsQueue) \in Nat
        BY <2>6, HeadTailProperties DEF TakeSentence, SpokenInv, SpokenType
      <4> QED
        BY <2>6, <4>1, <4>2 DEF TakeSentence, Spoken
    <3> QED
      BY <3>1, <3>2, Unseen, FirstSentence DEF Spoken
  <2>7. CASE UNCHANGED spokenVars
    BY <2>7, Unseen DEF spokenVars, Spoken
  <2> QED
    BY <2>1, <2>2, <2>3, <2>4, <2>5, <2>6, <2>7 DEF SpokenNext, WorkerStep, LlmStep
<1> QED
  BY <1>1, SpokenAlways, AskingAlways, PTL DEF SpokenSpec, ImplementsTurn

================================================================================
