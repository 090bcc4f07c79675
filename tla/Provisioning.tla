----------------------------- MODULE Provisioning -----------------------------
(***************************************************************************)
(* Building the database: `alembic upgrade` and `alembic downgrade`, each  *)
(* one transaction except for the index that revision 018 builds outside   *)
(* of it, and the script that seeds the question bank.  Commands run one   *)
(* after the other; any of them may be cut off.                            *)
(***************************************************************************)
EXTENDS Naturals, Sequences, Schema

CONSTANTS MaxMoves,       \* bounds the commands
          SeedThreshold   \* "Skips if >100 questions already exist"

VARIABLES
    revision,   \* alembic_version
    objects,    \* tables and columns
    ftsIndex,   \* ix_stories_fts: none, invalid after an interrupted build, valid
    bank,       \* rows of questions: origin -> type -> number
    scriptRows, \* the texts of the script that the bank has: all or none
    moves,
    untouched   \* history: no downgrade, no interrupted index build

provVars == <<revision, objects, ftsIndex, bank, scriptRows, moves, untouched>>

(* A question comes from a release or from the script. *)
Script == 0
Origins == Releases \cup {Script}

NoQuestions == [t \in QuestionTypes |-> 0]
Plus(b, c) == [t \in QuestionTypes |-> b[t] + c[t]]
Rows(b) == b["behavioral"] + b["system_design"] + b["coding_discussion"] + b["negotiation"]
           + b["diagnostic"]
Size(b) == Rows(b[9]) + Rows(b[10]) + Rows(b[13]) + Rows(b[Script])

(* seed_questions.QUESTIONS *)
BehavioralSeeds == Batch("behavioral", 60)
DesignSeeds == Batch("system_design", 50)
CodingSeeds == Batch("coding_discussion", 40)
NegotiationSeeds == Batch("negotiation", 30)
DiagnosticSeeds == Batch("diagnostic", 25)
Seeds == [t \in QuestionTypes |-> BehavioralSeeds[t] + DesignSeeds[t] + CodingSeeds[t]
                                  + NegotiationSeeds[t] + DiagnosticSeeds[t]]

(* The columns that the INSERT of models.question.Question names. *)
QuestionModel == {<<"questions", c>> : c \in {"company", "submitted_by", "status", "upvotes"}}

ProvInit ==
    /\ revision = 0 /\ objects = {} /\ ftsIndex = "none"
    /\ bank = [o \in Origins |-> NoQuestions] /\ scriptRows = FALSE
    /\ moves = 0 /\ untouched = TRUE

-------------------------------------------------------------------------------
(* What PostgreSQL refuses: to create an object twice or in a missing table or with a
   foreign key to one, and to drop a missing object or a table others refer to. *)
MayCreate(had, o) ==
    /\ o \notin had
    /\ Len(o) = 2 => <<o[1]>> \in had
    /\ Len(o) = 1 => \A ref \in References :
           ref.from = o[1] /\ <<"questions">> # o => <<ref.to>> \in had

MayDrop(had, o) ==
    /\ o \in had
    /\ Len(o) = 1 => \A ref \in References :
           ref.to = o[1] /\ ref.from # o[1] => <<ref.from>> \notin had

(* A sequence of CREATEs and one of DROPs, and whether PostgreSQL takes them all. *)
Created(had, ops) == had \cup {ops[i] : i \in DOMAIN ops}
Dropped(had, ops) ==
    {o \in had : \A i \in DOMAIN ops : o # ops[i] /\ <<o[1]>> # ops[i]}
Before(ops, i) == SubSeq(ops, 1, i - 1)
CreatesRun(had, ops) == \A i \in DOMAIN ops : MayCreate(Created(had, Before(ops, i)), ops[i])
DropsRun(had, ops) == \A i \in DOMAIN ops : MayDrop(Dropped(had, Before(ops, i)), ops[i])

Move == moves < MaxMoves /\ moves' = moves + 1

-------------------------------------------------------------------------------
(* `alembic upgrade <to>` commits all revisions or, if it fails or is cut off, none; on the
   way to 018 it commits up to 017 first. *)

UpgradeTo(to) ==
    LET built(r) == objects \cup UNION {Created({}, Revisions[k].up) : k \in (revision + 1)..r}
    IN /\ Move
       /\ revision < to /\ to < Latest
       /\ \A r \in (revision + 1)..to : CreatesRun(built(r - 1), Revisions[r].up)
       /\ revision' = to
       /\ objects' = built(to)
       /\ bank' = [o \in Origins |-> IF o \in (Releases \cap (revision + 1)..to)
                                      THEN Plus(bank[o], Inserts(o)) ELSE bank[o]]
       /\ UNCHANGED <<ftsIndex, scriptRows, untouched>>

(* CREATE INDEX CONCURRENTLY IF NOT EXISTS, in an autocommit block; then 018 is stamped. *)
BuildIndex ==
    /\ Move
    /\ revision = Latest - 1
    /\ \/ ftsIndex' = "invalid" /\ ftsIndex = "none" /\ untouched' = FALSE    \* cut off
       \/ ftsIndex' = (IF ftsIndex = "none" THEN "valid" ELSE ftsIndex) /\ UNCHANGED untouched
    /\ UNCHANGED <<revision, objects, bank, scriptRows>>

StampLatest ==
    /\ Move
    /\ revision = Latest - 1 /\ ftsIndex # "none"
    /\ revision' = Latest
    /\ UNCHANGED <<objects, ftsIndex, bank, scriptRows, untouched>>

\* mutant: the downgrade of 010 removes the questions of its types, whoever inserted them
Downgrade_RemovesTypes ==
    LET down == Revisions[revision].down IN
    /\ Move
    /\ revision > 0
    /\ DropsRun(objects, down)
    /\ objects' = Dropped(objects, down)
    /\ revision' = revision - 1
    /\ ftsIndex' = IF revision \in {2, Latest} THEN "none" ELSE ftsIndex
    /\ IF <<"questions">> \in objects'
       THEN /\ bank' = IF revision # 10 THEN bank
                       ELSE [o \in Origins |-> [bank[o] EXCEPT !["coding_discussion"] = 0]]
            /\ UNCHANGED scriptRows
       ELSE bank' = [o \in Origins |-> NoQuestions] /\ scriptRows' = FALSE
    /\ untouched' = FALSE

(* `alembic downgrade -1`.  The revisions that insert questions leave them. *)
Downgrade ==
    LET down == Revisions[revision].down IN
    /\ Move
    /\ revision > 0
    /\ DropsRun(objects, down)
    /\ objects' = Dropped(objects, down)
    /\ revision' = revision - 1
    /\ ftsIndex' = IF revision \in {2, Latest} THEN "none" ELSE ftsIndex
    /\ IF <<"questions">> \in objects'
       THEN UNCHANGED <<bank, scriptRows>>
       ELSE bank' = [o \in Origins |-> NoQuestions] /\ scriptRows' = FALSE
    /\ untouched' = FALSE

(* scripts.seed_questions.seed: the count, the texts that exist, one commit. *)
SeedQuestions ==
    /\ Move
    /\ <<"questions">> \in objects
    /\ \/ /\ Size(bank) > SeedThreshold
          /\ UNCHANGED <<bank, scriptRows>>
       \/ /\ Size(bank) <= SeedThreshold
          /\ QuestionModel \subseteq objects      \* else the INSERT fails
          /\ bank' = IF scriptRows THEN bank
                     ELSE [bank EXCEPT ![Script] = Plus(bank[Script], Seeds)]
          /\ scriptRows' = TRUE
    /\ UNCHANGED <<revision, objects, ftsIndex, untouched>>

ProvNext ==
    \/ \E to \in 1..Latest : UpgradeTo(to)
    \/ BuildIndex \/ StampLatest
    \/ Downgrade
    \/ SeedQuestions

ProvSpec == ProvInit /\ [][ProvNext]_provVars

-------------------------------------------------------------------------------
(* Every migration can run from where the one before it ended, in both directions: an
   upgrade finds nothing it creates and all it refers to, a downgrade drops no table that
   another one refers to and leaves what the upgrade found. *)
MigrationsRun ==
    /\ objects = UNION {Created({}, Revisions[r].up) : r \in 1..revision}
    /\ revision < Latest => CreatesRun(objects, Revisions[revision + 1].up)
    /\ revision > 0 => DropsRun(objects, Revisions[revision].down)

(* And what releases are built on stands.  A database only ever upgraded has the questions of the
   releases up to its revision, each once and no others, and at the end a usable full-text index.
   In whatever order commands run and are cut off, every question of those releases is there, of
   each origin and type: a downgrade leaves them, so that they may be there more than once. *)
BankAsReleased ==
    /\ MigrationsRun
    /\ untouched =>
          /\ revision = Latest => ftsIndex = "valid"
          /\ bank = [o \in Origins |-> IF o \in Releases /\ o <= revision
                                       THEN Inserts(o) ELSE NoQuestions]
    /\ \A o \in Releases, t \in QuestionTypes : o <= revision => bank[o][t] >= Inserts(o)[t]
===============================================================================
