-------------------------------- MODULE Schema --------------------------------
(***************************************************************************)
(* The database as the Alembic revisions build it (alembic/versions): for  *)
(* each revision the tables and columns its upgrade creates and its        *)
(* downgrade drops, in their order, the foreign keys it declares, and the  *)
(* questions it inserts - of which only the type and the number matter.    *)
(* A table is <<name>>, a column <<table, name>>; onDelete is CASCADE or   *)
(* SET_NULL.                                                               *)
(***************************************************************************)
EXTENDS Naturals, Sequences

Ref(from, to, onDelete) == [from |-> from, to |-> to, onDelete |-> onDelete]

QuestionTypes == {"behavioral", "system_design", "coding_discussion", "negotiation", "diagnostic"}

(* n questions of one type. *)
Batch(type, n) == [t \in QuestionTypes |-> IF t = type THEN n ELSE 0]

-------------------------------------------------------------------------------
(* 001_initial_schema *)
UserTables == [up |-> << <<"users">>, <<"sessions">> >>,
               refs |-> {Ref("sessions", "users", "CASCADE")}]
AnswerTables == [up |-> << <<"segment_scores">>, <<"transcript_words">> >>,
                 refs |-> {Ref("segment_scores", "sessions", "CASCADE"),
                           Ref("transcript_words", "sessions", "CASCADE")}]
LearningTables == [up |-> << <<"skill_graph">>, <<"questions">> >>,
                   refs |-> {Ref("skill_graph", "users", "CASCADE")}]
AccountingTables == [up |-> << <<"session_metrics">>, <<"usage_logs">> >>,
                     refs |-> {Ref("session_metrics", "sessions", "CASCADE"),
                               Ref("usage_logs", "sessions", "SET_NULL"),
                               Ref("usage_logs", "users", "SET_NULL")}]
InitialDown == << <<"usage_logs">>, <<"session_metrics">>, <<"questions">>, <<"skill_graph">>,
                  <<"transcript_words">>, <<"segment_scores">>, <<"sessions">>, <<"users">> >>

(* 002_add_stories_table ... 008_add_focus_skill *)
StoriesTable == [up |-> << <<"stories">> >>, down |-> << <<"stories">> >>,
                 refs |-> {Ref("stories", "users", "CASCADE"),
                           Ref("stories", "sessions", "SET_NULL")}]
UserProfile == [up |-> << <<"users", "profile">>, <<"users", "resume_text">> >>,
                down |-> << <<"users", "resume_text">>, <<"users", "profile">> >>, refs |-> {}]
Column(table, name) ==
    [up |-> << <<table, name>> >>, down |-> << <<table, name>> >>, refs |-> {}]
VoiceId == Column("sessions", "voice_id")
Persona == Column("sessions", "persona")
Company == Column("sessions", "company")
ByokKeys == Column("users", "byok_keys")
FocusSkill == Column("sessions", "focus_skill")

(* 009_add_company_to_questions: a column, and 46 questions that no downgrade removes. *)
QuestionCompany == Column("questions", "company")
BigTechQuestions == [Batch("behavioral", 19) EXCEPT !["system_design"] = 7]
OtherCompanyQuestions ==
    [Batch("behavioral", 12) EXCEPT !["system_design"] = 7, !["coding_discussion"] = 1]

(* 010_expand_question_bank *)
RowsOnly == [up |-> <<>>, down |-> <<>>, refs |-> {}]
CodingQuestions010 == Batch("coding_discussion", 29)
DesignQuestions010 == Batch("system_design", 15)
BehavioralExtra010 == Batch("behavioral", 14)

(* 011_share_cards, 012_user_contributed_questions *)
ShareCards == [up |-> << <<"share_cards">> >>, down |-> << <<"share_cards">> >>,
               refs |-> {Ref("share_cards", "users", "CASCADE")}]
\* mutant: the downgrade forgets the table of votes
Contributions_KeepsVotes ==
    [up |-> << <<"questions", "submitted_by">>, <<"questions", "status">>,
               <<"questions", "upvotes">>, <<"question_upvotes">> >>,
     down |-> << <<"questions", "upvotes">>, <<"questions", "status">>,
                 <<"questions", "submitted_by">> >>,
     refs |-> {Ref("questions", "users", "SET_NULL"),
               Ref("question_upvotes", "questions", "CASCADE"),
               Ref("question_upvotes", "users", "CASCADE")}]

Contributions ==
    [up |-> << <<"questions", "submitted_by">>, <<"questions", "status">>,
               <<"questions", "upvotes">>, <<"question_upvotes">> >>,
     down |-> << <<"question_upvotes">>, <<"questions", "upvotes">>,
                 <<"questions", "status">>, <<"questions", "submitted_by">> >>,
     refs |-> {Ref("questions", "users", "SET_NULL"),
               Ref("question_upvotes", "questions", "CASCADE"),
               Ref("question_upvotes", "users", "CASCADE")}]

(* 013_more_questions *)
TechLeadership == Batch("behavioral", 10)
Execution == Batch("behavioral", 10)
CrossTeam == Batch("behavioral", 10)
FailureRecovery == Batch("behavioral", 10)
Conflict == Batch("behavioral", 10)
Coding013 == Batch("coding_discussion", 30)
MlDs == Batch("coding_discussion", 20)

(* 014_add_user_memories ... 018_stories_fts_index *)
UserMemories == [up |-> << <<"user_memories">> >>, down |-> << <<"user_memories">> >>,
                 refs |-> {Ref("user_memories", "users", "CASCADE")}]
BatchJobId == Column("user_memories", "batch_job_id")
DurationLimit == Column("sessions", "duration_limit_minutes")
CompanyIntel == [up |-> << <<"company_intel">> >>, down |-> << <<"company_intel">> >>,
                 refs |-> {Ref("company_intel", "users", "CASCADE")}]

-------------------------------------------------------------------------------
InitialSchema ==
    [up |-> UserTables.up \o AnswerTables.up \o LearningTables.up \o AccountingTables.up,
     down |-> InitialDown,
     refs |-> UserTables.refs \cup AnswerTables.refs \cup LearningTables.refs
                  \cup AccountingTables.refs]

(* The chain of down_revisions; 018 only builds the full-text index of stories. *)
Revisions == <<InitialSchema, StoriesTable, UserProfile, VoiceId, Persona, Company, ByokKeys,
               FocusSkill, QuestionCompany, RowsOnly, ShareCards, Contributions, RowsOnly,
               UserMemories, BatchJobId, DurationLimit, CompanyIntel, RowsOnly>>

Latest == Len(Revisions)

References == UNION {Revisions[r].refs : r \in 1..Latest}

(* The revisions that insert questions, and what each inserts.  The ids are new at every run, so
   ON CONFLICT (id) never applies. *)
Releases == {9, 10, 13}

Inserts(r) == [t \in QuestionTypes |->
    CASE r = 9 -> BigTechQuestions[t] + OtherCompanyQuestions[t]
      [] r = 10 -> CodingQuestions010[t] + DesignQuestions010[t] + BehavioralExtra010[t]
      [] r = 13 -> TechLeadership[t] + Execution[t] + CrossTeam[t] + FailureRecovery[t]
                       + Conflict[t] + Coding013[t] + MlDs[t]]
=============================================================================
