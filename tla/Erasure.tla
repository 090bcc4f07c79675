-------------------------------- MODULE Erasure --------------------------------
(***************************************************************************)
(* Who deletes rows, and what the foreign keys of Schema make of it:       *)
(* settings.delete_account (one transaction of nine statements),           *)
(* sessions.delete_session and scripts.seed_demo (through the ORM), while  *)
(* other requests of the same user commit new rows.  A table has one row   *)
(* per user, <<table, user>>; it refers to that user's rows.               *)
(***************************************************************************)
EXTENDS Naturals, FiniteSets, Sequences, Schema

CONSTANTS Accounts,     \* users that exist at the start
          Demos,        \* successive demo users of seed_demo
          Nobody,
          MaxInserts    \* bounds the rows that other requests insert

ASSUME ErasureAssumption ==
    /\ Accounts \cap Demos = {} /\ Nobody \notin Demos
    /\ MaxInserts \in Nat

VARIABLES
    rows,       \* the rows that exist
    cleared,    \* foreign keys set to NULL: pairs of a row and a table
    erase,      \* user -> statements of delete_account done; its undo log
    demo,       \* the user who has the demo address
    gone,       \* history: users whose deletion has committed, and how
    inserts,    \* rows inserted so far
    late,       \* history: users with a usage row written after that statement of theirs
    ended       \* history: users that deleted their session themselves

eraseVars == <<rows, cleared, erase, demo, gone, inserts, late, ended>>

Owners == Accounts \cup Demos
Tables == {ref.from : ref \in References} \cup {ref.to : ref \in References}
RowsOf(u) == Tables \X {u}

NotErasing == [at |-> 0, removed |-> {}, before |-> {}]

EraseInit ==
    /\ rows = UNION {RowsOf(u) : u \in Accounts}
    /\ cleared = {}
    /\ erase = [u \in Accounts |-> NotErasing]
    /\ demo = Nobody
    /\ gone = [u \in Owners |-> "no"]
    /\ inserts = 0
    /\ late = {}
    /\ ended = {}

-------------------------------------------------------------------------------
(* What PostgreSQL does with a DELETE: rows that refer to the deleted one by a CASCADE key go
   with it, the SET NULL keys of the others lose their value.  (No CASCADE key is
   nullable, so which tables a deletion reaches is fixed: two steps reach all.) *)

Referring(tables, onDelete) ==
    {ref.from : ref \in {r \in References : r.to \in tables /\ r.onDelete = onDelete}}

WithDependents(tables) == tables \cup Referring(tables, "CASCADE")

Removed == [t \in Tables |-> WithDependents(WithDependents({t}))]

(* The SET NULL keys into the removed tables, of the tables that stay. *)
Cleared == [t \in Tables |->
    {<<ref.from, ref.to>> : ref \in {r \in References : /\ r.onDelete = "SET_NULL"
                                                       /\ r.to \in Removed[t]
                                                       /\ r.from \notin Removed[t]}}]

Delete(table, u) ==
    IF <<table, u>> \in rows
    THEN /\ rows' = {row \in rows : row[2] # u \/ row[1] \notin Removed[table]}
         /\ cleared' = {p \in cleared : p[1][2] # u \/ p[1][1] \notin Removed[table]}
                \cup {<<<<k[1], u>>, k[2]>> : k \in {j \in Cleared[table] : <<j[1], u>> \in rows}}
    ELSE UNCHANGED <<rows, cleared>>

-------------------------------------------------------------------------------
(* delete_account: the order of its statements. *)

\* mutant: the usage rows are left to their foreign key
Statements_NoUsage == <<"transcript_words", "segment_scores", "session_metrics", "sessions",
                        "skill_graph", "stories", "users">>

Statements == <<"transcript_words", "segment_scores", "session_metrics", "sessions",
                "skill_graph", "stories", "usage_logs", "users">>

(* usage_logs are deleted by their user, which an earlier deletion may have cleared. *)
DeleteStatement(u) ==
    LET table == Statements[erase[u].at + 1] IN
    /\ erase[u].at < Len(Statements)
    /\ <<"users", u>> \in rows
    /\ Delete(table, u)
    /\ erase' = [erase EXCEPT ![u] =
           [at |-> @.at + 1, removed |-> @.removed \cup (rows \ rows'),
            before |-> IF @.at = 0 THEN cleared ELSE @.before]]
    /\ UNCHANGED <<demo, gone, inserts, late, ended>>

EraseCommits(u) ==
    /\ erase[u].at = Len(Statements) /\ gone[u] = "no"
    /\ gone' = [gone EXCEPT ![u] = "erased"]
    /\ erase' = [erase EXCEPT ![u] = [NotErasing EXCEPT !.at = Len(Statements)]]
    /\ UNCHANGED <<rows, cleared, demo, inserts, late, ended>>

(* A statement or the commit fails: the transaction is rolled back. *)
EraseFails(u) ==
    /\ erase[u].at > 0 /\ gone[u] = "no"
    /\ rows' = rows \cup erase[u].removed
    /\ cleared' = {p \in cleared : p[1][2] # u} \cup {p \in erase[u].before : p[1][2] = u}
    /\ erase' = [erase EXCEPT ![u] = NotErasing]
    /\ late' = late \ {u}
    /\ UNCHANGED <<demo, gone, inserts, ended>>

-------------------------------------------------------------------------------
(* Another request of the user inserts a row; a foreign key needs its target: of one that
   an open transaction has deleted, the INSERT waits and then fails.  A usage row need not
   have a session, nor a story. *)
InsertRow(row) ==
    LET targets == {ref.to : ref \in {r \in References : r.from = row[1]}}
        missing == {t \in targets : <<t, row[2]>> \notin rows}
    IN /\ inserts < MaxInserts /\ inserts' = inserts + 1
       /\ row[1] # "users" /\ row \notin rows
       /\ missing \subseteq (IF row[1] \in {"usage_logs", "stories"} THEN {"sessions"} ELSE {})
       /\ rows' = rows \cup {row}
       /\ cleared' = cleared \cup {<<row, t>> : t \in missing}
       /\ late' = IF /\ row[1] = "usage_logs" /\ row[2] \in Accounts
                     /\ erase[row[2]].at >= 7
                  THEN late \cup {row[2]} ELSE late
       /\ UNCHANGED <<erase, demo, gone, ended>>

(* sessions.delete_session, of a session that is not active. *)
DeleteSession(u) ==
    /\ <<"sessions", u>> \in rows
    /\ u \in Accounts => erase[u].at = 0
    /\ Delete("sessions", u)
    /\ ended' = ended \cup {u}
    /\ UNCHANGED <<erase, demo, gone, inserts, late>>

-------------------------------------------------------------------------------
(* seed_demo: the ORM deletes the user that has the address, and commits; then all rows of
   the new one are added and committed.  A run may be cut off in between. *)

DemoRows(u) == {"users", "sessions", "segment_scores", "session_metrics", "usage_logs",
                "skill_graph", "stories"} \X {u}

DeleteDemo ==
    /\ demo # Nobody
    /\ Delete("users", demo)
    /\ demo' = Nobody
    /\ gone' = [gone EXCEPT ![demo] = "replaced"]
    /\ UNCHANGED <<erase, inserts, late, ended>>

CreateDemo(u) ==
    /\ demo = Nobody /\ gone[u] = "no"
    /\ rows' = rows \cup DemoRows(u)
    /\ demo' = u
    /\ UNCHANGED <<cleared, erase, gone, inserts, late, ended>>

-------------------------------------------------------------------------------
EraseNext ==
    \/ \E u \in Accounts : DeleteStatement(u) \/ EraseCommits(u) \/ EraseFails(u)
    \/ \E row \in Tables \X Owners : InsertRow(row)
    \/ \E u \in Owners : DeleteSession(u)
    \/ DeleteDemo
    \/ \E u \in Demos : CreateDemo(u)

EraseSpec == EraseInit /\ [][EraseNext]_eraseVars

-------------------------------------------------------------------------------
(* "Permanently delete the authenticated user and all associated data (GDPR erasure)": once
   it has committed, all that is left of the user is contributed questions and usage
   rows written during the deletion, and neither names the user.  The ORM's deletion of the
   demo user also leaves every usage row.  No row ever refers to a missing one, and a
   user who is not deleted loses only what deleting a session takes. *)
NothingLeft ==
    /\ \A u \in Owners : gone[u] # "no" =>
          /\ \A row \in rows : row[2] = u =>
                /\ row[1] \in {"questions", "usage_logs"}
                /\ <<row, "users">> \in cleared
          /\ <<"usage_logs", u>> \in rows => gone[u] = "replaced" \/ u \in late
    /\ \A ref \in References, u \in Owners :
          <<ref.from, u>> \in rows =>
             <<ref.to, u>> \in rows \/ <<<<ref.from, u>>, ref.to>> \in cleared
    /\ \A u \in Accounts : gone[u] = "no" /\ erase[u].at = 0 =>
          \A table \in Tables :
             \/ <<table, u>> \in rows
             \/ /\ u \in ended
                /\ table \in {"sessions", "segment_scores", "session_metrics", "transcript_words"}
================================================================================
