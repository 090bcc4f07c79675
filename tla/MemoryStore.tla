------------------------------ MODULE MemoryStore ------------------------------
(***************************************************************************)
(* The cross-session memory of one user: the user_memories row, its copy   *)
(* in Redis, and the Anthropic Batch jobs that consolidate it.             *)
(*                                                                         *)
(* build_memory (services/memory/builder.py) runs in the background after  *)
(* a session is scored; load_memory_context (services/memory/loader.py)    *)
(* runs when a voice session starts; reset_memory (api/v1/settings.py) is  *)
(* the user's request to forget.  Each gives way at every await and has    *)
(* database objects of its own; a build is given the scoring request's     *)
(* AsyncSession, which get_db closes while the build extracts, so that     *)
(* what follows begins a transaction of the build's own.  A document is    *)
(* the set of the builds merged into it; the model keeps a document        *)
(* through a consolidation, as its prompt asks for.                        *)
(***************************************************************************)
EXTENDS Naturals, FiniteSets

CONSTANTS
    Builds,        \* scored sessions, each with one build_memory
    Loads,         \* websockets that load the memory, one session after the other
    Threshold,     \* _CONSOLIDATION_THRESHOLD
    BatchResults,  \* how a batch may end: "succeeded", "failed", "unreadable"
    MayReset,      \* may the user reset the memory?
    MayCrash,      \* may the server, the database or Redis fail?
    Serial,        \* does every operation wait for the one before it?
    None           \* no row, no key, no job

Doc == SUBSET Builds

\* A row of user_memories: its identity, memory_document,
\* sessions_since_consolidation and batch_job_id (the build that submitted it).
Row == [id : Builds, doc : Doc, since : Nat, job : Builds \cup {None}]

Batch == [state : {"running", "succeeded", "failed", "unreadable"}, doc : Doc]

ASSUME MemoryStoreAssumption ==
    /\ Threshold \in Nat \ {0}
    /\ BatchResults \subseteq {"succeeded", "failed", "unreadable"}
    /\ MayReset \in BOOLEAN /\ MayCrash \in BOOLEAN /\ Serial \in BOOLEAN
    /\ None \notin Builds /\ None \notin Row /\ None \notin Batch
    /\ \A doc \in Doc : doc # None

VARIABLES
    row,        \* the user's committed row of user_memories
    cache,      \* the Redis key memory:<user>: None, or a block ({} is "__NONE__")
    sentinels,  \* loads whose _cache_miss task has not written "__NONE__" yet
    bpc,        \* where each build is
    mine,       \* the UserMemory object of each build
    batch,      \* the Batch API's job submitted by each build
    dealt,      \* history: jobs whose result a load has applied or dropped
    lpc,        \* where each load is
    seen,       \* the UserMemory object of each load
    context,    \* what the latest load put into the prompt
    reset,      \* where reset_memory is
    owed,       \* history: builds that returned True since the last reset
    wiped,      \* history: builds whose document a reset has deleted
    due         \* history: owed and wiped when the load started

build == <<bpc, mine>>
jobs == <<batch, dealt>>
load == <<lpc, seen, context, due>>
history == <<owed, wiped>>
vars == <<row, cache, sentinels, build, jobs, load, reset, history>>

Init ==
    /\ row = None
    /\ cache = None
    /\ sentinels = {}
    /\ bpc = [b \in Builds |-> "idle"]
    /\ mine = [b \in Builds |-> None]
    /\ batch = [b \in Builds |-> None]
    /\ dealt = {}
    /\ lpc = [l \in Loads |-> "done"]
    /\ seen = [l \in Loads |-> None]
    /\ context = [l \in Loads |-> {}]
    /\ reset = "idle"
    /\ owed = {}
    /\ wiped = {}
    /\ due = [l \in Loads |-> [owed |-> {}, wiped |-> {}]]

Ended == {"idle", "built", "failed"}

Quiet ==
    /\ \A b \in Builds : bpc[b] \in Ended
    /\ \A l \in Loads : lpc[l] = "done"
    /\ sentinels = {}
    /\ reset \in {"idle", "done"}

MayStart == Serial => Quiet

\* The row that an ORM object was loaded from is still there: an UPDATE finds
\* it by primary key, and raises StaleDataError if it does not.
StillThere(object) == row # None /\ object # None /\ row.id = object.id

\* Redis DEL; its failure is logged and swallowed.
Invalidate == cache' = None \/ (MayCrash /\ UNCHANGED cache)

-----------------------------------------------------------------------------
(* build_memory *)

Goto(b, place) == bpc' = [bpc EXCEPT ![b] = place]

\* score_session has committed and creates the task.
StartBuild(b) ==
    /\ bpc[b] = "idle" /\ MayStart
    /\ Goto(b, "extract")
    /\ UNCHANGED <<row, cache, sentinels, mine, jobs, load, reset, history>>

\* The segments are read and the LLM extracts from them, in at most three
\* attempts.  It fails, too, when the request closes the database session in
\* the middle of that first query.
Extract(b) ==
    /\ bpc[b] = "extract"
    /\ Goto(b, "read") \/ Goto(b, "failed")
    /\ UNCHANGED <<row, cache, sentinels, mine, jobs, load, reset, history>>

\* The SELECT of _merge_extraction.
Read(b) ==
    /\ bpc[b] = "read"
    /\ Goto(b, "merge")
    /\ mine' = [mine EXCEPT ![b] = row]
    /\ UNCHANGED <<row, cache, sentinels, jobs, load, reset, history>>

\* mutant: an upsert by user_id instead of an UPDATE by primary key
MergeCommit_Upsert(b) ==
    /\ bpc[b] = "merge"
    /\ \/ /\ mine[b] = None /\ row = None
          /\ row' = [id |-> b, doc |-> {b}, since |-> 1, job |-> None]
       \/ /\ mine[b] # None
          /\ row' = [id |-> IF row = None THEN b ELSE row.id, doc |-> mine[b].doc \cup {b},
                     since |-> mine[b].since + 1, job |-> None]
    /\ Goto(b, "clear")
    /\ UNCHANGED <<cache, sentinels, mine, jobs, load, reset, history>>

\* The INSERT, or the UPDATE of the changed columns, with its commit: the new
\* values are computed from the object read before.
MergeCommit(b) ==
    /\ bpc[b] = "merge"
    /\ \/ /\ mine[b] = None /\ row = None
          /\ row' = [id |-> b, doc |-> {b}, since |-> 1, job |-> None]
       \/ /\ StillThere(mine[b])
          /\ row' = [row EXCEPT !.doc = mine[b].doc \cup {b}, !.since = mine[b].since + 1]
    /\ Goto(b, "clear")
    /\ UNCHANGED <<cache, sentinels, mine, jobs, load, reset, history>>

\* user_id is unique, the row is gone, or the database failed: merge_failed.
MergeFails(b) ==
    /\ bpc[b] = "merge"
    /\ MayCrash \/ IF mine[b] = None THEN row # None ELSE ~StillThere(mine[b])
    /\ Goto(b, "failed")
    /\ UNCHANGED <<row, cache, sentinels, mine, jobs, load, reset, history>>

\* mutant: the key is not deleted
InvalidateCache_Not(b) ==
    /\ bpc[b] = "clear"
    /\ Goto(b, "check")
    /\ UNCHANGED <<row, cache, sentinels, mine, jobs, load, reset, history>>

InvalidateCache(b) ==
    /\ bpc[b] = "clear"
    /\ Invalidate
    /\ Goto(b, "check")
    /\ UNCHANGED <<row, sentinels, mine, jobs, load, reset, history>>

Return(b) == Goto(b, "built") /\ owed' = owed \cup {b}

\* mutant: the counter is not looked at
Due_Always(memory) == memory # None /\ memory.job = None

\* A memory object due for consolidation.
Due(memory) == memory # None /\ memory.since >= Threshold /\ memory.job = None

\* Step 7: the row is loaded again and consolidate_memory is called; its own
\* SELECT returns the same object.
CheckThreshold(b) ==
    /\ bpc[b] = "check"
    /\ IF Due(row)
       THEN /\ Goto(b, "submit") /\ mine' = [mine EXCEPT ![b] = row]
            /\ UNCHANGED owed
       ELSE Return(b) /\ UNCHANGED mine
    /\ UNCHANGED <<row, cache, sentinels, jobs, load, reset, wiped>>

SubmitBatch(b) ==
    /\ bpc[b] = "submit"
    /\ \/ /\ batch' = [batch EXCEPT ![b] = [state |-> "running", doc |-> mine[b].doc]]
          /\ Goto(b, "store") /\ UNCHANGED owed
       \/ MayCrash /\ Return(b) /\ UNCHANGED batch
    /\ UNCHANGED <<row, cache, sentinels, mine, dealt, load, reset, wiped>>

\* mutant: batch_job_id is set and not committed
StoreJob_Uncommitted(b) ==
    /\ bpc[b] = "store"
    /\ Return(b)
    /\ UNCHANGED <<row, cache, sentinels, mine, jobs, load, reset, wiped>>

\* batch_job_id is committed; a row that is gone makes the UPDATE fail, which
\* is logged.
StoreJob(b) ==
    /\ bpc[b] = "store"
    /\ IF StillThere(mine[b]) THEN row' = [row EXCEPT !.job = b] ELSE UNCHANGED row
    /\ Return(b)
    /\ UNCHANGED <<cache, sentinels, mine, jobs, load, reset, wiped>>

\* The server stops, and the task with it.
CrashBuild(b) ==
    /\ MayCrash /\ bpc[b] \notin Ended
    /\ Goto(b, "failed")
    /\ UNCHANGED <<row, cache, sentinels, mine, jobs, load, reset, history>>

BatchEnds(b) ==
    /\ batch[b] # None /\ batch[b].state = "running"
    /\ \E result \in BatchResults : batch' = [batch EXCEPT ![b].state = result]
    /\ UNCHANGED <<row, cache, sentinels, build, dealt, load, reset, history>>

-----------------------------------------------------------------------------
(* load_memory_context *)

LoadAt(l, place) == lpc' = [lpc EXCEPT ![l] = place]

StartLoad(l) ==
    /\ lpc[l] = "done" /\ MayStart
    /\ LoadAt(l, "get")
    /\ seen' = [seen EXCEPT ![l] = None]
    /\ context' = [context EXCEPT ![l] = {}]
    /\ due' = [due EXCEPT ![l] = [owed |-> owed, wiped |-> wiped]]
    /\ UNCHANGED <<row, cache, sentinels, build, jobs, reset, history>>

\* The answer: the block, and nothing after it touches the database or Redis.
Answer(l, doc) == LoadAt(l, "done") /\ context' = [context EXCEPT ![l] = doc]

\* mutant: a hit renews the key with the block that was read
CacheGet_Renews(l) ==
    /\ lpc[l] = "get"
    /\ \/ /\ cache # None /\ LoadAt(l, "fill") /\ UNCHANGED context
          /\ seen' = [seen EXCEPT ![l] = [id |-> CHOOSE b \in Builds : TRUE, doc |-> cache,
                                          since |-> 0, job |-> None]]
       \/ (cache = None \/ MayCrash) /\ LoadAt(l, "db") /\ UNCHANGED <<context, seen>>
    /\ UNCHANGED <<row, cache, sentinels, build, jobs, due, reset, history>>

CacheGet(l) ==
    /\ lpc[l] = "get"
    /\ \/ cache # None /\ Answer(l, cache)
       \/ (cache = None \/ MayCrash) /\ LoadAt(l, "db") /\ UNCHANGED context
    /\ UNCHANGED <<row, cache, sentinels, build, jobs, seen, due, reset, history>>

\* The SELECT; without a row the sentinel is written by a task of its own.
LoadRow(l) ==
    /\ lpc[l] = "db"
    /\ seen' = [seen EXCEPT ![l] = row]
    /\ CASE row = None -> Answer(l, {}) /\ sentinels' = sentinels \cup {l}
         [] row # None /\ row.job # None ->
              LoadAt(l, "retrieve") /\ UNCHANGED <<sentinels, context>>
         [] OTHER -> LoadAt(l, "fill") /\ UNCHANGED <<sentinels, context>>
    /\ UNCHANGED <<row, cache, build, jobs, due, reset, history>>

\* apply_consolidation_batch selects the row again and asks the Batch API.  A
\* job that is still running or cannot be read leaves the row as it is.
Retrieve(l) ==
    /\ lpc[l] = "retrieve"
    /\ LET state == batch[seen[l].job].state
       IN  \/ /\ state \in {"running", "unreadable"} \/ MayCrash \/ ~StillThere(seen[l])
             /\ LoadAt(l, "fill")
           \/ state = "failed" /\ LoadAt(l, "drop")
           \/ state = "succeeded" /\ LoadAt(l, "apply")
    /\ UNCHANGED <<row, cache, sentinels, build, jobs, seen, context, due, reset, history>>

\* The UPDATE of an object whose row is gone fails and rolls back; the load
\* then reads an expired attribute and ends with an error.
StaleObject(l) ==
    /\ lpc[l] \in {"drop", "apply"} /\ ~StillThere(seen[l])
    /\ Answer(l, {})
    /\ UNCHANGED <<row, cache, sentinels, build, jobs, seen, due, reset, history>>

\* mutant: the job id is left on the row
DropJob_Keeps(l) ==
    /\ lpc[l] = "drop" /\ StillThere(seen[l])
    /\ LoadAt(l, "fill")
    /\ UNCHANGED <<row, cache, sentinels, build, jobs, seen, context, due, reset, history>>

\* The job gave no result: batch_job_id = None.
DropJob(l) ==
    /\ lpc[l] = "drop" /\ StillThere(seen[l])
    /\ row' = [row EXCEPT !.job = None]
    /\ dealt' = dealt \cup {seen[l].job}
    /\ LoadAt(l, "fill")
    /\ UNCHANGED <<cache, sentinels, build, batch, seen, context, due, reset, history>>

\* The consolidated document replaces the row's, whatever it is by now; the API
\* keeps the result, so a load that has read the job id earlier applies it again.
ApplyBatch(l) ==
    /\ lpc[l] = "apply" /\ StillThere(seen[l])
    /\ LET doc == batch[seen[l].job].doc
       IN  /\ row' = [row EXCEPT !.doc = doc, !.job = None,
                                 !.since = IF seen[l].since = 0 THEN @ ELSE 0]
           /\ seen' = [seen EXCEPT ![l].doc = doc]
    /\ dealt' = dealt \cup {seen[l].job}
    /\ LoadAt(l, "clear")
    /\ UNCHANGED <<cache, sentinels, build, batch, context, due, reset, history>>

ClearAfterApply(l) ==
    /\ lpc[l] = "clear"
    /\ \/ cache' = None /\ LoadAt(l, "reload")
       \/ MayCrash /\ LoadAt(l, "fill") /\ UNCHANGED cache
    /\ UNCHANGED <<row, sentinels, build, jobs, seen, context, due, reset, history>>

\* The SELECT after a job was applied: the object of a row that is still there
\* comes back as it is.
Reload(l) ==
    /\ lpc[l] = "reload"
    /\ IF row = None
       THEN Answer(l, {}) /\ sentinels' = sentinels \cup {l} /\ UNCHANGED seen
       ELSE /\ LoadAt(l, "fill")
            /\ seen' = IF StillThere(seen[l]) THEN seen ELSE [seen EXCEPT ![l] = row]
            /\ UNCHANGED <<sentinels, context>>
    /\ UNCHANGED <<row, cache, build, jobs, due, reset, history>>

\* SETEX with the five-minute TTL, and the answer.
CacheFill(l) ==
    /\ lpc[l] = "fill"
    /\ cache' = seen[l].doc \/ (MayCrash /\ UNCHANGED cache)
    /\ Answer(l, seen[l].doc)
    /\ UNCHANGED <<row, sentinels, build, jobs, seen, due, reset, history>>

\* The task of _cache_miss.
SetSentinel(l) ==
    /\ l \in sentinels
    /\ sentinels' = sentinels \ {l}
    /\ cache' = {} \/ (MayCrash /\ UNCHANGED cache)
    /\ UNCHANGED <<row, build, jobs, load, reset, history>>

\* The TTL of the key runs out.
Expire ==
    /\ cache # None
    /\ cache' = None
    /\ UNCHANGED <<row, sentinels, build, jobs, load, reset, history>>

-----------------------------------------------------------------------------
(* reset_memory *)

ResetDelete ==
    /\ MayReset /\ reset = "idle" /\ MayStart
    /\ row' = None
    /\ reset' = "clear"
    /\ owed' = {}
    /\ wiped' = wiped \cup (IF row = None THEN {} ELSE row.doc)
    /\ UNCHANGED <<cache, sentinels, build, jobs, load>>

\* mutant: Redis is not told
ResetInvalidate_Not ==
    /\ reset = "clear"
    /\ reset' = "done"
    /\ UNCHANGED <<row, cache, sentinels, build, jobs, load, history>>

ResetInvalidate ==
    /\ reset = "clear"
    /\ Invalidate
    /\ reset' = "done"
    /\ UNCHANGED <<row, sentinels, build, jobs, load, history>>

-----------------------------------------------------------------------------

Build(b) ==
    \/ Extract(b) \/ Read(b) \/ MergeCommit(b) \/ MergeFails(b) \/ InvalidateCache(b)
    \/ CheckThreshold(b) \/ SubmitBatch(b) \/ StoreJob(b)

Load(l) ==
    \/ CacheGet(l) \/ LoadRow(l) \/ Retrieve(l) \/ StaleObject(l) \/ DropJob(l)
    \/ ApplyBatch(l) \/ ClearAfterApply(l) \/ Reload(l) \/ CacheFill(l) \/ SetSentinel(l)

Next ==
    \/ \E b \in Builds : StartBuild(b) \/ Build(b) \/ CrashBuild(b) \/ BatchEnds(b)
    \/ \E l \in Loads : StartLoad(l) \/ Load(l)
    \/ Expire
    \/ ResetDelete \/ ResetInvalidate

Spec == Init /\ [][Next]_vars

\* The Batch API tells how a job has ended.
Answered(l) == Retrieve(l) /\ lpc'[l] # "fill"

\* The event loop runs every task on, Redis expires keys, the Batch API ends
\* every job and does not fail each time it is asked, and the user keeps
\* starting sessions.
Fairness ==
    /\ \A b \in Builds : WF_vars(Build(b)) /\ WF_vars(BatchEnds(b))
    /\ \A l \in Loads : WF_vars(StartLoad(l) \/ Load(l))
    /\ SF_vars(\E l \in Loads : Answered(l))
    /\ WF_vars(Expire)
    /\ WF_vars(ResetInvalidate)

FairSpec == Spec /\ Fairness

-----------------------------------------------------------------------------
(* Properties *)

\* The variables keep their types.
TypeOK ==
    /\ row \in Row \cup {None}
    /\ cache \in {None} \cup Doc
    /\ sentinels \subseteq Loads
    /\ bpc \in [Builds -> Ended \cup {"extract", "read", "merge", "clear", "check",
                                      "submit", "store"}]
    /\ mine \in [Builds -> Row \cup {None}]
    /\ batch \in [Builds -> Batch \cup {None}]
    /\ dealt \subseteq Builds
    /\ lpc \in [Loads -> {"done", "get", "db", "retrieve", "drop", "apply", "clear", "reload",
                        "fill"}]
    /\ seen \in [Loads -> Row \cup {None}]
    /\ context \in [Loads -> Doc]
    /\ reset \in {"idle", "clear", "done"}
    /\ owed \subseteq Builds
    /\ wiped \subseteq Builds
    /\ due \in [Loads -> [owed : Doc, wiped : Doc]]

\* A session started after build_memory returned finds that build in its
\* prompt (docs/evals.md:39, "start another session and verify Redis/DB-loaded
\* memory"), unless the row itself has lost it since (LossBounded): through the
\* cache, a pending batch and its application.
NextSessionKnows ==
    \A l \in Loads :
        lpc[l] = "done" /\ row # None => due[l].owed \cap row.doc \subseteq context[l]

\* A session started after a reset finds nothing of what the reset deleted.
ResetForgets == \A l \in Loads : lpc[l] = "done" => due[l].wiped \cap context[l] = {}

\* Whatever was under way when the reset ran, nothing it deleted comes back
\* into the row.
ResetRowClean == row # None => row.doc \cap wiped = {}

\* A document never loses a merged session while its row lives.
MergesKept ==
    [][row # None /\ row' # None /\ row'.id = row.id => row.doc \subseteq row'.doc]_row

\* What a pending batch may cost.  Its result replaces the document, so what was
\* merged after the batch was submitted is lost (MergesKept fails): no more than
\* the counter has gone beyond the threshold, and nothing else ever loses a
\* merged session, whatever crashes - as long as operations wait for each other;
\* two builds that overlap lose a merge at once.
LossBounded ==
    [][row # None /\ row' # None /\ row'.id = row.id =>
         \/ row.doc \subseteq row'.doc
         \/ Cardinality(row.doc \ row'.doc) + Threshold <= row.since]_row

\* A batch whose build has returned is the row's pending job until its result
\* is dealt with, or the user resets the memory: no job is submitted, paid for
\* and forgotten.  It holds of one build, and of builds that wait for each
\* other, crashes included.  Two builds that overlap test the threshold before
\* either has stored its job (builder.py:256): one of the jobs is forgotten.
NoOrphanBatch ==
    \A b \in Builds :
        bpc[b] = "built" /\ batch[b] # None /\ b \notin dealt /\ batch[b].doc \cap wiped = {} =>
            row # None /\ row.job = b

\* A pending job does not stay on the row for ever, which would end
\* consolidation for this user ("applied lazily ... on the next
\* load_memory_context() call", builder.py:438) - unless its result cannot be
\* read: then apply_consolidation_batch returns and leaves the job where it is.
JobCleared == \A b \in Builds :
    row # None /\ row.job = b ~> row = None \/ row.job # b \/ batch[b].state = "unreadable"

\* The TTL (loader.py:24) makes up for every invalidation that came too early or
\* not at all: once nobody writes the row any more, the key - filled by a load
\* that read before the last write, left by a build that stopped before its
\* invalidation, or a late "__NONE__" - ends up absent or equal to the row, and
\* stays so although sessions keep starting.
CacheSettles == <>[](cache = None \/ cache = IF row = None THEN {} ELSE row.doc)
=============================================================================
