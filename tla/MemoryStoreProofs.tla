--------------------------- MODULE MemoryStoreProofs ---------------------------
(***************************************************************************)
(* Theorems about MemoryStore, for any number of builds and loads, any     *)
(* threshold, with crashes and without.                                    *)
(*                                                                         *)
(* TypeOK needs to know which objects a build or a load holds at each      *)
(* place (Held).  That a reset is not undone rests on two facts about      *)
(* every object still held when the reset runs: its primary key is that    *)
(* of a build that has merged (Traced), so no later row has it, and the    *)
(* documents that may reach the row it was loaded from, its own and its    *)
(* job's, hold nothing wiped (Clean).                                      *)
(***************************************************************************)
EXTENDS MemoryStore, FiniteSetTheorems, TLAPS

\* The builds that have merged, or failed, and will never merge again.
Past == {b \in Builds : bpc[b] \notin {"idle", "extract", "read", "merge"}}

\* Every copy of the row.
Objects == {row} \cup {mine[b] : b \in Builds} \cup {seen[l] : l \in Loads}

\* The objects that each place needs.
Held ==
    /\ \A b \in Builds : bpc[b] \in {"submit", "store"} => mine[b] # None
    /\ \A b \in Builds :
         bpc[b] = "store" => batch[b] # None /\ batch[b].doc = mine[b].doc
    /\ \A l \in Loads :
         lpc[l] \in {"retrieve", "drop", "apply"} => seen[l] # None /\ seen[l].job # None
    /\ \A l \in Loads : lpc[l] \in {"clear", "reload", "fill"} => seen[l] # None

\* A job id found on a row belongs to a build that is over, and its batch
\* holds a document of the past.
JobKnown(j) == bpc[j] = "built" /\ batch[j] # None /\ batch[j].doc \subseteq Past

FromPast(o) == o.id \in Past /\ o.doc \subseteq Past /\ (o.job # None => JobKnown(o.job))

Traced == (\A o \in Objects : o # None => FromPast(o)) /\ wiped \subseteq Past

\* What the object may still bring into the row holds nothing wiped.
CleanObject(o) ==
    o.doc \cap wiped = {} /\ (o.job # None => batch[o.job].doc \cap wiped = {})

Clean == row # None => \A o \in Objects : o # None /\ o.id = row.id => CleanObject(o)

IInv == TypeOK /\ Held /\ Traced /\ Clean

-----------------------------------------------------------------------------
(* Types *)

\* Changing a row's document, count or job keeps it a row.
LEMMA RowExcept ==
    ASSUME NEW r \in Row, NEW doc \in Doc, NEW n \in Nat, NEW j \in Builds \cup {None}
    PROVE  /\ [r EXCEPT !.doc = doc, !.since = n] \in Row
           /\ [r EXCEPT !.doc = doc, !.job = j, !.since = n] \in Row
           /\ [r EXCEPT !.doc = doc] \in Row
           /\ [r EXCEPT !.job = j] \in Row
           /\ r.id \in Builds /\ r.doc \in Doc /\ r.since \in Nat /\ r.job \in Builds \cup {None}
BY DEF Row

\* Changing the state of a job keeps it a job.
LEMMA BatchExcept ==
    ASSUME NEW x \in Batch, NEW s \in {"running", "succeeded", "failed", "unreadable"}
    PROVE  [x EXCEPT !.state = s] \in Batch /\ [x EXCEPT !.state = s].doc = x.doc /\ x.doc \in Doc
BY DEF Batch

\* A step of a build keeps the types and the objects that each place needs.
LEMMA BuildType ==
    ASSUME TypeOK, Held, NEW b \in Builds, StartBuild(b) \/ Build(b) \/ CrashBuild(b) \/ BatchEnds(b)
    PROVE  TypeOK' /\ Held'
<1>0. None \notin Row /\ None \notin Batch
  BY MemoryStoreAssumption
<1>1. CASE StartBuild(b)
  BY <1>1 DEF TypeOK, Held, StartBuild, Goto, Ended, load, history, jobs
<1>2. CASE Extract(b)
  BY <1>2 DEF TypeOK, Held, Extract, Goto, Ended, load, history, jobs
<1>3. CASE Read(b)
  BY <1>3 DEF TypeOK, Held, Read, Goto, Ended, load, history, jobs
<1>4. CASE MergeCommit(b)
  <2>1. row' \in Row
    <3>1. CASE row' = [id |-> b, doc |-> {b}, since |-> 1, job |-> None]
      BY <3>1 DEF Row, Doc
    <3>2. CASE StillThere(mine[b]) /\ row' = [row EXCEPT !.doc = mine[b].doc \cup {b}, !.since = mine[b].since + 1]
      <4>1. row \in Row /\ mine[b] \in Row
        BY <3>2 DEF TypeOK, StillThere
      <4>2. mine[b].doc \cup {b} \in Doc /\ mine[b].since + 1 \in Nat
        BY <4>1 DEF Row, Doc
      <4> QED
        BY <3>2, <4>1, <4>2, RowExcept
    <3> QED
      BY <1>4, <3>1, <3>2 DEF MergeCommit
  <2> QED
    BY <1>4, <2>1 DEF TypeOK, Held, MergeCommit, Goto, Ended, load, history, jobs
<1>5. CASE MergeFails(b)
  BY <1>5 DEF TypeOK, Held, MergeFails, Goto, Ended, load, history, jobs
<1>6. CASE InvalidateCache(b)
  BY <1>6 DEF TypeOK, Held, InvalidateCache, Invalidate, Goto, Ended, load, history, jobs
<1>7. CASE CheckThreshold(b)
  BY <1>7 DEF TypeOK, Held, CheckThreshold, Due, Return, Goto, Ended, load, jobs
<1>8. CASE SubmitBatch(b)
  <2>1. mine[b] \in Row
    BY <1>8 DEF TypeOK, Held, SubmitBatch
  <2>2. [state |-> "running", doc |-> mine[b].doc] \in Batch
    BY <2>1 DEF Row, Batch
  <2> QED
    BY <1>0, <1>8, <2>2 DEF TypeOK, Held, SubmitBatch, Return, Goto, Ended, load, jobs
<1>9. CASE StoreJob(b)
  <2>1. row # None => row \in Row /\ [row EXCEPT !.job = b] \in Row
    BY DEF TypeOK, Row
  <2>2. row' = row \/ (row # None /\ row' = [row EXCEPT !.job = b])
    BY <1>9 DEF StoreJob, StillThere
  <2>3. row' \in Row \cup {None}
    BY <2>1, <2>2 DEF TypeOK
  <2> QED
    BY <1>9, <2>3 DEF TypeOK, Held, StoreJob, Return, Goto, Ended, load, jobs
<1>10. CASE CrashBuild(b)
  BY <1>10 DEF TypeOK, Held, CrashBuild, Goto, Ended, load, history, jobs
<1>11. CASE BatchEnds(b)
  <2>1. PICK s \in BatchResults : batch' = [batch EXCEPT ![b].state = s]
    BY <1>11 DEF BatchEnds
  <2>2. batch[b] \in Batch /\ s \in {"running", "succeeded", "failed", "unreadable"}
    BY <1>11, MemoryStoreAssumption DEF TypeOK, BatchEnds
  <2>3. batch' = [batch EXCEPT ![b] = [batch[b] EXCEPT !.state = s]]
    BY <2>1
  <2>4. [batch[b] EXCEPT !.state = s] \in Batch /\ [batch[b] EXCEPT !.state = s].doc = batch[b].doc
    BY <2>2, BatchExcept
  <2> QED
    BY <1>0, <1>11, <2>3, <2>4 DEF TypeOK, Held, BatchEnds, build, load, history, jobs
<1> QED
  BY <1>1, <1>2, <1>3, <1>4, <1>5, <1>6, <1>7, <1>8, <1>9, <1>10, <1>11 DEF Build

\* A step of a load keeps the types and the objects that each place needs.
LEMMA LoadType ==
    ASSUME TypeOK, Held, Traced, NEW l \in Loads, StartLoad(l) \/ Load(l)
    PROVE  TypeOK' /\ Held'
<1>0. None \notin Row /\ None \notin Batch
  BY MemoryStoreAssumption
<1>a. seen[l] # None =>
        /\ seen[l] \in Row /\ seen[l].doc \in Doc
        /\ seen[l].job # None => (seen[l].job \in Builds /\ batch[seen[l].job] \in Batch)
  <2>1. seen[l] # None => seen[l] \in Row
    BY DEF TypeOK
  <2>2. seen[l] # None /\ seen[l].job # None => JobKnown(seen[l].job)
    BY DEF Traced, Objects, FromPast
  <2>3. seen[l] # None => seen[l].doc \in Doc /\ seen[l].job \in Builds \cup {None}
    BY <2>1 DEF Row
  <2> QED
    BY <2>1, <2>2, <2>3 DEF JobKnown, TypeOK
<1>1. CASE StartLoad(l)
  BY <1>1 DEF TypeOK, Held, StartLoad, LoadAt, build, history, Doc, jobs
<1>2. CASE CacheGet(l)
  BY <1>2 DEF TypeOK, Held, CacheGet, Answer, LoadAt, build, history, jobs
<1>3. CASE LoadRow(l)
  <2>1. /\ seen' = [seen EXCEPT ![l] = row]
        /\ UNCHANGED <<row, cache, bpc, mine, batch, dealt, due, reset, owed, wiped>>
    BY <1>3 DEF LoadRow, build, jobs, history
  <2>2. \/ row = None /\ Answer(l, {}) /\ sentinels' = sentinels \cup {l}
        \/ row # None /\ row.job # None /\ LoadAt(l, "retrieve") /\ UNCHANGED <<sentinels, context>>
        \/ row # None /\ LoadAt(l, "fill") /\ UNCHANGED <<sentinels, context>>
    BY <1>3 DEF LoadRow
  <2>3. {} \in Doc
    BY DEF Doc
  <2> QED
    BY <2>1, <2>2, <2>3 DEF TypeOK, Held, Answer, LoadAt
<1>4. CASE Retrieve(l)
  BY <1>4 DEF TypeOK, Held, Retrieve, LoadAt, build, history, jobs
<1>5. CASE StaleObject(l)
  BY <1>5 DEF TypeOK, Held, StaleObject, Answer, LoadAt, build, history, Doc, jobs
<1>6. CASE DropJob(l)
  <2>1. /\ lpc[l] = "drop" /\ row # None
        /\ seen[l] # None /\ seen[l].job # None
    BY <1>6 DEF Held, DropJob, StillThere
  <2>2. row \in Row /\ seen[l].job \in Builds
    BY <2>1, <1>a DEF TypeOK
  <2>3. [row EXCEPT !.job = None] \in Row
    BY <2>2 DEF Row
  <2>4. /\ row' = [row EXCEPT !.job = None] /\ lpc' = [lpc EXCEPT ![l] = "fill"]
        /\ dealt' = dealt \cup {seen[l].job}
        /\ UNCHANGED <<cache, sentinels, bpc, mine, batch, seen, context, due, reset, owed, wiped>>
    BY <1>6 DEF DropJob, LoadAt, build, history, jobs
  <2>5. TypeOK'
    BY <2>2, <2>3, <2>4 DEF TypeOK
  <2> QED
    BY <2>1, <2>4, <2>5 DEF TypeOK, Held
<1>7. CASE ApplyBatch(l)
  <2> DEFINE doc == batch[seen[l].job].doc
             n == IF seen[l].since = 0 THEN row.since ELSE 0
  <2>1. /\ row \in Row /\ seen[l] \in Row
        /\ seen[l].job \in Builds /\ batch[seen[l].job] \in Batch
    <3>1. row # None /\ seen[l] # None /\ seen[l].job # None
      BY <1>7 DEF Held, ApplyBatch, StillThere
    <3> QED
      BY <3>1, <1>a DEF TypeOK
  <2>2. doc \in Doc /\ n \in Nat
    BY <2>1, BatchExcept DEF Row
  <2>3. row' = [row EXCEPT !.doc = doc, !.job = None, !.since = n]
    BY <1>7 DEF ApplyBatch
  <2>4. seen' = [seen EXCEPT ![l] = [seen[l] EXCEPT !.doc = doc]]
    BY <1>7 DEF ApplyBatch
  <2>5. row' \in Row /\ [seen[l] EXCEPT !.doc = doc] \in Row
    BY <2>1, <2>2, <2>3, RowExcept
  <2>6. lpc' = [lpc EXCEPT ![l] = "clear"] /\ dealt' = dealt \cup {seen[l].job}
        /\ UNCHANGED <<cache, sentinels, bpc, mine, batch, context, due, reset, owed, wiped>>
    BY <1>7 DEF ApplyBatch, LoadAt, build, history, jobs
  <2> QED
    BY <1>0, <2>1, <2>4, <2>5, <2>6 DEF TypeOK, Held
<1>8. CASE ClearAfterApply(l)
  BY <1>8 DEF TypeOK, Held, ClearAfterApply, LoadAt, build, history, jobs
<1>9. CASE CacheFill(l)
  <2>1. seen[l].doc \in Doc
    BY <1>9, <1>a DEF Held, CacheFill
  <2>2. /\ cache' = seen[l].doc \/ cache' = cache
        /\ Answer(l, seen[l].doc)
        /\ UNCHANGED <<row, sentinels, build, jobs, seen, due, reset, history>>
    BY <1>9 DEF CacheFill
  <2> QED
    BY <2>1, <2>2 DEF TypeOK, Held, Answer, LoadAt, build, history, jobs
<1>10. CASE SetSentinel(l)
  BY <1>10 DEF TypeOK, Held, SetSentinel, build, load, history, Doc, jobs
<1>11. CASE Reload(l)
  <2>1. {} \in Doc
    BY DEF Doc
  <2>2. CASE row = None
    <3>1. /\ lpc' = [lpc EXCEPT ![l] = "done"] /\ context' = [context EXCEPT ![l] = {}]
          /\ sentinels' = sentinels \cup {l}
          /\ UNCHANGED <<row, cache, seen, bpc, mine, batch, dealt, due, reset, owed, wiped>>
      BY <1>11, <2>2 DEF Reload, Answer, LoadAt, build, history, jobs
    <3> QED
      BY <2>1, <3>1 DEF TypeOK, Held
  <2>3. CASE row # None
    <3>1. /\ lpc[l] = "reload" /\ lpc' = [lpc EXCEPT ![l] = "fill"]
          /\ seen' = seen \/ seen' = [seen EXCEPT ![l] = row]
          /\ UNCHANGED <<row, cache, sentinels, bpc, mine, batch, dealt, context, due, reset, owed, wiped>>
      BY <1>11, <2>3 DEF Reload, LoadAt, build, history, jobs
    <3> QED
      BY <2>3, <3>1 DEF TypeOK, Held
  <2> QED
    BY <2>2, <2>3
<1> QED
  BY <1>1, <1>2, <1>3, <1>4, <1>5, <1>6, <1>7, <1>8, <1>9, <1>10, <1>11 DEF Load

\* Expiry and reset keep the types and the objects that each place needs.
LEMMA ResetType ==
    ASSUME TypeOK, Held, Expire \/ ResetDelete \/ ResetInvalidate
    PROVE  TypeOK' /\ Held'
<1>1. CASE Expire
  BY <1>1 DEF TypeOK, Held, Expire, build, load, history, jobs
<1>2. CASE ResetDelete
  <2>1. row # None => row.doc \subseteq Builds
    BY DEF TypeOK, Row, Doc
  <2> QED
    BY <1>2, <2>1 DEF TypeOK, Held, ResetDelete, build, load, jobs
<1>3. CASE ResetInvalidate
  BY <1>3 DEF TypeOK, Held, ResetInvalidate, Invalidate, build, load, history, jobs
<1> QED
  BY <1>1, <1>2, <1>3

-----------------------------------------------------------------------------
(* A reset is not undone *)

\* What no step takes back: a build stays in the past, and a job that a row
\* may name keeps its document.
Kept ==
    /\ Past \subseteq Past'
    /\ \A j \in Builds : bpc[j] = "built" /\ batch[j] # None =>
         bpc'[j] = "built" /\ batch'[j] # None /\ batch'[j].doc = batch[j].doc

\* The objects are rows, so the jobs they name are builds.
LEMMA ObjectType ==
    ASSUME TypeOK, NEW o \in Objects, o # None
    PROVE  o \in Row /\ o.id \in Builds /\ o.doc \subseteq Builds /\ (o.job # None => o.job \in Builds)
<1>1. o \in Row
  BY DEF Objects, TypeOK
<1> QED
  BY <1>1 DEF Row, Doc

\* An object keeps its past.
LEMMA FromPastKept ==
    ASSUME TypeOK, Kept, NEW o \in Objects, o # None, FromPast(o)
    PROVE  FromPast(o)'
<1>1. o.job # None => o.job \in Builds
  BY ObjectType
<1> QED
  BY <1>1 DEF FromPast, JobKnown, Kept

\* An object that may bring nothing wiped into the row stays so while nothing is wiped.
LEMMA CleanObjectKept ==
    ASSUME TypeOK, Kept, UNCHANGED wiped, NEW o \in Objects, o # None, FromPast(o), CleanObject(o)
    PROVE  CleanObject(o)'
<1>1. o.job # None => o.job \in Builds
  BY ObjectType
<1> QED
  BY <1>1 DEF FromPast, JobKnown, CleanObject, Kept

\* Of a step that leaves the row's identity, only new objects need an argument.
LEMMA NewObjects ==
    ASSUME TypeOK, Traced, Clean, Kept, UNCHANGED wiped,
           row' # None => row # None /\ row'.id = row.id,
           \A o \in Objects' : o # None /\ o \notin Objects =>
             FromPast(o)' /\ (row' # None /\ o.id = row'.id => CleanObject(o)')
    PROVE  Traced' /\ Clean'
<1>1. ASSUME NEW o \in Objects', o # None PROVE FromPast(o)'
  <2>1. CASE o \in Objects
    BY <1>1, <2>1, FromPastKept DEF Traced
  <2> QED
    BY <1>1, <2>1
<1>2. wiped' \subseteq Past'
  BY DEF Traced, Kept
<1>3. ASSUME row' # None, NEW o \in Objects', o # None, o.id = row'.id PROVE CleanObject(o)'
  <2>1. CASE o \in Objects
    <3>1. FromPast(o) /\ CleanObject(o)
      BY <1>3, <2>1 DEF Traced, Clean
    <3> QED
      BY <1>3, <2>1, <3>1, CleanObjectKept
  <2> QED
    BY <1>3, <2>1
<1>4. Traced'
  BY <1>1, <1>2 DEF Traced
<1>5. Clean'
  BY <1>3 DEF Clean
<1> QED
  BY <1>4, <1>5

\* No step takes back what Kept says.
LEMMA StepKeeps ==
    ASSUME IInv, [Next]_vars
    PROVE  Kept
<1>1. CASE UNCHANGED <<bpc, batch>>
  BY <1>1 DEF Kept, Past
<1>2. ASSUME NEW b \in Builds, UNCHANGED batch, bpc[b] \notin Ended \/ bpc[b] = "idle",
             bpc[b] \in {"idle", "extract", "read", "merge"} \/
               bpc'[b] \notin {"idle", "extract", "read", "merge"},
             NEW w, bpc' = [bpc EXCEPT ![b] = w]
      PROVE  Kept
  BY <1>2 DEF Kept, Past, IInv, TypeOK, Ended
<1>3. ASSUME NEW b \in Builds, StartBuild(b) PROVE Kept
  BY <1>3, <1>2 DEF StartBuild, Goto, Return, Ended, IInv, TypeOK, jobs
<1>4. ASSUME NEW b \in Builds, Extract(b) PROVE Kept
  BY <1>4, <1>2 DEF Extract, Goto, Return, Ended, IInv, TypeOK, jobs
<1>5. ASSUME NEW b \in Builds, Read(b) PROVE Kept
  BY <1>5, <1>2 DEF Read, Goto, Return, Ended, IInv, TypeOK, jobs
<1>6. ASSUME NEW b \in Builds, MergeCommit(b) PROVE Kept
  BY <1>6, <1>2 DEF MergeCommit, Goto, Return, Ended, IInv, TypeOK, jobs
<1>7. ASSUME NEW b \in Builds, MergeFails(b) PROVE Kept
  BY <1>7, <1>2 DEF MergeFails, Goto, Return, Ended, IInv, TypeOK, jobs
<1>8. ASSUME NEW b \in Builds, InvalidateCache(b) PROVE Kept
  BY <1>8, <1>2 DEF InvalidateCache, Goto, Return, Ended, IInv, TypeOK, jobs
<1>9. ASSUME NEW b \in Builds, CheckThreshold(b) PROVE Kept
  BY <1>9, <1>2 DEF CheckThreshold, Goto, Return, Ended, IInv, TypeOK, jobs
<1>10. ASSUME NEW b \in Builds, StoreJob(b) PROVE Kept
  BY <1>10, <1>2 DEF StoreJob, Goto, Return, Ended, IInv, TypeOK, jobs
<1>11. ASSUME NEW b \in Builds, CrashBuild(b) PROVE Kept
  BY <1>11, <1>2 DEF CrashBuild, Goto, Return, Ended, IInv, TypeOK, jobs
<1>12. ASSUME NEW b \in Builds, SubmitBatch(b) PROVE Kept
  <2>1. bpc[b] = "submit" /\ (bpc' = [bpc EXCEPT ![b] = "store"] \/ bpc' = [bpc EXCEPT ![b] = "built"])
    BY <1>12 DEF SubmitBatch, Goto, Return
  <2>2. \A j \in Builds : j # b => batch'[j] = batch[j]
    BY <1>12 DEF SubmitBatch, IInv, TypeOK
  <2> QED
    BY <2>1, <2>2 DEF Kept, Past, IInv, TypeOK
<1>14. ASSUME NEW b \in Builds, BatchEnds(b) PROVE Kept
  <2>1. PICK x \in BatchResults : batch' = [batch EXCEPT ![b].state = x]
    BY <1>14 DEF BatchEnds
  <2>2. batch[b] \in Batch /\ batch' = [batch EXCEPT ![b] = [batch[b] EXCEPT !.state = x]]
    BY <1>14, <2>1 DEF BatchEnds, IInv, TypeOK
  <2>3. [batch[b] EXCEPT !.state = x] \in Batch /\ [batch[b] EXCEPT !.state = x].doc = batch[b].doc
    BY <2>2, BatchExcept, MemoryStoreAssumption
  <2>4. \A i \in Builds : batch[i] # None => batch'[i] # None /\ batch'[i].doc = batch[i].doc
    BY <2>2, <2>3, MemoryStoreAssumption DEF IInv, TypeOK
  <2> QED
    BY <1>14, <2>4 DEF Kept, Past, BatchEnds, build
<1>16. ASSUME NEW l \in Loads, StartLoad(l) \/ Load(l)
       PROVE  UNCHANGED <<bpc, batch>>
  BY <1>16 DEF Load, StartLoad, CacheGet, LoadRow, Retrieve, StaleObject, DropJob, ApplyBatch,
               ClearAfterApply, Reload, CacheFill, SetSentinel, build, jobs
<1>17. Expire \/ ResetDelete \/ ResetInvalidate \/ UNCHANGED vars => UNCHANGED <<bpc, batch>>
  BY DEF Expire, ResetDelete, ResetInvalidate, vars, build, jobs
<1> QED
  BY <1>1, <1>3, <1>4, <1>5, <1>6, <1>7, <1>8, <1>9, <1>10, <1>11, <1>12, <1>14, <1>16, <1>17 DEF Next, Build

\* A merge brings into the row only what its own, clean object holds, and the
\* build itself, which nothing has wiped.
LEMMA MergeClean ==
    ASSUME IInv, Kept, NEW b \in Builds, MergeCommit(b)
    PROVE  Traced' /\ Clean'
<1>1. b \notin Past /\ b \in Past' /\ UNCHANGED <<mine, seen, batch, wiped>>
  BY DEF MergeCommit, Goto, Past, IInv, TypeOK, load, history, jobs
<1>2. {mine[c] : c \in Builds} \cup {seen[l] : l \in Loads} \subseteq Objects
  BY DEF Objects
<1>3. Objects' = {row'} \cup {mine[c] : c \in Builds} \cup {seen[l] : l \in Loads}
  BY <1>1 DEF Objects
<1>4. CASE row' = [id |-> b, doc |-> {b}, since |-> 1, job |-> None]
  <2>1. row'.id = b /\ row'.doc = {b} /\ row'.job = None
    BY <1>4
  <2>2. FromPast(row)'
    BY <1>1, <2>1 DEF FromPast
  <2>3. CleanObject(row)'
    BY <1>1, <2>1 DEF CleanObject, IInv, Traced
  <2>4. ASSUME NEW o \in Objects, o # None PROVE FromPast(o)' /\ o.id # b
    BY <1>1, <2>4, FromPastKept DEF IInv, Traced, FromPast
  <2>5. wiped' \subseteq Past'
    BY <1>1 DEF IInv, Traced, Kept
  <2>6. Traced'
    BY <1>2, <1>3, <2>2, <2>4, <2>5 DEF Traced
  <2>7. ASSUME NEW o \in Objects', o # None, o.id = b PROVE o = row'
    BY <1>2, <1>3, <2>4, <2>7
  <2> QED
    BY <2>1, <2>3, <2>6, <2>7 DEF Clean
<1>5. CASE StillThere(mine[b]) /\ row' = [row EXCEPT !.doc = mine[b].doc \cup {b}, !.since = mine[b].since + 1]
  <2>1. /\ row # None /\ row \in Objects /\ row \in Row
        /\ mine[b] # None /\ mine[b] \in Objects /\ mine[b].id = row.id
    BY <1>5 DEF StillThere, Objects, IInv, TypeOK
  <2>2. row'.id = row.id /\ row'.doc = mine[b].doc \cup {b} /\ row'.job = row.job
    BY <1>5, <2>1 DEF Row
  <2>3. FromPast(row) /\ FromPast(mine[b]) /\ CleanObject(row) /\ CleanObject(mine[b])
    BY <2>1 DEF IInv, Traced, Clean
  <2>4. row.job # None => row.job \in Builds
    BY <2>1, ObjectType DEF IInv
  <2>5. FromPast(row)'
    BY <1>1, <2>2, <2>3, <2>4 DEF FromPast, JobKnown, Kept
  <2>6. CleanObject(row)'
    BY <1>1, <2>2, <2>3 DEF CleanObject, IInv, Traced
  <2> QED
    BY <1>1, <1>2, <1>3, <2>1, <2>2, <2>5, <2>6, NewObjects DEF IInv
<1> QED
  BY <1>4, <1>5 DEF MergeCommit

\* The job stored on a row was submitted with the document of a clean object.
LEMMA StoreClean ==
    ASSUME IInv, Kept, NEW b \in Builds, StoreJob(b)
    PROVE  Traced' /\ Clean'
<1>1. /\ bpc[b] = "store" /\ bpc'[b] = "built" /\ UNCHANGED <<mine, seen, batch, wiped>>
      /\ batch[b] # None /\ batch[b].doc = mine[b].doc /\ mine[b] # None
  BY DEF StoreJob, Return, Goto, IInv, TypeOK, Held, load, jobs
<1>2. {mine[c] : c \in Builds} \cup {seen[l] : l \in Loads} \subseteq Objects
  BY DEF Objects
<1>3. Objects' = {row'} \cup {mine[c] : c \in Builds} \cup {seen[l] : l \in Loads}
  BY <1>1 DEF Objects
<1>4. CASE row' = row
  <2>1. Objects' = Objects
    BY <1>3, <1>1, <1>4 DEF Objects
  <2> QED
    BY <1>1, <1>4, <2>1, NewObjects DEF IInv
<1>5. CASE StillThere(mine[b]) /\ row' = [row EXCEPT !.job = b]
  <2>1. /\ row # None /\ row \in Objects /\ row \in Row
        /\ mine[b] \in Objects /\ mine[b].id = row.id
    BY <1>5 DEF StillThere, Objects, IInv, TypeOK
  <2>2. row'.id = row.id /\ row'.doc = row.doc /\ row'.job = b
    BY <1>5, <2>1 DEF Row
  <2>3. FromPast(row) /\ FromPast(mine[b]) /\ CleanObject(row) /\ CleanObject(mine[b])
    BY <1>1, <2>1 DEF IInv, Traced, Clean
  <2>4. FromPast(row)'
    BY <1>1, <2>2, <2>3 DEF FromPast, JobKnown, Kept
  <2>5. CleanObject(row)'
    BY <1>1, <2>2, <2>3 DEF CleanObject
  <2> QED
    BY <1>1, <1>2, <1>3, <2>1, <2>2, <2>4, <2>5, NewObjects DEF IInv
<1> QED
  BY <1>4, <1>5 DEF StoreJob, jobs

\* A load that drops the job, or applies it to the row it has read, brings
\* nothing but the document of a clean object's job.
LEMMA ApplyClean ==
    ASSUME IInv, Kept, NEW l \in Loads, DropJob(l) \/ ApplyBatch(l)
    PROVE  Traced' /\ Clean'
<1>1. seen[l] # None /\ seen[l].job # None /\ UNCHANGED <<mine, bpc, wiped>>
  BY DEF DropJob, ApplyBatch, IInv, Held, build, history, jobs
<1>2. /\ row # None /\ row \in Objects /\ row \in Row
      /\ seen[l] \in Objects /\ seen[l] \in Row /\ seen[l].id = row.id
  BY <1>1 DEF DropJob, ApplyBatch, StillThere, Objects, IInv, TypeOK
<1>3. FromPast(row) /\ FromPast(seen[l]) /\ CleanObject(row) /\ CleanObject(seen[l])
  BY <1>1, <1>2 DEF IInv, Traced, Clean
<1>4. (FromPast(seen[l])' /\ CleanObject(seen[l])') \/ seen'[l] # seen[l]
  BY <1>1, <1>2, <1>3, FromPastKept, CleanObjectKept DEF IInv
<1> DEFINE doc == batch[seen[l].job].doc
<1>5. CASE DropJob(l)
  <2>1. row' = [row EXCEPT !.job = None] /\ UNCHANGED seen
    BY <1>5 DEF DropJob
  <2>2. row'.id = row.id /\ row'.doc = row.doc /\ row'.job = None /\ row' # None
    BY <1>2, <2>1, MemoryStoreAssumption DEF Row
  <2>3. FromPast(row)' /\ CleanObject(row)'
    BY <1>1, <1>3, <2>2 DEF FromPast, CleanObject, Kept
  <2>4. Objects' \subseteq Objects \cup {row'}
    BY <1>1, <2>1 DEF Objects
  <2> QED
    BY <1>1, <1>2, <2>2, <2>3, <2>4, NewObjects DEF IInv
<1>6. CASE ApplyBatch(l)
  <2>1. /\ row' = [row EXCEPT !.doc = doc, !.job = None, !.since = IF seen[l].since = 0 THEN @ ELSE 0]
        /\ seen' = [seen EXCEPT ![l].doc = doc]
    BY <1>6 DEF ApplyBatch
  <2>2. row'.id = row.id /\ row'.doc = doc /\ row'.job = None
    BY <1>2, <2>1 DEF Row
  <2>3. seen'[l] = [seen[l] EXCEPT !.doc = doc] /\ \A k \in Loads : k # l => seen'[k] = seen[k]
    BY <2>1 DEF IInv, TypeOK
  <2>4. seen'[l].id = seen[l].id /\ seen'[l].doc = doc /\ seen'[l].job = seen[l].job
    BY <1>2, <2>3 DEF Row
  <2>5. doc \subseteq Past /\ doc \cap wiped = {} /\ JobKnown(seen[l].job) /\ seen[l].job \in Builds
    BY <1>1, <1>2, <1>3, ObjectType DEF FromPast, JobKnown, CleanObject, IInv
  <2>6. FromPast(row)' /\ CleanObject(row)'
    BY <1>1, <1>3, <2>2, <2>5 DEF FromPast, CleanObject, Kept
  <2>7. JobKnown(seen[l].job)' \/ seen'[l].job # seen[l].job
    BY <2>4, <2>5 DEF JobKnown, Kept
  <2>8. batch'[seen'[l].job].doc = doc
    BY <2>4, <2>5 DEF JobKnown, Kept
  <2>9. FromPast(seen[l])' /\ CleanObject(seen[l])'
    BY <1>1, <1>3, <2>4, <2>5, <2>7, <2>8 DEF FromPast, CleanObject, Kept, JobKnown
  <2>10. Objects' \subseteq Objects \cup {row', seen'[l]}
    BY <1>1, <2>3 DEF Objects
  <2> QED
    BY <1>1, <1>2, <2>2, <2>6, <2>9, <2>10, NewObjects DEF IInv
<1> QED
  BY <1>5, <1>6

\* A reset wipes builds of the past, and leaves no row.
LEMMA DeleteClean ==
    ASSUME IInv, Kept, ResetDelete
    PROVE  Traced' /\ Clean'
<1>1. row' = None /\ UNCHANGED <<mine, seen>> /\ wiped' = wiped \cup (IF row = None THEN {} ELSE row.doc)
  BY DEF ResetDelete, build, load, jobs
<1>2. Objects' \subseteq Objects \cup {None} /\ row \in Objects
  BY <1>1 DEF Objects
<1>3. wiped' \subseteq Past'
  BY <1>1, <1>2 DEF IInv, Traced, FromPast, Kept
<1>4. \A o \in Objects : o # None => FromPast(o)'
  BY FromPastKept DEF IInv, Traced
<1> QED
  BY <1>1, <1>2, <1>3, <1>4 DEF Traced, Clean

\* Every other step only copies the row, or forgets an object.
LEMMA CopyClean ==
    ASSUME IInv, Kept, UNCHANGED <<row, wiped>>, Objects' \subseteq Objects \cup {None}
    PROVE  Traced' /\ Clean'
BY NewObjects DEF IInv

\* The steps of a build that leave the row alone.
LEMMA BuildCopies ==
    ASSUME IInv, NEW b \in Builds,
           \/ StartBuild(b) \/ Extract(b) \/ Read(b) \/ MergeFails(b) \/ InvalidateCache(b)
           \/ CheckThreshold(b) \/ SubmitBatch(b) \/ CrashBuild(b) \/ BatchEnds(b)
    PROVE  UNCHANGED <<row, wiped>> /\ Objects' \subseteq Objects
<1>1. UNCHANGED <<row, seen, wiped>>
  BY DEF StartBuild, Extract, Read, MergeFails, InvalidateCache, CheckThreshold, SubmitBatch, jobs,
         CrashBuild, BatchEnds, Return, load, history
<1>2. mine' = mine \/ mine' = [mine EXCEPT ![b] = row]
  BY DEF StartBuild, Extract, Read, MergeFails, InvalidateCache, CheckThreshold, SubmitBatch, jobs,
         CrashBuild, BatchEnds, build
<1> QED
  BY <1>1, <1>2 DEF Objects, IInv, TypeOK

\* The steps of a load that leave the row alone.
LEMMA LoadCopies ==
    ASSUME IInv, NEW l \in Loads,
           \/ StartLoad(l) \/ CacheGet(l) \/ LoadRow(l) \/ Retrieve(l) \/ StaleObject(l)
           \/ ClearAfterApply(l) \/ Reload(l) \/ CacheFill(l) \/ SetSentinel(l)
    PROVE  UNCHANGED <<row, wiped>> /\ Objects' \subseteq Objects \cup {None}
<1>1. UNCHANGED <<row, mine, wiped>>
  BY DEF StartLoad, CacheGet, LoadRow, Retrieve, StaleObject, ClearAfterApply, Reload, CacheFill,
         SetSentinel, build, history
<1>2. seen' = seen \/ seen' = [seen EXCEPT ![l] = row] \/ seen' = [seen EXCEPT ![l] = None]
  BY DEF StartLoad, CacheGet, LoadRow, Retrieve, StaleObject, ClearAfterApply, Reload, CacheFill,
         SetSentinel, load
<1> QED
  BY <1>1, <1>2 DEF Objects, IInv, TypeOK

\* The initial states satisfy the invariant.
LEMMA InitInv == Init => IInv
<1> SUFFICES ASSUME Init PROVE IInv
  OBVIOUS
<1>1. TypeOK
  BY DEF Init, TypeOK, Ended, Doc
<1>2. Objects \subseteq {None} /\ wiped = {} /\ row = None
  BY DEF Init, Objects
<1>3. Held
  BY DEF Init, Held
<1> QED
  BY <1>1, <1>2, <1>3 DEF IInv, Traced, Clean

\* Every step keeps the invariant.
LEMMA NextInv == IInv /\ [Next]_vars => IInv'
<1> SUFFICES ASSUME IInv, [Next]_vars PROVE IInv'
  OBVIOUS
<1>1. TypeOK' /\ Held'
  <2>1. CASE UNCHANGED vars
    BY <2>1 DEF IInv, TypeOK, Held, vars, build, load, history, jobs
  <2>2. CASE Next
    BY <2>2, BuildType, LoadType, ResetType DEF Next, IInv
  <2> QED
    BY <2>1, <2>2
<1>2. Kept
  BY StepKeeps
<1>3. ASSUME UNCHANGED vars PROVE Traced' /\ Clean'
  <2>1. UNCHANGED <<row, wiped>> /\ Objects' \subseteq Objects
    BY <1>3 DEF vars, build, load, history, Objects, jobs
  <2> QED
    BY <1>2, <2>1, CopyClean
<1>4. ASSUME NEW b \in Builds, StartBuild(b) \/ Build(b) \/ CrashBuild(b) \/ BatchEnds(b)
      PROVE  Traced' /\ Clean'
  <2>1. CASE MergeCommit(b)
    BY <1>2, <2>1, MergeClean
  <2>2. CASE StoreJob(b)
    BY <1>2, <2>2, StoreClean
  <2>3. CASE ~MergeCommit(b) /\ ~StoreJob(b)
    <3>1. UNCHANGED <<row, wiped>> /\ Objects' \subseteq Objects
      BY <1>4, <2>3, BuildCopies DEF Build
    <3> QED
      BY <1>2, <3>1, CopyClean
  <2> QED
    BY <2>1, <2>2, <2>3
<1>5. ASSUME NEW l \in Loads, StartLoad(l) \/ Load(l) PROVE Traced' /\ Clean'
  <2>1. CASE DropJob(l) \/ ApplyBatch(l)
    BY <1>2, <2>1, ApplyClean
  <2>2. CASE ~DropJob(l) /\ ~ApplyBatch(l)
    <3>1. UNCHANGED <<row, wiped>> /\ Objects' \subseteq Objects \cup {None}
      BY <1>5, <2>2, LoadCopies DEF Load
    <3> QED
      BY <1>2, <3>1, CopyClean
  <2> QED
    BY <2>1, <2>2
<1>6. ASSUME Expire \/ ResetInvalidate PROVE Traced' /\ Clean'
  <2>1. UNCHANGED <<row, wiped>> /\ Objects' \subseteq Objects
    BY <1>6 DEF Expire, ResetInvalidate, build, load, history, Objects, jobs
  <2> QED
    BY <1>2, <2>1, CopyClean
<1>7. ASSUME ResetDelete PROVE Traced' /\ Clean'
  BY <1>2, <1>7, DeleteClean
<1>8. Traced' /\ Clean'
  BY <1>3, <1>4, <1>5, <1>6, <1>7 DEF Next
<1> QED
  BY <1>1, <1>8 DEF IInv

-----------------------------------------------------------------------------

\* Every reachable state has the declared types: whatever is concurrent or
\* fails, no place reads an object or a job it does not have.
THEOREM TypeCorrect == Spec => []TypeOK
<1>1. IInv => TypeOK
  BY DEF IInv
<1> QED
  BY InitInv, NextInv, <1>1, PTL DEF Spec

\* What reset_memory deletes never comes back into the row: not by a build
\* that read the row before, not by the batch submitted from it, not by a load
\* that applies that batch, in any interleaving and with any failures.
THEOREM ResetIsFinal == Spec => []ResetRowClean
<1>1. IInv => ResetRowClean
  <2> SUFFICES ASSUME IInv, row # None PROVE row.doc \cap wiped = {}
    BY DEF ResetRowClean
  <2>1. row \in Objects
    BY DEF Objects
  <2> QED
    BY <2>1 DEF IInv, Clean, CleanObject
<1> QED
  BY InitInv, NextInv, <1>1, PTL DEF Spec

-----------------------------------------------------------------------------
(* One operation at a time *)

LoadBusy(l) == lpc[l] # "done" \/ l \in sentinels

\* One build, one load or the reset is under way, or none.
OneAtATime ==
    /\ \A b, c \in Builds : bpc[b] \notin Ended /\ bpc[c] \notin Ended => b = c
    /\ \A k, l \in Loads : LoadBusy(k) /\ LoadBusy(l) => k = l
    /\ \A b \in Builds, l \in Loads : bpc[b] \notin Ended => ~LoadBusy(l)
    /\ reset = "clear" => (\A b \in Builds : bpc[b] \in Ended) /\ (\A l \in Loads : ~LoadBusy(l))

\* The object that an operation is going to write back, or to show, is the row.
Current ==
    /\ \A b \in Builds :
         /\ bpc[b] \in {"merge", "submit", "store"} => mine[b] = row
         /\ bpc[b] \in {"submit", "store"} => row.job = None
    /\ \A l \in Loads :
         /\ lpc[l] \in {"retrieve", "drop", "apply"} => seen[l] = row
         /\ lpc[l] \in {"clear", "reload", "fill"} =>
              row # None /\ seen[l].id = row.id /\ seen[l].doc = row.doc

SerialInv == Serial => OneAtATime /\ Current

\* A step of a build is of the only operation under way.
LEMMA BuildTurn ==
    ASSUME Serial, TypeOK, OneAtATime, NEW b \in Builds, StartBuild(b) \/ Build(b) \/ CrashBuild(b)
    PROVE  /\ OneAtATime' /\ reset # "clear"
           /\ \A c \in Builds \ {b} : bpc[c] \in Ended /\ bpc'[c] = bpc[c]
           /\ \A l \in Loads : ~LoadBusy(l) /\ ~LoadBusy(l)'
<1>1. UNCHANGED <<sentinels, lpc, reset>>
  BY DEF StartBuild, Build, Extract, Read, MergeCommit, MergeFails, InvalidateCache, CheckThreshold,
         SubmitBatch, StoreJob, CrashBuild, load
<1>2. bpc[b] \notin Ended \/ Quiet
  BY DEF StartBuild, Build, Extract, Read, MergeCommit, MergeFails, InvalidateCache, CheckThreshold,
         SubmitBatch, StoreJob, CrashBuild, MayStart, Ended
<1>3. \E w : bpc' = [bpc EXCEPT ![b] = w]
  BY DEF StartBuild, Build, Extract, Read, MergeCommit, MergeFails, InvalidateCache, CheckThreshold,
         SubmitBatch, StoreJob, CrashBuild, Goto, Return
<1>4. \A c \in Builds \ {b} : bpc[c] \in Ended /\ bpc'[c] = bpc[c]
  BY <1>2, <1>3 DEF OneAtATime, Quiet, TypeOK
<1>5. \A l \in Loads : ~LoadBusy(l) /\ ~LoadBusy(l)'
  BY <1>1, <1>2 DEF OneAtATime, Quiet, LoadBusy
<1>6. reset # "clear"
  BY <1>2 DEF OneAtATime, Quiet
<1>7. OneAtATime'
  BY <1>1, <1>4, <1>5, <1>6 DEF OneAtATime, LoadBusy
<1> QED
  BY <1>4, <1>5, <1>6, <1>7

\* A step of a load is of the only operation under way.
LEMMA LoadTurn ==
    ASSUME Serial, TypeOK, OneAtATime, NEW l \in Loads, StartLoad(l) \/ Load(l)
    PROVE  /\ OneAtATime' /\ reset # "clear"
           /\ \A b \in Builds : bpc[b] \in Ended /\ bpc'[b] = bpc[b]
           /\ \A k \in Loads \ {l} : ~LoadBusy(k) /\ ~LoadBusy(k)'
<1>1. UNCHANGED <<bpc, reset>>
  BY DEF StartLoad, Load, CacheGet, LoadRow, Retrieve, StaleObject, DropJob, ApplyBatch,
         ClearAfterApply, Reload, CacheFill, SetSentinel, build
<1>2. LoadBusy(l) \/ Quiet
  BY DEF StartLoad, Load, CacheGet, LoadRow, Retrieve, StaleObject, DropJob, ApplyBatch,
         ClearAfterApply, Reload, CacheFill, SetSentinel, MayStart, LoadBusy
<1>3. lpc' = lpc \/ \E w : lpc' = [lpc EXCEPT ![l] = w]
  BY DEF StartLoad, Load, CacheGet, LoadRow, Retrieve, StaleObject, DropJob, ApplyBatch,
         ClearAfterApply, Reload, CacheFill, SetSentinel, LoadAt, Answer, load
<1>4. sentinels' \subseteq sentinels \cup {l}
  BY DEF StartLoad, Load, CacheGet, LoadRow, Retrieve, StaleObject, DropJob, ApplyBatch,
         ClearAfterApply, Reload, CacheFill, SetSentinel
<1>5. \A k \in Loads \ {l} : ~LoadBusy(k) /\ ~LoadBusy(k)'
  BY <1>2, <1>3, <1>4 DEF OneAtATime, Quiet, LoadBusy, TypeOK
<1>6. \A b \in Builds : bpc[b] \in Ended /\ bpc'[b] = bpc[b]
  BY <1>1, <1>2 DEF OneAtATime, Quiet
<1>7. reset # "clear"
  BY <1>2 DEF OneAtATime, Quiet
<1>8. OneAtATime'
  BY <1>1, <1>5, <1>6, <1>7 DEF OneAtATime
<1> QED
  BY <1>5, <1>6, <1>7, <1>8

\* A build that is alone merges, and submits, the row as it is.
LEMMA BuildCurrent ==
    ASSUME Serial, IInv, OneAtATime, Current, NEW b \in Builds,
           StartBuild(b) \/ Build(b) \/ CrashBuild(b)
    PROVE  Current'
<1>1. /\ \A c \in Builds \ {b} : bpc'[c] \in Ended
      /\ \A l \in Loads : lpc'[l] = "done"
  BY BuildTurn DEF LoadBusy, IInv
<1>2. bpc'[b] \in {"merge", "submit", "store"} => mine'[b] = row'
  BY DEF StartBuild, Build, Extract, Read, MergeCommit, MergeFails, InvalidateCache, CheckThreshold,
         SubmitBatch, StoreJob, CrashBuild, Goto, Return, Current, IInv, TypeOK, Ended
<1>3. bpc'[b] \in {"submit", "store"} => row'.job = None
  BY DEF StartBuild, Build, Extract, Read, MergeCommit, MergeFails, InvalidateCache, CheckThreshold,
         SubmitBatch, StoreJob, CrashBuild, Goto, Return, Current, IInv, TypeOK, Ended, Due
<1> QED
  BY <1>1, <1>2, <1>3 DEF Current, Ended

\* A load that is alone shows the row as it is.
LEMMA LoadCurrent ==
    ASSUME Serial, IInv, OneAtATime, Current, NEW l \in Loads, StartLoad(l) \/ Load(l)
    PROVE  Current'
<1>1. /\ \A b \in Builds : bpc'[b] \in Ended
      /\ \A k \in Loads \ {l} : lpc'[k] = "done"
  BY LoadTurn DEF LoadBusy, IInv
<1> DEFINE Shown == /\ lpc'[l] \in {"retrieve", "drop", "apply"} => seen'[l] = row'
                    /\ lpc'[l] \in {"clear", "reload", "fill"} =>
                         row' # None /\ seen'[l].id = row'.id /\ seen'[l].doc = row'.doc
<1>2. ASSUME StartLoad(l) \/ CacheGet(l) \/ StaleObject(l) \/ CacheFill(l) PROVE Shown
  BY <1>2 DEF StartLoad, CacheGet, StaleObject, CacheFill, LoadAt, Answer, IInv, TypeOK
<1>3. ASSUME LoadRow(l) PROVE Shown
  BY <1>3 DEF LoadRow, LoadAt, Answer, IInv, TypeOK
<1>4. ASSUME Retrieve(l) PROVE Shown
  BY <1>4 DEF Retrieve, LoadAt, IInv, TypeOK, Held, Current
<1>5. ASSUME DropJob(l) PROVE Shown
  <2>1. row \in Row /\ seen[l] = row /\ row' = [row EXCEPT !.job = None]
    BY <1>5 DEF DropJob, StillThere, IInv, TypeOK, Current
  <2>2. row' # None /\ row'.id = row.id /\ row'.doc = row.doc
    BY <2>1, MemoryStoreAssumption DEF Row
  <2> QED
    BY <1>5, <2>1, <2>2 DEF DropJob, LoadAt, IInv, TypeOK
<1>6. ASSUME ApplyBatch(l) PROVE Shown
  <2> DEFINE doc == batch[seen[l].job].doc
  <2>1. /\ row \in Row /\ seen[l] = row
        /\ row' = [row EXCEPT !.doc = doc, !.job = None,
                              !.since = IF seen[l].since = 0 THEN row.since ELSE 0]
        /\ seen'[l] = [seen[l] EXCEPT !.doc = doc]
    BY <1>6 DEF ApplyBatch, StillThere, IInv, TypeOK, Current
  <2>2. row'.id = row.id /\ row'.doc = doc /\ seen'[l].id = row.id /\ seen'[l].doc = doc
    BY <2>1 DEF Row
  <2>3. row' # None
    <3>1. row.since \in Nat /\ row.job \in Builds
      BY <1>6, <2>1 DEF Row, IInv, Held, ApplyBatch
    <3>2. JobKnown(row.job)
      BY <1>6, <2>1, <3>1, MemoryStoreAssumption DEF IInv, Traced, Objects, FromPast, Held, ApplyBatch
    <3>3. doc \in Doc
      BY <2>1, <3>1, <3>2, BatchExcept DEF JobKnown, IInv, TypeOK
    <3>4. row' \in Row
      BY <2>1, <3>1, <3>3, RowExcept
    <3> QED
      BY <3>4, MemoryStoreAssumption
  <2> QED
    BY <1>6, <2>2, <2>3 DEF ApplyBatch, LoadAt, IInv, TypeOK
<1>7. ASSUME ClearAfterApply(l) PROVE Shown
  BY <1>7 DEF ClearAfterApply, LoadAt, IInv, TypeOK, Current
<1>8. ASSUME Reload(l) PROVE Shown
  BY <1>8 DEF Reload, LoadAt, Answer, StillThere, IInv, TypeOK, Held, Current
<1>9. ASSUME SetSentinel(l) PROVE Shown
  BY <1>9 DEF SetSentinel, load, IInv, TypeOK, Current
<1>10. Shown
  BY <1>2, <1>3, <1>4, <1>5, <1>6, <1>7, <1>8, <1>9 DEF Load
<1> QED
  BY <1>1, <1>10 DEF Current, Ended

\* With operations that wait for each other, one is under way and what it holds is current.
LEMMA NextSerial == IInv /\ SerialInv /\ [Next]_vars => SerialInv'
<1> SUFFICES ASSUME Serial, IInv, OneAtATime, Current, [Next]_vars
             PROVE  OneAtATime' /\ Current'
  BY DEF SerialInv
<1>1. ASSUME NEW b \in Builds, StartBuild(b) \/ Build(b) \/ CrashBuild(b)
      PROVE  OneAtATime' /\ Current'
  BY <1>1, BuildTurn, BuildCurrent DEF IInv
<1>2. ASSUME NEW l \in Loads, StartLoad(l) \/ Load(l)
      PROVE  OneAtATime' /\ Current'
  BY <1>2, LoadTurn, LoadCurrent DEF IInv
<1>3. CASE UNCHANGED <<row, sentinels, bpc, mine, lpc, seen, reset>>
  BY <1>3 DEF OneAtATime, Current, LoadBusy
<1>4. CASE ResetDelete
  <2>1. (\A b \in Builds : bpc'[b] \in Ended) /\ (\A l \in Loads : lpc'[l] = "done" /\ l \notin sentinels')
    BY <1>4 DEF ResetDelete, MayStart, Quiet, build, load
  <2> QED
    BY <2>1 DEF OneAtATime, Current, LoadBusy, Ended
<1>5. CASE ResetInvalidate
  BY <1>5 DEF ResetInvalidate, OneAtATime, Current, LoadBusy, build, load
<1>6. ASSUME NEW b \in Builds, BatchEnds(b)
      PROVE  UNCHANGED <<row, sentinels, bpc, mine, lpc, seen, reset>>
  BY <1>6 DEF BatchEnds, build, load
<1>7. Expire \/ UNCHANGED vars => UNCHANGED <<row, sentinels, bpc, mine, lpc, seen, reset>>
  BY DEF Expire, vars, build, load
<1> QED
  BY <1>1, <1>2, <1>3, <1>4, <1>5, <1>6, <1>7 DEF Next

LEMMA InitSerial == Init => SerialInv
BY DEF Init, SerialInv, OneAtATime, Current, LoadBusy, Ended

-----------------------------------------------------------------------------
(* No batch is forgotten *)

Alive(b) == batch[b] # None /\ b \notin dealt /\ batch[b].doc \cap wiped = {}

\* No document is empty, and a build that has submitted nothing has no job.
Submissions ==
    /\ row # None => row.doc # {}
    /\ \A b \in Builds : mine[b] # None => mine[b].doc # {}
    /\ \A b \in Builds : batch[b] # None => batch[b].doc # {}
    /\ \A b \in Builds : bpc[b] \notin {"store", "built", "failed"} => batch[b] = None

\* What a build is submitting is on the row, which waits for its job.
Awaited ==
    \A b \in Builds : bpc[b] \in {"submit", "store"} /\ mine[b].doc \cap wiped = {} =>
        row # None /\ row.id = mine[b].id /\ mine[b].doc \subseteq row.doc /\ row.job = None

\* What a build has submitted is on the row, which names its job.
Pending ==
    \A b \in Builds : bpc[b] = "built" /\ Alive(b) =>
        row # None /\ row.job = b /\ batch[b].doc \subseteq row.doc

\* A load asks for the job that the row names, or named last.
Asked ==
    \A l \in Loads :
        lpc[l] \in {"retrieve", "drop", "apply"} /\ row # None /\ row.id = seen[l].id =>
            row.job \in {None, seen[l].job}

OrphanInv == Submissions /\ Awaited /\ Pending /\ Asked

\* Either every operation waits for the one before it, or there is one build.
Lone == Serial \/ \A b, c \in Builds : b = c

\* No two builds are under way.
LEMMA LoneBuild ==
    ASSUME Lone, IInv, SerialInv, NEW b \in Builds, NEW c \in Builds,
           bpc[b] \notin Ended, bpc[c] \notin Ended
    PROVE  b = c
BY DEF Lone, SerialInv, OneAtATime

\* Steps of a build before it submits, or after it failed, leave what is pending alone.
LEMMA QuietBuildOrphan ==
    ASSUME IInv, OrphanInv, NEW b \in Builds,
           \/ StartBuild(b) \/ Extract(b) \/ Read(b) \/ MergeFails(b) \/ InvalidateCache(b)
           \/ CrashBuild(b)
    PROVE  OrphanInv'
<1>1. UNCHANGED <<row, batch, dealt, wiped, lpc, seen>>
  BY DEF StartBuild, Extract, Read, MergeFails, InvalidateCache, CrashBuild, jobs, load, history
<1>2. mine' = mine \/ (bpc'[b] = "merge" /\ mine' = [mine EXCEPT ![b] = row])
  BY DEF StartBuild, Extract, Read, MergeFails, InvalidateCache, CrashBuild, Goto, IInv, TypeOK
<1>3. /\ \A c \in Builds \ {b} : bpc'[c] = bpc[c]
      /\ bpc'[b] \notin {"submit", "store", "built"}
      /\ bpc'[b] # "failed" => bpc[b] \notin {"store", "built", "failed"}
  BY DEF StartBuild, Extract, Read, MergeFails, InvalidateCache, CrashBuild, Goto, IInv, TypeOK, Ended
<1>4. Submissions'
  BY <1>1, <1>2, <1>3 DEF OrphanInv, Submissions, IInv, TypeOK
<1>5. Awaited'
  BY <1>1, <1>2, <1>3 DEF OrphanInv, Awaited, IInv, TypeOK
<1>6. Pending'
  BY <1>1, <1>3 DEF OrphanInv, Pending, Alive
<1>7. Asked'
  BY <1>1 DEF OrphanInv, Asked
<1> QED
  BY <1>4, <1>5, <1>6, <1>7 DEF OrphanInv

\* A merge keeps the row's job and what that job consolidates.
LEMMA MergeOrphan ==
    ASSUME Lone, IInv, SerialInv, OrphanInv, NEW b \in Builds, MergeCommit(b)
    PROVE  OrphanInv'
<1>1. /\ UNCHANGED <<mine, batch, dealt, wiped, lpc, seen>>
      /\ bpc[b] = "merge" /\ bpc'[b] = "clear" /\ \A c \in Builds \ {b} : bpc'[c] = bpc[c]
  BY DEF MergeCommit, Goto, jobs, load, history, IInv, TypeOK
<1>2. \A c \in Builds : bpc'[c] \notin {"submit", "store"}
  BY <1>1, LoneBuild DEF Ended
<1>3. CASE row = None /\ row' = [id |-> b, doc |-> {b}, since |-> 1, job |-> None]
  <2>1. row'.doc = {b} /\ row'.job = None
    BY <1>3
  <2>2. Submissions'
    BY <1>1, <2>1 DEF OrphanInv, Submissions
  <2>3. Pending'
    BY <1>1, <1>3 DEF OrphanInv, Pending, Alive
  <2> QED
    BY <1>2, <2>1, <2>2, <2>3 DEF OrphanInv, Awaited, Asked
<1>4. CASE StillThere(mine[b]) /\ row' = [row EXCEPT !.doc = mine[b].doc \cup {b}, !.since = mine[b].since + 1]
  <2>1. row # None /\ row \in Row
    BY <1>4 DEF StillThere, IInv, TypeOK
  <2>2. row'.id = row.id /\ row'.doc = mine[b].doc \cup {b} /\ row'.job = row.job
    BY <1>4, <2>1 DEF Row
  <2>3. Serial => mine[b] = row
    BY <1>1 DEF SerialInv, Current
  <2>4. row' # None
    <3>1. mine[b] \in Row
      BY <1>4 DEF StillThere, IInv, TypeOK
    <3>2. mine[b].doc \cup {b} \in Doc /\ mine[b].since + 1 \in Nat
      BY <3>1 DEF Row, Doc
    <3>3. row' \in Row
      BY <1>4, <2>1, <3>2, RowExcept
    <3> QED
      BY <3>3, MemoryStoreAssumption
  <2>5. Submissions'
    BY <1>1, <2>2 DEF OrphanInv, Submissions
  <2>6. ASSUME NEW c \in Builds, bpc'[c] = "built", Alive(c)'
        PROVE  row'.job = c /\ batch'[c].doc \subseteq row'.doc
    <3>1. c # b /\ bpc[c] = "built" /\ Alive(c)
      BY <1>1, <2>6 DEF Alive
    <3>2. Serial
      BY <3>1 DEF Lone
    <3> QED
      BY <1>1, <2>2, <2>3, <3>1, <3>2 DEF OrphanInv, Pending
  <2>7. Asked'
    BY <1>1, <2>1, <2>2 DEF OrphanInv, Asked
  <2> QED
    BY <1>2, <2>4, <2>5, <2>6, <2>7 DEF OrphanInv, Awaited, Pending
<1> QED
  BY <1>3, <1>4 DEF MergeCommit

\* The row that is submitted waits for its job.
LEMMA CheckOrphan ==
    ASSUME IInv, OrphanInv, NEW b \in Builds, CheckThreshold(b)
    PROVE  OrphanInv'
<1>1. /\ UNCHANGED <<row, batch, dealt, wiped, lpc, seen>>
      /\ bpc[b] = "check" /\ \A c \in Builds \ {b} : bpc'[c] = bpc[c]
  BY DEF CheckThreshold, Goto, Return, jobs, load, IInv, TypeOK
<1>2. batch[b] = None
  BY <1>1 DEF OrphanInv, Submissions
<1>3. \/ /\ bpc'[b] = "submit" /\ mine' = [mine EXCEPT ![b] = row]
         /\ row # None /\ row.job = None
      \/ bpc'[b] = "built" /\ mine' = mine
  BY DEF CheckThreshold, Due, Goto, Return, IInv, TypeOK
<1>4. Submissions'
  BY <1>1, <1>2, <1>3 DEF OrphanInv, Submissions, IInv, TypeOK
<1>5. Awaited'
  BY <1>1, <1>3 DEF OrphanInv, Awaited, IInv, TypeOK
<1>6. Pending'
  BY <1>1, <1>2, <1>3 DEF OrphanInv, Pending, Alive
<1>7. Asked'
  BY <1>1 DEF OrphanInv, Asked
<1> QED
  BY <1>4, <1>5, <1>6, <1>7 DEF OrphanInv

LEMMA SubmitOrphan ==
    ASSUME IInv, OrphanInv, NEW b \in Builds, SubmitBatch(b)
    PROVE  OrphanInv'
<1>1. /\ UNCHANGED <<row, mine, dealt, wiped, lpc, seen>>
      /\ bpc[b] = "submit" /\ \A c \in Builds \ {b} : bpc'[c] = bpc[c]
  BY DEF SubmitBatch, Goto, Return, load, IInv, TypeOK
<1>2. batch[b] = None /\ mine[b] # None /\ mine[b].doc # {}
  BY <1>1 DEF OrphanInv, Submissions, IInv, Held
<1>3. \/ /\ bpc'[b] = "store"
         /\ batch' = [batch EXCEPT ![b] = [state |-> "running", doc |-> mine[b].doc]]
      \/ bpc'[b] = "built" /\ batch' = batch
  BY DEF SubmitBatch, Goto, Return, IInv, TypeOK
<1>4. batch'[b] # None => batch'[b].doc = mine[b].doc
  BY <1>2, <1>3 DEF IInv, TypeOK
<1>5. \A c \in Builds \ {b} : batch'[c] = batch[c]
  BY <1>3 DEF IInv, TypeOK
<1>6. Submissions'
  BY <1>1, <1>2, <1>3, <1>4, <1>5 DEF OrphanInv, Submissions
<1>7. Awaited'
  BY <1>1, <1>3 DEF OrphanInv, Awaited
<1>8. Pending'
  BY <1>1, <1>2, <1>3, <1>5 DEF OrphanInv, Pending, Alive
<1>9. Asked'
  BY <1>1 DEF OrphanInv, Asked
<1> QED
  BY <1>6, <1>7, <1>8, <1>9 DEF OrphanInv

\* The row takes the job, and had none.
LEMMA StoreOrphan ==
    ASSUME Lone, IInv, SerialInv, OrphanInv, NEW b \in Builds, StoreJob(b)
    PROVE  OrphanInv'
<1>1. /\ UNCHANGED <<mine, batch, dealt, wiped, lpc, seen>>
      /\ bpc[b] = "store" /\ bpc'[b] = "built" /\ \A c \in Builds \ {b} : bpc'[c] = bpc[c]
      /\ mine[b] # None /\ batch[b].doc = mine[b].doc
  BY DEF StoreJob, Goto, Return, jobs, load, IInv, TypeOK, Held
<1>2. \A c \in Builds : bpc'[c] \notin {"submit", "store"}
  BY <1>1, LoneBuild DEF Ended
<1>3. CASE StillThere(mine[b])
  <2>1. row # None /\ row \in Row /\ row' = [row EXCEPT !.job = b]
    BY <1>3 DEF StoreJob, StillThere, IInv, TypeOK
  <2>2. row'.id = row.id /\ row'.doc = row.doc /\ row'.job = b /\ row' \in Row
    BY <2>1, RowExcept DEF Row
  <2>3. mine[b].doc \cap wiped = {}
    BY <1>1, <1>3 DEF StillThere, IInv, Clean, CleanObject, Objects
  <2>4. row.job = None /\ mine[b].doc \subseteq row.doc
    BY <1>1, <2>3 DEF OrphanInv, Awaited
  <2>5. Submissions'
    BY <1>1, <2>1, <2>2 DEF OrphanInv, Submissions
  <2>6. ASSUME NEW c \in Builds, bpc'[c] = "built", Alive(c)'
        PROVE  c = b
    BY <1>1, <2>4, <2>6, MemoryStoreAssumption DEF OrphanInv, Pending, Alive
  <2>7. Pending'
    BY <1>1, <2>2, <2>4, <2>6, MemoryStoreAssumption DEF Pending
  <2>8. ASSUME NEW l \in Loads, lpc'[l] \in {"retrieve", "drop", "apply"}
        PROVE  seen'[l].job = b
    <3>1. ~Serial
      BY <1>1, <2>8 DEF SerialInv, OneAtATime, LoadBusy, Ended
    <3>2. seen[l] \in Row /\ seen[l].job # None
      BY <1>1, <2>8 DEF IInv, Held, TypeOK
    <3>3. seen[l].job \in Builds
      BY <3>2 DEF Row
    <3> QED
      BY <1>1, <3>1, <3>3 DEF Lone
  <2> QED
    BY <1>2, <2>2, <2>5, <2>7, <2>8 DEF OrphanInv, Awaited, Asked
<1>4. CASE ~StillThere(mine[b])
  <2>1. row' = row
    BY <1>4 DEF StoreJob
  <2>2. ~Alive(b)
    BY <1>1, <1>4 DEF OrphanInv, Awaited, Alive, StillThere
  <2>3. Submissions' /\ Asked'
    BY <1>1, <2>1 DEF OrphanInv, Submissions, Asked
  <2>4. Pending'
    BY <1>1, <2>1, <2>2 DEF OrphanInv, Pending, Alive
  <2> QED
    BY <1>2, <2>3, <2>4 DEF OrphanInv, Awaited
<1> QED
  BY <1>3, <1>4

\* A job that ends keeps its document.
LEMMA EndOrphan ==
    ASSUME IInv, OrphanInv, NEW b \in Builds, BatchEnds(b)
    PROVE  OrphanInv'
<1>1. UNCHANGED <<row, bpc, mine, dealt, wiped, lpc, seen>>
  BY DEF BatchEnds, build, load, history
<1>2. PICK s \in BatchResults : batch' = [batch EXCEPT ![b].state = s]
  BY DEF BatchEnds
<1>3. batch[b] # None /\ batch[b] \in Batch /\ batch' = [batch EXCEPT ![b] = [batch[b] EXCEPT !.state = s]]
  BY <1>2 DEF BatchEnds, IInv, TypeOK
<1>4. [batch[b] EXCEPT !.state = s] \in Batch /\ [batch[b] EXCEPT !.state = s].doc = batch[b].doc
  BY <1>3, BatchExcept, MemoryStoreAssumption
<1>5. \A c \in Builds : /\ batch'[c] = None <=> batch[c] = None
                        /\ batch[c] # None => batch'[c].doc = batch[c].doc
  BY <1>3, <1>4, MemoryStoreAssumption DEF IInv, TypeOK
<1>6. \A c \in Builds : Alive(c)' <=> Alive(c)
  BY <1>1, <1>5 DEF Alive
<1>7. Submissions'
  BY <1>1, <1>5 DEF OrphanInv, Submissions
<1>8. Pending'
  BY <1>1, <1>5, <1>6 DEF OrphanInv, Pending, Alive
<1> QED
  BY <1>1, <1>7, <1>8 DEF OrphanInv, Awaited, Asked

\* Steps of a load that leave the row alone.
LEMMA QuietLoadOrphan ==
    ASSUME IInv, OrphanInv, NEW l \in Loads,
           \/ StartLoad(l) \/ CacheGet(l) \/ LoadRow(l) \/ Retrieve(l) \/ StaleObject(l)
           \/ ClearAfterApply(l) \/ Reload(l) \/ CacheFill(l) \/ SetSentinel(l)
    PROVE  OrphanInv'
<1>1. UNCHANGED <<row, bpc, mine, batch, dealt, wiped>>
  BY DEF StartLoad, CacheGet, LoadRow, Retrieve, StaleObject, ClearAfterApply, Reload, CacheFill,
         SetSentinel, build, jobs, history
<1>2. \A k \in Loads \ {l} : lpc'[k] = lpc[k] /\ seen'[k] = seen[k]
  BY DEF StartLoad, CacheGet, LoadRow, Retrieve, StaleObject, ClearAfterApply, Reload, CacheFill,
         SetSentinel, LoadAt, Answer, load, IInv, TypeOK
<1>3. \/ lpc'[l] = lpc[l] /\ seen'[l] = seen[l]
      \/ lpc[l] = "retrieve" /\ seen'[l] = seen[l]
      \/ lpc'[l] = "retrieve" /\ seen'[l] = row
      \/ lpc'[l] \notin {"retrieve", "drop", "apply"}
  BY DEF StartLoad, CacheGet, LoadRow, Retrieve, StaleObject, ClearAfterApply, Reload, CacheFill,
         SetSentinel, LoadAt, Answer, load, IInv, TypeOK
<1>4. Asked'
  BY <1>1, <1>2, <1>3 DEF OrphanInv, Asked
<1> QED
  BY <1>1, <1>4 DEF OrphanInv, Submissions, Awaited, Pending, Alive

\* A load deals with the job that the row names.
LEMMA DealOrphan ==
    ASSUME Lone, IInv, SerialInv, OrphanInv, NEW l \in Loads, DropJob(l) \/ ApplyBatch(l)
    PROVE  OrphanInv'
<1>1. /\ UNCHANGED <<bpc, mine, batch, wiped>> /\ dealt' = dealt \cup {seen[l].job}
      /\ lpc[l] \in {"drop", "apply"} /\ row # None /\ row \in Row /\ row.id = seen[l].id
      /\ seen[l] # None /\ seen[l] \in Row /\ seen[l].job # None
  BY DEF DropJob, ApplyBatch, StillThere, build, history, IInv, TypeOK, Held
<1> DEFINE j == seen[l].job
<1>2. j \in Builds /\ bpc[j] = "built" /\ batch[j] # None /\ batch[j] \in Batch
  <2>1. FromPast(seen[l])
    BY <1>1 DEF IInv, Traced, Objects
  <2>2. j \in Builds
    BY <1>1 DEF Row
  <2> QED
    BY <1>1, <2>1, <2>2 DEF FromPast, JobKnown, IInv, TypeOK
<1>3. /\ row'.job = None /\ row'.id = row.id
      /\ row'.doc = row.doc \/ (row'.doc = batch[j].doc /\ ApplyBatch(l))
  <2>1. CASE DropJob(l)
    BY <1>1, <2>1 DEF DropJob, Row
  <2>2. CASE ApplyBatch(l)
    BY <1>1, <2>2 DEF ApplyBatch, Row
  <2> QED
    BY <2>1, <2>2
<1>4. row' # None
  <2>1. CASE DropJob(l)
    <3>1. row' = [row EXCEPT !.job = None] /\ [row EXCEPT !.job = None] \in Row
      BY <1>1, <2>1 DEF DropJob, Row
    <3> QED
      BY <3>1, MemoryStoreAssumption
  <2>2. CASE ApplyBatch(l)
    <3> DEFINE doc == batch[j].doc
               n == IF seen[l].since = 0 THEN row.since ELSE 0
    <3>1. row' = [row EXCEPT !.doc = doc, !.job = None, !.since = n]
      BY <2>2 DEF ApplyBatch
    <3>2. doc \in Doc /\ n \in Nat
      BY <1>1, <1>2, BatchExcept DEF Row
    <3> HIDE DEF doc, n
    <3>3. row' \in Row
      BY <1>1, <3>1, <3>2, RowExcept
    <3> QED
      BY <3>3, MemoryStoreAssumption
  <2> QED
    BY <2>1, <2>2
<1>5. Submissions'
  BY <1>1, <1>2, <1>3 DEF OrphanInv, Submissions
<1>6. \A c \in Builds : bpc'[c] = "built" => ~Alive(c)'
  <2>1. row.job \in {None, j}
    BY <1>1 DEF OrphanInv, Asked
  <2> QED
    BY <1>1, <2>1, MemoryStoreAssumption DEF OrphanInv, Pending, Alive
<1>7. Awaited'
  <2> SUFFICES ASSUME NEW c \in Builds, bpc[c] \in {"submit", "store"}, mine[c].doc \cap wiped = {}
               PROVE  /\ row' # None /\ row'.id = mine[c].id
                      /\ mine[c].doc \subseteq row'.doc /\ row'.job = None
    BY <1>1 DEF Awaited
  <2>1. ~Serial
    BY <1>1 DEF SerialInv, OneAtATime, LoadBusy, Ended
  <2>2. FALSE
    BY <1>2, <2>1 DEF Lone
  <2> QED
    BY <2>2
<1> QED
  BY <1>3, <1>5, <1>6, <1>7 DEF OrphanInv, Pending, Asked

\* A reset wipes what was awaited or pending.
LEMMA ResetOrphan ==
    ASSUME IInv, OrphanInv, ResetDelete
    PROVE  OrphanInv'
<1>1. /\ UNCHANGED <<bpc, mine, batch, dealt, lpc, seen>> /\ row' = None
      /\ wiped' = wiped \cup (IF row = None THEN {} ELSE row.doc)
  BY DEF ResetDelete, build, jobs, load
<1>2. Submissions'
  BY <1>1 DEF OrphanInv, Submissions
<1>3. \A b \in Builds : bpc[b] \in {"submit", "store"} => mine[b].doc \cap wiped' # {}
  BY <1>1 DEF OrphanInv, Awaited, Submissions, IInv, Held
<1>4. \A b \in Builds : bpc[b] = "built" => ~Alive(b)'
  BY <1>1 DEF OrphanInv, Pending, Submissions, Alive
<1> QED
  BY <1>1, <1>2, <1>3, <1>4 DEF OrphanInv, Awaited, Pending, Asked

LEMMA NextOrphan ==
    ASSUME Lone
    PROVE  IInv /\ SerialInv /\ OrphanInv /\ [Next]_vars => OrphanInv'
<1> SUFFICES ASSUME IInv, SerialInv, OrphanInv, [Next]_vars PROVE OrphanInv'
  OBVIOUS
<1>1. ASSUME NEW b \in Builds, StartBuild(b) \/ Build(b) \/ CrashBuild(b) \/ BatchEnds(b)
      PROVE  OrphanInv'
  BY <1>1, QuietBuildOrphan, MergeOrphan, CheckOrphan, SubmitOrphan, StoreOrphan, EndOrphan DEF Build
<1>2. ASSUME NEW l \in Loads, StartLoad(l) \/ Load(l)
      PROVE  OrphanInv'
  BY <1>2, QuietLoadOrphan, DealOrphan DEF Load
<1>3. CASE Expire \/ ResetInvalidate \/ UNCHANGED vars
  <2>1. UNCHANGED <<row, bpc, mine, batch, dealt, wiped, lpc, seen>>
    BY <1>3 DEF Expire, ResetInvalidate, vars, build, jobs, load, history
  <2> QED
    BY <2>1 DEF OrphanInv, Submissions, Awaited, Pending, Asked, Alive
<1> QED
  BY <1>1, <1>2, <1>3, ResetOrphan DEF Next

LEMMA InitOrphan == Init => OrphanInv
BY DEF Init, OrphanInv, Submissions, Awaited, Pending, Asked

\* A batch that was submitted is the row's pending job until its result is dealt
\* with or the user resets the memory: for a single build, whatever is concurrent
\* with it, and for any number of operations that wait for each other, with
\* crashes and failed calls.
THEOREM NoJobForgotten ==
    ASSUME Lone
    PROVE  Spec => []NoOrphanBatch
<1>1. Pending => NoOrphanBatch
  BY DEF Pending, NoOrphanBatch, Alive
<1>2. OrphanInv => NoOrphanBatch
  BY <1>1 DEF OrphanInv
<1> QED
  BY InitInv, NextInv, InitSerial, NextSerial, InitOrphan, NextOrphan, <1>2, PTL DEF Spec

-----------------------------------------------------------------------------
(* A reset is forgotten by the cache too *)

\* The key holds nothing wiped, but while the reset has not deleted it yet; a
\* load that has ended showed nothing that was wiped when it started.
ForgetInv ==
    /\ cache # None /\ reset # "clear" => cache \cap wiped = {}
    /\ \A l \in Loads : due[l].wiped \subseteq wiped
    /\ ResetForgets

\* A load shows, and caches, the row or the key as they are.
LEMMA LoadForgets ==
    ASSUME Serial, IInv, SerialInv, ForgetInv, NEW l \in Loads, StartLoad(l) \/ Load(l)
    PROVE  ForgetInv'
<1>1. UNCHANGED <<owed, wiped, reset>> /\ reset # "clear"
  <2>1. UNCHANGED <<owed, wiped, reset>>
    BY DEF StartLoad, Load, CacheGet, LoadRow, Retrieve, StaleObject, DropJob, ApplyBatch,
           ClearAfterApply, Reload, CacheFill, SetSentinel, history
  <2> QED
    BY <2>1, LoadTurn DEF SerialInv, IInv
<1>2. \A k \in Loads \ {l} : lpc'[k] = lpc[k] /\ due'[k] = due[k] /\ context'[k] = context[k]
  BY DEF StartLoad, Load, CacheGet, LoadRow, Retrieve, StaleObject, DropJob, ApplyBatch,
         ClearAfterApply, Reload, CacheFill, SetSentinel, LoadAt, Answer, load, IInv, TypeOK
<1>3. /\ due'[l] = due[l] \/ due'[l] = [owed |-> owed, wiped |-> wiped]
      /\ StartLoad(l) \/ due'[l] = due[l]
  BY DEF StartLoad, Load, CacheGet, LoadRow, Retrieve, StaleObject, DropJob, ApplyBatch,
         ClearAfterApply, Reload, CacheFill, SetSentinel, LoadAt, Answer, load, IInv, TypeOK
<1>4. lpc[l] = "fill" => seen[l].doc \cap wiped = {}
  BY DEF SerialInv, Current, IInv, Clean, CleanObject, Objects
<1>5. cache' \in {None, cache, {}} \/ (lpc[l] = "fill" /\ cache' = seen[l].doc)
  BY DEF StartLoad, Load, CacheGet, LoadRow, Retrieve, StaleObject, DropJob, ApplyBatch,
         ClearAfterApply, Reload, CacheFill, SetSentinel
<1>6. \/ lpc'[l] # "done"
      \/ lpc'[l] = lpc[l] /\ context'[l] = context[l]
      \/ context'[l] = {}
      \/ cache # None /\ context'[l] = cache
      \/ lpc[l] = "fill" /\ context'[l] = seen[l].doc
  <2>1. StartLoad(l) \/ Retrieve(l) \/ DropJob(l) \/ ApplyBatch(l) \/ ClearAfterApply(l)
          => lpc'[l] # "done"
    BY DEF StartLoad, Retrieve, DropJob, ApplyBatch, ClearAfterApply, LoadAt, IInv, TypeOK
  <2>2. LoadRow(l) \/ StaleObject(l) \/ Reload(l) => lpc'[l] # "done" \/ context'[l] = {}
    BY DEF LoadRow, StaleObject, Reload, LoadAt, Answer, IInv, TypeOK
  <2>3. CacheGet(l) => lpc'[l] # "done" \/ (cache # None /\ context'[l] = cache)
    BY DEF CacheGet, LoadAt, Answer, IInv, TypeOK
  <2>4. CacheFill(l) => lpc[l] = "fill" /\ context'[l] = seen[l].doc
    BY DEF CacheFill, LoadAt, Answer, IInv, TypeOK
  <2>5. SetSentinel(l) => lpc'[l] = lpc[l] /\ context'[l] = context[l]
    BY DEF SetSentinel, load
  <2> QED
    BY <2>1, <2>2, <2>3, <2>4, <2>5 DEF Load
<1>7. lpc'[l] = "done" => due'[l].wiped \cap context'[l] = {}
  <2>1. StartLoad(l) => lpc'[l] # "done"
    BY DEF StartLoad, LoadAt, IInv, TypeOK
  <2> QED
    BY <1>1, <1>3, <1>4, <1>6, <2>1 DEF ForgetInv, ResetForgets
<1>8. cache' # None => cache' \cap wiped' = {}
  BY <1>1, <1>4, <1>5 DEF ForgetInv
<1>9. due'[l].wiped \subseteq wiped'
  BY <1>1, <1>3 DEF ForgetInv
<1> QED
  BY <1>1, <1>2, <1>7, <1>8, <1>9 DEF ForgetInv, ResetForgets

LEMMA NextForgets ==
    ASSUME Serial, ~MayCrash
    PROVE  IInv /\ SerialInv /\ ForgetInv /\ [Next]_vars => ForgetInv'
<1> SUFFICES ASSUME IInv, SerialInv, ForgetInv, [Next]_vars PROVE ForgetInv'
  OBVIOUS
<1>1. ASSUME NEW b \in Builds, StartBuild(b) \/ Build(b) \/ CrashBuild(b) \/ BatchEnds(b)
      PROVE  ForgetInv'
  <2>1. UNCHANGED <<lpc, due, context, wiped, reset>> /\ cache' \in {None, cache}
    BY <1>1 DEF StartBuild, Build, Extract, Read, MergeCommit, MergeFails, InvalidateCache,
                CheckThreshold, SubmitBatch, StoreJob, CrashBuild, BatchEnds, Invalidate, load, history
  <2> QED
    BY <2>1 DEF ForgetInv, ResetForgets
<1>2. ASSUME NEW l \in Loads, StartLoad(l) \/ Load(l)
      PROVE  ForgetInv'
  BY <1>2, LoadForgets
<1>3. CASE Expire \/ ResetInvalidate \/ UNCHANGED vars
  <2>1. UNCHANGED <<lpc, due, context, wiped>>
    BY <1>3 DEF Expire, ResetInvalidate, vars, load, history
  <2>2. cache' = None \/ UNCHANGED <<cache, reset>>
    BY <1>3 DEF Expire, ResetInvalidate, Invalidate, vars
  <2> QED
    BY <2>1, <2>2 DEF ForgetInv, ResetForgets
<1>4. CASE ResetDelete
  <2>1. UNCHANGED <<lpc, due, context>> /\ wiped \subseteq wiped' /\ reset' = "clear"
    BY <1>4 DEF ResetDelete, load
  <2> QED
    BY <2>1 DEF ForgetInv, ResetForgets
<1> QED
  BY <1>1, <1>2, <1>3, <1>4 DEF Next

\* A session started after a reset finds nothing of what the reset deleted, when
\* operations wait for each other and Redis does not fail: consolidations included.
THEOREM ResetForgotten ==
    ASSUME Serial, ~MayCrash
    PROVE  Spec => []ResetForgets
<1>1. Init => ForgetInv
  BY DEF Init, ForgetInv, ResetForgets
<1>2. ForgetInv => ResetForgets
  BY DEF ForgetInv
<1> QED
  BY InitInv, NextInv, InitSerial, NextSerial, NextForgets, <1>1, <1>2, PTL DEF Spec

-----------------------------------------------------------------------------
(* The next session knows *)

\* When there is a key it has all that returned and the row still has; a load
\* past the key found none, and a build past its invalidation left none.  A
\* build returns once, after its merge, and the batch of the row's job is part
\* of the row.
Known ==
    /\ \A b \in owed : bpc[b] = "built"
    /\ \A l \in Loads : \A b \in due[l].owed : bpc[b] = "built"
    /\ \A b \in Builds : bpc[b] \in {"check", "submit", "store"} => cache = None
    /\ \A l \in Loads : lpc[l] \notin {"done", "get"} => cache = None
    /\ cache # None /\ row # None => owed \cap row.doc \subseteq cache
    /\ \A l \in Loads : l \in sentinels => row = None /\ lpc[l] = "done"
    /\ \A l \in Loads : lpc[l] # "done" => due[l].owed = owed
    /\ row # None /\ row.job # None => batch[row.job].doc \subseteq row.doc
    /\ NextSessionKnows

\* A merge adds to the row a build that has not returned.
LEMMA MergeKnown ==
    ASSUME Serial, IInv, SerialInv, Known, NEW b \in Builds, MergeCommit(b)
    PROVE  /\ row' # None /\ \A c \in Builds : bpc[c] = "built" /\ c \in row'.doc => row # None /\ c \in row.doc
           /\ row'.job # None => row # None /\ row'.job = row.job /\ row.doc \subseteq row'.doc
<1>0. bpc[b] = "merge"
  BY DEF MergeCommit
<1>1. CASE row = None /\ row' = [id |-> b, doc |-> {b}, since |-> 1, job |-> None]
  <2>1. row'.doc = {b} /\ row'.job = None
    BY <1>1
  <2>2. row' \in Row
    BY <1>1 DEF Row, Doc
  <2> QED
    BY <1>0, <2>1, <2>2, MemoryStoreAssumption
<1>2. CASE StillThere(mine[b]) /\ row' = [row EXCEPT !.doc = mine[b].doc \cup {b}, !.since = mine[b].since + 1]
  <2>1. row # None /\ mine[b] = row /\ row \in Row
    BY <1>0, <1>2 DEF StillThere, SerialInv, Current, IInv, TypeOK
  <2>2. row.doc \cup {b} \in Doc /\ row.since + 1 \in Nat
    BY <2>1 DEF Row, Doc
  <2>3. row' = [row EXCEPT !.doc = row.doc \cup {b}, !.since = row.since + 1]
    BY <1>2, <2>1
  <2>4. row' \in Row
    <3>1. row \in Row
      BY <2>1
    <3>2. [row EXCEPT !.doc = row.doc \cup {b}, !.since = row.since + 1] \in Row
      BY <2>2, <3>1 DEF Row
    <3> QED
      BY <2>3, <3>2, Zenon
  <2>5. row'.doc = row.doc \cup {b} /\ row'.job = row.job
    BY <2>1, <2>3 DEF Row
  <2>6. row' # None
    BY <2>4, MemoryStoreAssumption
  <2>7. \A c \in Builds : bpc[c] = "built" /\ c \in row'.doc => c \in row.doc
    BY <1>0, <2>5
  <2> QED
    BY <2>1, <2>5, <2>6, <2>7
<1> QED
  BY <1>1, <1>2 DEF MergeCommit

\* A build that is alone: every load has ended, and its own steps reach owed
\* and the key last.
LEMMA BuildKnown ==
    ASSUME Serial, ~MayCrash, IInv, SerialInv, Known, NEW b \in Builds,
           StartBuild(b) \/ Build(b) \/ CrashBuild(b)
    PROVE  Known'
<1>1. /\ \A c \in Builds \ {b} : bpc[c] \in Ended /\ bpc'[c] = bpc[c]
      /\ \A l \in Loads : lpc[l] = "done" /\ l \notin sentinels
  BY BuildTurn DEF SerialInv, IInv, LoadBusy
<1>2. UNCHANGED <<lpc, sentinels, context, due>>
  BY DEF StartBuild, Build, Extract, Read, MergeCommit, MergeFails, InvalidateCache, CheckThreshold,
         SubmitBatch, StoreJob, CrashBuild, load
<1>3. sentinels' = {} /\ \A l \in Loads : lpc'[l] = "done"
  BY <1>1, <1>2 DEF IInv, TypeOK
<1>4. owed \subseteq Builds /\ \A l \in Loads : due[l].owed \subseteq Builds
  BY DEF IInv, TypeOK, Doc
<1>5. bpc[b] # "built"
  BY DEF StartBuild, Build, Extract, Read, MergeCommit, MergeFails, InvalidateCache, CheckThreshold,
         SubmitBatch, StoreJob, CrashBuild, Ended
<1>6. CASE StartBuild(b) \/ Extract(b) \/ Read(b) \/ MergeFails(b)
  <2>1. UNCHANGED <<row, cache, owed, batch>> /\ bpc'[b] \in {"extract", "read", "merge", "failed"}
    BY <1>6 DEF StartBuild, Extract, Read, MergeFails, Goto, IInv, TypeOK, history, jobs
  <2> QED
    BY <1>1, <1>2, <1>3, <1>4, <1>5, <2>1 DEF Known, NextSessionKnows, Ended
<1>7. CASE MergeCommit(b)
  <2>1. UNCHANGED <<cache, owed, batch>> /\ bpc'[b] = "clear"
    BY <1>7 DEF MergeCommit, Goto, IInv, TypeOK, history, jobs
  <2>2. /\ row' # None
        /\ \A c \in Builds : bpc[c] = "built" /\ c \in row'.doc => row # None /\ c \in row.doc
        /\ row'.job # None => row # None /\ row'.job = row.job /\ row.doc \subseteq row'.doc
    BY <1>7, MergeKnown
  <2>3. owed \cap row'.doc # {} => row # None /\ owed \cap row'.doc \subseteq owed \cap row.doc
    BY <1>4, <2>2 DEF Known
  <2>4. \A l \in Loads : due[l].owed \cap row'.doc # {} =>
           row # None /\ due[l].owed \cap row'.doc \subseteq due[l].owed \cap row.doc
    BY <1>4, <2>2 DEF Known
  <2>5. NextSessionKnows'
    BY <1>1, <1>2, <2>4 DEF Known, NextSessionKnows
  <2>6. cache' # None => owed' \cap row'.doc \subseteq cache'
    BY <2>1, <2>3 DEF Known
  <2>7. row'.job # None => batch'[row'.job].doc \subseteq row'.doc
    BY <2>1, <2>2 DEF Known
  <2>8. (\A c \in owed' : bpc'[c] = "built") /\ (\A l \in Loads : \A c \in due'[l].owed : bpc'[c] = "built")
    BY <1>1, <1>2, <1>4, <1>5, <2>1 DEF Known
  <2> QED
    BY <1>1, <1>3, <2>1, <2>5, <2>6, <2>7, <2>8 DEF Known, Ended
<1>8. CASE InvalidateCache(b)
  <2>1. UNCHANGED <<row, owed, batch>> /\ bpc'[b] = "check" /\ cache' = None
    BY <1>8 DEF InvalidateCache, Invalidate, Goto, IInv, TypeOK, history, jobs
  <2> QED
    BY <1>1, <1>2, <1>3, <1>4, <1>5, <2>1 DEF Known, NextSessionKnows, Ended
<1>9. CASE CheckThreshold(b) \/ SubmitBatch(b)
  <2>1. /\ UNCHANGED <<row, cache>> /\ cache = None
        /\ \/ bpc'[b] = "built" /\ owed' = owed \cup {b}
           \/ bpc'[b] \in {"submit", "store"} /\ owed' = owed
    BY <1>9 DEF CheckThreshold, SubmitBatch, Return, Goto, IInv, TypeOK, Known
  <2>2. row # None /\ row.job # None => batch'[row.job].doc \subseteq row.doc
    <3>1. CASE CheckThreshold(b)
      BY <3>1 DEF CheckThreshold, jobs, Known
    <3>2. CASE SubmitBatch(b)
      BY <3>2 DEF SubmitBatch, SerialInv, Current
    <3> QED
      BY <1>9, <3>1, <3>2
  <2>3. (\A c \in owed' : bpc'[c] = "built") /\ (\A l \in Loads : \A c \in due'[l].owed : bpc'[c] = "built")
    BY <1>1, <1>2, <1>4, <1>5, <2>1 DEF Known
  <2>4. NextSessionKnows'
    BY <1>2, <2>1 DEF Known, NextSessionKnows
  <2> QED
    BY <1>1, <1>3, <2>1, <2>2, <2>3, <2>4 DEF Known, Ended
<1>10. CASE StoreJob(b)
  <2>1. /\ cache' = cache /\ cache = None /\ batch' = batch
        /\ bpc[b] = "store" /\ bpc'[b] = "built" /\ owed' = owed \cup {b}
        /\ mine[b] = row /\ row # None /\ batch[b].doc = row.doc /\ row \in Row
    BY <1>10 DEF StoreJob, Return, Goto, jobs, IInv, TypeOK, Known, Held, SerialInv, Current
  <2>2. row' = [row EXCEPT !.job = b]
    BY <1>10, <2>1 DEF StoreJob, StillThere
  <2>3. row'.job = b /\ row'.doc = row.doc
    BY <2>1, <2>2 DEF Row
  <2>4. (\A c \in owed' : bpc'[c] = "built") /\ (\A l \in Loads : \A c \in due'[l].owed : bpc'[c] = "built")
    BY <1>1, <1>2, <1>4, <1>5, <2>1 DEF Known
  <2>5. NextSessionKnows'
    BY <1>2, <2>1, <2>3 DEF Known, NextSessionKnows
  <2> QED
    BY <1>1, <1>3, <2>1, <2>3, <2>4, <2>5 DEF Known, Ended
<1>11. CASE CrashBuild(b)
  BY <1>11 DEF CrashBuild
<1> QED
  BY <1>6, <1>7, <1>8, <1>9, <1>10, <1>11 DEF Build

\* A load that is alone shows, and caches, the row or the key as they are, and
\* a batch it applies is part of the row.
LEMMA LoadKnown ==
    ASSUME Serial, ~MayCrash, IInv, SerialInv, Known, NEW l \in Loads, StartLoad(l) \/ Load(l)
    PROVE  Known'
<1>1. /\ \A b \in Builds : bpc[b] \in Ended /\ bpc'[b] = bpc[b]
      /\ \A k \in Loads \ {l} : lpc[k] = "done" /\ k \notin sentinels
  BY LoadTurn DEF SerialInv, IInv, LoadBusy
<1>2. UNCHANGED <<bpc, owed, batch>>
  BY DEF StartLoad, Load, CacheGet, LoadRow, Retrieve, StaleObject, DropJob, ApplyBatch,
         ClearAfterApply, Reload, CacheFill, SetSentinel, build, history, jobs
<1>3. \A k \in Loads \ {l} : lpc'[k] = lpc[k] /\ due'[k] = due[k] /\ context'[k] = context[k]
  BY DEF StartLoad, Load, CacheGet, LoadRow, Retrieve, StaleObject, DropJob, ApplyBatch,
         ClearAfterApply, Reload, CacheFill, SetSentinel, LoadAt, Answer, load, IInv, TypeOK
<1>4. \A b \in Builds : bpc'[b] \notin {"check", "submit", "store"}
  BY <1>1 DEF Ended
<1>5. owed \subseteq Builds /\ \A k \in Loads : due[k].owed \subseteq Builds
  BY DEF IInv, TypeOK, Doc
<1>6. due'[l].owed \in {due[l].owed, owed}
  BY DEF StartLoad, Load, CacheGet, LoadRow, Retrieve, StaleObject, DropJob, ApplyBatch,
         ClearAfterApply, Reload, CacheFill, SetSentinel, load, IInv, TypeOK
<1>7. (\A b \in owed' : bpc'[b] = "built") /\ (\A k \in Loads : \A b \in due'[k].owed : bpc'[b] = "built")
  BY <1>2, <1>3, <1>6 DEF Known
<1>8. CASE StartLoad(l)
  <2>1. /\ UNCHANGED <<row, cache, sentinels>> /\ lpc'[l] = "get"
        /\ due'[l] = [owed |-> owed, wiped |-> wiped]
    BY <1>8 DEF StartLoad, LoadAt, IInv, TypeOK
  <2>2. due'[l].owed = owed /\ sentinels = {}
    BY <1>8, <2>1 DEF StartLoad, MayStart, Quiet
  <2> QED
    BY <1>1, <1>2, <1>3, <1>4, <1>7, <2>1, <2>2 DEF Known, NextSessionKnows
<1>9. CASE CacheGet(l)
  <2>1. UNCHANGED <<row, cache, sentinels, due>> /\ lpc[l] = "get"
    BY <1>9 DEF CacheGet
  <2>2. \/ lpc'[l] = "done" /\ cache # None /\ context'[l] = cache
        \/ lpc'[l] = "db" /\ cache = None
    BY <1>9 DEF CacheGet, Answer, LoadAt, IInv, TypeOK
  <2> QED
    BY <1>1, <1>2, <1>3, <1>4, <1>7, <2>1, <2>2 DEF Known, NextSessionKnows
<1>10. CASE LoadRow(l)
  <2>1. UNCHANGED <<row, cache, due>> /\ lpc[l] = "db"
    BY <1>10 DEF LoadRow
  <2>2. \/ row = None /\ lpc'[l] = "done"
        \/ row # None /\ lpc'[l] \in {"retrieve", "fill"} /\ sentinels' = sentinels
    BY <1>10 DEF LoadRow, Answer, LoadAt, IInv, TypeOK
  <2> QED
    BY <1>1, <1>2, <1>3, <1>4, <1>7, <2>1, <2>2 DEF Known, NextSessionKnows
<1>11. CASE Retrieve(l)
  <2>1. UNCHANGED <<row, cache, due, sentinels>> /\ lpc[l] = "retrieve" /\ lpc'[l] \in {"fill", "drop", "apply"}
    BY <1>11 DEF Retrieve, LoadAt, IInv, TypeOK
  <2> QED
    BY <1>1, <1>2, <1>3, <1>4, <1>7, <2>1 DEF Known, NextSessionKnows
<1>12. CASE StaleObject(l)
  BY <1>12 DEF StaleObject, StillThere, SerialInv, Current, IInv, Held
<1>13. CASE DropJob(l) \/ ApplyBatch(l)
  <2>1. /\ UNCHANGED <<cache, due, sentinels>> /\ lpc[l] \in {"drop", "apply"}
        /\ lpc'[l] \in {"fill", "clear"}
    BY <1>13 DEF DropJob, ApplyBatch, LoadAt, IInv, TypeOK
  <2>2. seen[l] = row /\ row # None /\ row \in Row /\ row.job # None
    BY <1>13, <2>1 DEF DropJob, ApplyBatch, StillThere, SerialInv, Current, IInv, TypeOK, Held
  <2>3. row'.job = None /\ (row'.doc = row.doc \/ row'.doc = batch[row.job].doc)
    BY <1>13, <2>2 DEF DropJob, ApplyBatch, Row
  <2>4. row'.doc \subseteq row.doc
    BY <2>2, <2>3 DEF Known
  <2>5. NextSessionKnows'
    BY <1>3, <2>1, <2>2, <2>4 DEF Known, NextSessionKnows
  <2> QED
    BY <1>1, <1>2, <1>3, <1>4, <1>7, <2>1, <2>2, <2>3, <2>4, <2>5 DEF Known
<1>14. CASE ClearAfterApply(l)
  <2>1. UNCHANGED <<row, due, sentinels>> /\ lpc[l] = "clear" /\ lpc'[l] = "reload" /\ cache' = None
    BY <1>14 DEF ClearAfterApply, LoadAt, IInv, TypeOK
  <2> QED
    BY <1>1, <1>2, <1>3, <1>4, <1>7, <2>1 DEF Known, NextSessionKnows
<1>15. CASE Reload(l)
  <2>1. row # None
    BY <1>15 DEF Reload, SerialInv, Current
  <2>2. UNCHANGED <<row, cache, due, sentinels>> /\ lpc[l] = "reload" /\ lpc'[l] = "fill"
    BY <1>15, <2>1 DEF Reload, LoadAt, IInv, TypeOK
  <2> QED
    BY <1>1, <1>2, <1>3, <1>4, <1>7, <2>2 DEF Known, NextSessionKnows
<1>16. CASE CacheFill(l)
  <2>1. /\ UNCHANGED <<row, sentinels, due>> /\ lpc[l] = "fill" /\ lpc'[l] = "done"
        /\ cache' = seen[l].doc /\ context'[l] = seen[l].doc
    BY <1>16 DEF CacheFill, Answer, LoadAt, IInv, TypeOK
  <2>2. row # None /\ seen[l].doc = row.doc
    BY <2>1 DEF SerialInv, Current
  <2> QED
    BY <1>1, <1>2, <1>3, <1>4, <1>7, <2>1, <2>2 DEF Known, NextSessionKnows
<1>17. CASE SetSentinel(l)
  <2>1. /\ UNCHANGED <<row, lpc, context, due>> /\ cache' = {} /\ l \in sentinels
        /\ sentinels' \subseteq sentinels
    BY <1>17 DEF SetSentinel, load
  <2>2. row = None
    BY <2>1 DEF Known
  <2>3. lpc[l] = "done"
    BY <2>1 DEF Known
  <2> QED
    BY <1>1, <1>2, <1>4, <1>7, <2>1, <2>2, <2>3 DEF Known, NextSessionKnows
<1> QED
  BY <1>8, <1>9, <1>10, <1>11, <1>12, <1>13, <1>14, <1>15, <1>16, <1>17 DEF Load

LEMMA NextKnown ==
    ASSUME Serial, ~MayCrash
    PROVE  IInv /\ SerialInv /\ Known /\ [Next]_vars => Known'
<1> SUFFICES ASSUME IInv, SerialInv, Known, [Next]_vars PROVE Known'
  OBVIOUS
<1>1. CASE ResetDelete
  <2>1. row' = None /\ owed' = {} /\ UNCHANGED <<cache, bpc, lpc, sentinels, context, due>>
    BY <1>1 DEF ResetDelete, build, load
  <2>2. \A l \in Loads : lpc[l] = "done"
    BY <1>1 DEF ResetDelete, MayStart, Quiet
  <2> QED
    BY <2>1, <2>2 DEF Known, NextSessionKnows
<1>2. CASE Expire \/ ResetInvalidate \/ UNCHANGED vars
  <2>1. UNCHANGED <<row, owed, bpc, lpc, sentinels, context, due, batch>> /\ cache' \in {None, cache}
    BY <1>2 DEF Expire, ResetInvalidate, Invalidate, vars, build, load, history, jobs
  <2> QED
    BY <2>1 DEF Known, NextSessionKnows
<1>3. ASSUME NEW b \in Builds, BatchEnds(b) PROVE Known'
  <2>1. UNCHANGED <<row, owed, bpc, lpc, sentinels, context, due, cache>>
    BY <1>3 DEF BatchEnds, build, load, history
  <2>2. \A j \in Builds : batch[j] # None => batch'[j].doc = batch[j].doc
    BY <1>3 DEF BatchEnds, IInv, TypeOK, Batch
  <2>3. row # None /\ row.job # None => row.job \in Builds /\ batch[row.job] # None
    BY DEF IInv, TypeOK, Row, Traced, Objects, FromPast, JobKnown
  <2>4. row # None /\ row.job # None => batch'[row.job].doc \subseteq row.doc
    BY <2>2, <2>3 DEF Known
  <2> QED
    BY <2>1, <2>4 DEF Known, NextSessionKnows
<1> QED
  BY <1>1, <1>2, <1>3, BuildKnown, LoadKnown DEF Next

LEMMA InitKnown == Init => Known
BY DEF Init, Known, NextSessionKnows

\* A session started after build_memory returned finds that build in its prompt,
\* from the database or from Redis, as long as the row has it, when operations
\* wait for each other and nothing fails: consolidations included.
THEOREM SessionsKnown ==
    ASSUME Serial, ~MayCrash
    PROVE  Spec => []NextSessionKnows
<1>1. Known => NextSessionKnows
  BY DEF Known
<1> QED
  BY InitInv, NextInv, InitSerial, NextSerial, InitKnown, NextKnown, <1>1, PTL DEF Spec

-----------------------------------------------------------------------------
(* What a pending batch may cost *)

\* What the row has and the batch lacks.
Unbatched(r, j) == r.doc \ batch[j].doc

\* A batch is submitted at the threshold, and every session that the row has
\* and its batch lacks has been counted since.
LateInv ==
    /\ \A b \in Builds : bpc[b] \in {"submit", "store"} => row # None /\ row.since >= Threshold
    /\ row # None /\ row.job # None =>
         /\ IsFiniteSet(Unbatched(row, row.job))
         /\ Cardinality(Unbatched(row, row.job)) + Threshold <= row.since

LateStep == LateInv' /\ [row # None /\ row' # None /\ row'.id = row.id =>
                           \/ row.doc \subseteq row'.doc
                           \/ Cardinality(row.doc \ row'.doc) + Threshold <= row.since]_row

\* A step that leaves the row, the documents of the jobs and the places of the
\* builds before a submission alone.
LEMMA QuietLate ==
    ASSUME LateInv, row' = row,
           \A b \in Builds : bpc'[b] \in {"submit", "store"} => bpc[b] \in {"submit", "store"},
           row # None /\ row.job # None => batch'[row.job].doc = batch[row.job].doc
    PROVE  LateStep
<1>1. row # None /\ row.job # None => Unbatched(row, row.job)' = Unbatched(row, row.job)
  BY DEF Unbatched
<1> QED
  BY <1>1 DEF LateInv, LateStep

\* A merge adds one session to the row and to its counter.
LEMMA MergeLate ==
    ASSUME Serial, IInv, SerialInv, LateInv, NEW b \in Builds, MergeCommit(b)
    PROVE  LateStep
<1>1. /\ bpc[b] = "merge" /\ batch' = batch
      /\ \A c \in Builds : bpc'[c] \notin {"submit", "store"}
  <2>1. \A c \in Builds \ {b} : bpc'[c] \in Ended
    BY BuildTurn DEF SerialInv, IInv, Build
  <2> QED
    BY <2>1 DEF MergeCommit, Goto, jobs, IInv, TypeOK, Ended
<1>2. CASE row = None /\ row' = [id |-> b, doc |-> {b}, since |-> 1, job |-> None]
  <2>1. row'.job = None
    BY <1>2
  <2> QED
    BY <1>1, <1>2, <2>1 DEF LateInv, LateStep
<1>3. CASE StillThere(mine[b]) /\ row' = [row EXCEPT !.doc = mine[b].doc \cup {b}, !.since = mine[b].since + 1]
  <2>1. row # None /\ row \in Row /\ mine[b] = row
    BY <1>1, <1>3 DEF StillThere, SerialInv, Current, IInv, TypeOK
  <2>2. /\ row'.doc = row.doc \cup {b} /\ row'.since = row.since + 1
        /\ row'.job = row.job /\ row'.id = row.id /\ row.since \in Nat
    BY <1>3, <2>1 DEF Row
  <2>3. ASSUME row.job # None
        PROVE  /\ IsFiniteSet(Unbatched(row', row.job))
               /\ Cardinality(Unbatched(row', row.job)) + Threshold <= row.since + 1
    <3> DEFINE old == Unbatched(row, row.job)
               new == Unbatched(row', row.job)
    <3>1. IsFiniteSet(old) /\ Cardinality(old) + Threshold <= row.since
      BY <2>1, <2>3 DEF LateInv
    <3>2. new \subseteq old \cup {b}
      BY <2>2 DEF Unbatched
    <3> HIDE DEF old, new
    <3>3. /\ IsFiniteSet(old \cup {b}) /\ Cardinality(old) \in Nat
          /\ Cardinality(old \cup {b}) <= Cardinality(old) + 1
      <4>1. IsFiniteSet(old)
        BY <3>1
      <4>2. Cardinality(old) \in Nat
        BY <4>1, FS_CardinalityType
      <4>3. /\ IsFiniteSet(old \cup {b})
            /\ Cardinality(old \cup {b}) = IF b \in old THEN Cardinality(old) ELSE Cardinality(old) + 1
        BY <4>1, FS_AddElement, Zenon
      <4> QED
        BY <4>2, <4>3
    <3>4. IsFiniteSet(new) /\ Cardinality(new) <= Cardinality(old \cup {b})
      BY <3>2, <3>3, FS_Subset
    <3>5. Cardinality(new) \in Nat /\ Cardinality(old \cup {b}) \in Nat
      BY <3>3, <3>4, FS_CardinalityType
    <3>6. Cardinality(new) + Threshold <= row.since + 1
      BY <2>2, <3>1, <3>3, <3>4, <3>5, MemoryStoreAssumption
    <3> QED
      BY <3>4, <3>6 DEF new
  <2>4. row.job # None => Unbatched(row, row.job)' = Unbatched(row', row.job)
    BY <1>1, <2>2 DEF Unbatched
  <2>5. LateInv'
    BY <1>1, <2>2, <2>3, <2>4 DEF LateInv
  <2> QED
    BY <2>2, <2>5 DEF LateStep
<1> QED
  BY <1>2, <1>3 DEF MergeCommit

\* A build submits the document of the row, and stores its job on that row.
LEMMA SubmitLate ==
    ASSUME Serial, IInv, SerialInv, LateInv, NEW b \in Builds,
           CheckThreshold(b) \/ SubmitBatch(b) \/ StoreJob(b)
    PROVE  LateStep
<1>1. /\ \A c \in Builds \ {b} : bpc'[c] \in Ended
      /\ bpc[b] \in {"submit", "store"} => mine[b] = row /\ row # None /\ row.job = None
  BY BuildTurn DEF SerialInv, Current, IInv, Held, Build
<1>2. CASE CheckThreshold(b)
  <2>1. /\ row' = row /\ batch' = batch
        /\ bpc'[b] = "built" \/ (bpc'[b] = "submit" /\ Due(row))
    BY <1>2 DEF CheckThreshold, Goto, Return, jobs, IInv, TypeOK
  <2>2. row # None /\ row.job # None => Unbatched(row, row.job)' = Unbatched(row, row.job)
    BY <2>1 DEF Unbatched
  <2> QED
    BY <1>1, <2>1, <2>2 DEF LateInv, LateStep, Due, Ended
<1>3. CASE SubmitBatch(b)
  <2>1. row' = row /\ bpc[b] = "submit"
    BY <1>3 DEF SubmitBatch
  <2> QED
    BY <1>1, <2>1 DEF LateInv, LateStep, Ended
<1>4. CASE StoreJob(b)
  <2>1. /\ bpc[b] = "store" /\ bpc'[b] = "built" /\ batch' = batch /\ batch[b].doc = row.doc
        /\ row \in Row /\ row' = [row EXCEPT !.job = b]
    BY <1>1, <1>4 DEF StoreJob, StillThere, Goto, Return, jobs, IInv, Held, TypeOK
  <2>2. /\ row'.job = b /\ row'.doc = row.doc /\ row'.since = row.since /\ row.since \in Nat
        /\ row.since >= Threshold
    BY <1>1, <2>1 DEF Row, LateInv
  <2>3. Unbatched(row, row.job)' = {}
    BY <2>1, <2>2 DEF Unbatched
  <2>4. IsFiniteSet({}) /\ Cardinality({}) + Threshold <= row.since
    BY <2>2, FS_EmptySet, MemoryStoreAssumption
  <2> QED
    BY <1>1, <2>1, <2>2, <2>3, <2>4 DEF LateInv, LateStep, Ended
<1> QED
  BY <1>2, <1>3, <1>4

\* A load drops the job, or puts the document of the job in the row's place.
LEMMA DealLate ==
    ASSUME Serial, IInv, SerialInv, LateInv, NEW l \in Loads, DropJob(l) \/ ApplyBatch(l)
    PROVE  LateStep
<1>1. /\ lpc[l] \in {"drop", "apply"} /\ row # None /\ row \in Row
      /\ seen[l] = row /\ row.job # None
  BY DEF DropJob, ApplyBatch, StillThere, IInv, TypeOK, Held, SerialInv, Current
<1>2. row'.job = None /\ \A b \in Builds : bpc'[b] \in Ended
  BY <1>1, LoadTurn DEF DropJob, ApplyBatch, Row, SerialInv, IInv, Load
<1>3. row'.doc = row.doc \/ row'.doc = batch[row.job].doc
  BY <1>1 DEF DropJob, ApplyBatch, Row
<1>4. row'.doc = row.doc \/ row.doc \ row'.doc = Unbatched(row, row.job)
  BY <1>3 DEF Unbatched
<1> QED
  BY <1>1, <1>2, <1>4 DEF LateInv, LateStep, Ended

LEMMA NextLate ==
    ASSUME Serial
    PROVE  IInv /\ SerialInv /\ LateInv /\ [Next]_vars => LateStep
<1> SUFFICES ASSUME IInv, SerialInv, LateInv, [Next]_vars PROVE LateStep
  OBVIOUS
<1>1. ASSUME NEW b \in Builds, StartBuild(b) \/ CrashBuild(b) \/ Extract(b) \/ Read(b)
                               \/ MergeFails(b) \/ InvalidateCache(b)
      PROVE  LateStep
  <2>1. /\ row' = row /\ batch' = batch
        /\ \A c \in Builds : bpc'[c] \in {"submit", "store"} => bpc[c] \in {"submit", "store"}
    BY <1>1 DEF StartBuild, CrashBuild, Extract, Read, MergeFails, InvalidateCache, Goto, jobs,
                IInv, TypeOK
  <2> QED
    BY <2>1, QuietLate
<1>2. ASSUME NEW b \in Builds, BatchEnds(b) PROVE LateStep
  <2>1. /\ row' = row /\ bpc' = bpc
        /\ \A j \in Builds : batch[j] # None => batch'[j].doc = batch[j].doc
    BY <1>2 DEF BatchEnds, build, IInv, TypeOK, Batch
  <2>2. row # None /\ row.job # None => row.job \in Builds /\ batch[row.job] # None
    BY DEF IInv, TypeOK, Row, Traced, Objects, FromPast, JobKnown
  <2> QED
    BY <2>1, <2>2, QuietLate
<1>3. ASSUME NEW l \in Loads, StartLoad(l) \/ CacheGet(l) \/ LoadRow(l) \/ Retrieve(l)
                              \/ StaleObject(l) \/ ClearAfterApply(l) \/ Reload(l)
                              \/ CacheFill(l) \/ SetSentinel(l)
      PROVE  LateStep
  <2>1. UNCHANGED <<row, batch, bpc>>
    BY <1>3 DEF StartLoad, CacheGet, LoadRow, Retrieve, StaleObject, ClearAfterApply, Reload,
                CacheFill, SetSentinel, build, jobs
  <2> QED
    BY <2>1, QuietLate
<1>4. CASE ResetDelete
  <2>1. row' = None /\ \A b \in Builds : bpc'[b] \in Ended
    BY <1>4 DEF ResetDelete, MayStart, Quiet, build
  <2> QED
    BY <2>1 DEF LateInv, LateStep, Ended
<1>5. CASE Expire \/ ResetInvalidate \/ UNCHANGED vars
  <2>1. UNCHANGED <<row, batch, bpc>>
    BY <1>5 DEF Expire, ResetInvalidate, vars, build, jobs
  <2> QED
    BY <2>1, QuietLate
<1> QED
  BY <1>1, <1>2, <1>3, <1>4, <1>5, MergeLate, SubmitLate, DealLate DEF Next, Build, Load

LEMMA InitLate == Init => LateInv
BY DEF Init, LateInv

\* With operations that wait for each other, but any of them failing or cut off
\* anywhere, a merged session leaves the row of a user only when the result of
\* a batch is applied, and then no more than the counter is beyond the threshold:
\* the sessions merged since the batch was submitted.
THEOREM LossIsBounded ==
    ASSUME Serial
    PROVE  Spec => LossBounded
<1>1. IInv /\ SerialInv /\ LateInv /\ [Next]_vars
      => LateInv' /\ [row # None /\ row' # None /\ row'.id = row.id =>
                        \/ row.doc \subseteq row'.doc
                        \/ Cardinality(row.doc \ row'.doc) + Threshold <= row.since]_row
  BY NextLate DEF LateStep
<1> QED
  BY InitInv, NextInv, InitSerial, NextSerial, InitLate, <1>1, PTL DEF Spec, LossBounded
=============================================================================
