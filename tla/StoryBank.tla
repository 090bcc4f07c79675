------------------------------- MODULE StoryBank -------------------------------
(***************************************************************************)
(* The stories of one user: the requests of api/v1/stories.py, the stories *)
(* that scoring detects (api/v1/scoring.py), the merge of a build that     *)
(* uses a story again (services/memory/builder.py) and the proposals of    *)
(* services/stories/story_extractor.py.  Only the memory build counts a    *)
(* story's uses and scores.                                                *)
(***************************************************************************)
EXTENDS Integers, FiniteSets, FiniteSetsExt

CONSTANTS Tellers,        \* the requests and builds
          StoryIds, Titles, Competencies, Interviews,
          Averages,       \* average scores of a merged session
          OveruseThreshold,
          Gone

VARIABLES
    story,      \* id -> row, or Gone
    treq,       \* requests and builds: the row they have read and what they will store
    merged,     \* history: builds merged into a row, and the best of their averages
    clashed     \* history: rows that two overlapping writers have held

storyVars == <<story, treq, merged, clashed>>

Kept == {s \in StoryIds : story[s] # Gone}

StoryRow ==
    [title : Titles, comps : SUBSET Competencies, session : Interviews \cup {Gone},
     used : Nat, best : Averages \cup {Gone}, warned : BOOLEAN]

ASSUME StoryAssumption ==
    /\ IsFiniteSet(StoryIds) /\ Averages \subseteq Nat /\ OveruseThreshold \in Nat
    /\ Gone \notin StoryIds \cup StoryRow \cup Nat

NewStory(title, comps, session, used, best) ==
    [title |-> title, comps |-> comps, session |-> session, used |-> used, best |-> best,
     warned |-> FALSE]

Quiet == [at |-> "new", does |-> Gone, row |-> Gone, copy |-> Gone, new |-> Gone]

StoryInit ==
    /\ story = [s \in StoryIds |-> Gone]
    /\ treq = [t \in Tellers |-> Quiet]
    /\ merged = [s \in StoryIds |-> [n |-> 0, best |-> 0]]
    /\ clashed = {}

Done(t) == treq' = [treq EXCEPT ![t] = [Quiet EXCEPT !.at = "end"]]

(* Rows are added under new ids. *)
Unused == {s \in StoryIds \ Kept : merged[s].n = 0 /\ \A t \in Tellers : treq[t].row # s}

(* A writer holds the row it has read, and what it will store. *)
HoldStory(t, does, s, new) ==
    /\ treq' = [treq EXCEPT ![t] = [at |-> "commit", does |-> does, row |-> s,
                                    copy |-> IF s = Gone THEN Gone ELSE story[s], new |-> new]]
    /\ clashed' = IF s # Gone /\ \E o \in Tellers : treq[o].row = s
                  THEN clashed \cup {s} ELSE clashed
    /\ UNCHANGED <<story, merged>>

-------------------------------------------------------------------------------
(* stories.py *)

CreateStory(t, title, comps, session) ==
    /\ treq[t].at \in {"new", "offer"}
    /\ treq[t].at = "offer" => session = treq[t].new
    /\ \E s \in Unused : story' = [story EXCEPT ![s] = NewStory(title, comps, session, 0, Gone)]
    /\ Done(t)
    /\ UNCHANGED <<merged, clashed>>

\* mutant: the build that is to come is counted
Overused_Early(row) == row.used + 1 >= OveruseThreshold

(* _compute_warnings *)
Overused(row) == row.used >= OveruseThreshold

(* update_story computes the warnings again only when competencies are given. *)
UpdateStory(t, s, title, comps) ==
    /\ treq[t].at = "new" /\ s \in Kept
    /\ HoldStory(t, "update", s,
           IF comps = Gone THEN [story[s] EXCEPT !.title = title]
           ELSE [story[s] EXCEPT !.title = title, !.comps = comps, !.warned = Overused(story[s])])

DeleteStory(t, s) ==
    /\ treq[t].at = "new" /\ s \in Kept
    /\ HoldStory(t, "delete", s, Gone)

(* propose_story: null when the session has a story already (and an error when it has two),
   when the LLM fails or finds none; otherwise an offer, which the client may save. *)
FromSession(session) == {s \in Kept : story[s].session = session}

ProposeStory(t, session) ==
    /\ treq[t].at = "new"
    /\ IF FromSession(session) # {}
       THEN Done(t)
       ELSE treq' = [treq EXCEPT ![t].at = "llm", ![t].new = session]
    /\ UNCHANGED <<story, merged, clashed>>

ProposalAnswer(t) ==
    /\ treq[t].at = "llm"
    /\ Done(t) \/ treq' = [treq EXCEPT ![t].at = "offer"]
    /\ UNCHANGED <<story, merged, clashed>>

-------------------------------------------------------------------------------
(* score_session adds a row for each title it detects, once per scoring, whatever the table
   holds. *)
DetectStories(t, session, titles) ==
    /\ treq[t].at = "new"
    /\ \E row \in [titles -> Unused] :
           /\ \A x, y \in titles : row[x] = row[y] => x = y
           /\ story' = [s \in StoryIds |->
                  IF \E x \in titles : row[x] = s
                  THEN NewStory(CHOOSE x \in titles : row[x] = s, {}, session, 0, Gone)
                  ELSE story[s]]
    /\ Done(t)
    /\ UNCHANGED <<merged, clashed>>

(* _merge_into_memory: the story of that title is used once more, or added; with two of that
   title, scalar_one_or_none raises and the build merges nothing. *)
MergeStory(t, title, comps, session, average) ==
    LET found == {s \in Kept : story[s].title = title} IN
    /\ treq[t].at = "new"
    /\ \/ found = {} /\ HoldStory(t, "merge", Gone, NewStory(title, comps, session, 1, average))
       \/ Cardinality(found) > 1 /\ Done(t) /\ UNCHANGED <<story, merged, clashed>>
       \/ \E s \in StoryIds :
             /\ found = {s}
             /\ HoldStory(t, "merge", s,
                   [story[s] EXCEPT !.used = @ + 1,
                        !.best = IF @ = Gone \/ @ < average THEN average ELSE @])

-------------------------------------------------------------------------------
(* The commit of what a request or a build holds: an INSERT, or the columns that differ from
   the row it read.  A row that is gone fails an UPDATE and leaves a DELETE without effect. *)
CommitStory(t) ==
    LET held == treq[t]
        UpdatedColumns(row) ==
            [c \in DOMAIN row |-> IF held.new[c] # held.copy[c] THEN held.new[c] ELSE row[c]]
    IN /\ held.at = "commit"
       /\ \E s \in IF held.row = Gone THEN Unused ELSE {held.row} :
             /\ story' = [story EXCEPT ![s] =
                    IF held.row = Gone THEN held.new
                    ELSE IF @ = Gone \/ held.does = "delete" THEN Gone
                    ELSE UpdatedColumns(@)]
             /\ merged' = IF held.does = "merge" /\ (held.row = Gone \/ story[s] # Gone)
                          THEN [merged EXCEPT ![s] = [n |-> @.n + 1,
                                                      best |-> Max({@.best, held.new.best})]]
                          ELSE merged
       /\ Done(t)
       /\ UNCHANGED clashed

-------------------------------------------------------------------------------
(* get_coverage_map *)
StoriesOf(comp) == {s \in Kept : comp \in story[s].comps}

Coverage(comp) ==
    IF StoriesOf(comp) = {} THEN "gap"
    ELSE IF \E s \in StoriesOf(comp) : story[s].best # Gone /\ story[s].best < 65 THEN "weak"
    ELSE "strong"

(* best_stories of a build and search_stories_fts: the best stories first, unscored ones
   last. *)
Ranked(s, r) == story[r].best = Gone \/ (story[s].best # Gone /\ story[s].best >= story[r].best)

TopStories(limit) ==
    {top \in SUBSET Kept : /\ Cardinality(top) = Min({limit, Cardinality(Kept)})
                           /\ \A s \in top, r \in Kept \ top : Ranked(s, r)}

-------------------------------------------------------------------------------
StoryNext ==
    \E t \in Tellers :
       \/ \E title \in Titles, comps \in SUBSET Competencies, session \in Interviews \cup {Gone} :
             CreateStory(t, title, comps, session)
       \/ \E s \in StoryIds, title \in Titles, comps \in (SUBSET Competencies) \cup {Gone} :
             UpdateStory(t, s, title, comps)
       \/ \E s \in StoryIds : DeleteStory(t, s)
       \/ \E session \in Interviews :
             \/ ProposeStory(t, session)
             \/ \E titles \in (SUBSET Titles) \ {{}} : DetectStories(t, session, titles)
             \/ \E title \in Titles, comps \in SUBSET Competencies, average \in Averages :
                   MergeStory(t, title, comps, session, average)
       \/ ProposalAnswer(t) \/ CommitStory(t)

StorySpec == StoryInit /\ [][StoryNext]_storyVars

-------------------------------------------------------------------------------
(* What the coverage map and the warnings say of a story is what its builds have merged:
   unless two writers overlap on the row, times_used counts the builds and
   best_score_with_this_story is the best of their averages, whoever renames or retags the
   story in between; so a competency is weak only if every build of one of its stories
   averaged below 65, and a story is called overused only after OveruseThreshold builds. *)
StoryFiguresTrue ==
    /\ \A s \in Kept \ clashed :
           /\ story[s].used = merged[s].n
           /\ story[s].best = IF merged[s].n = 0 THEN Gone ELSE merged[s].best
           /\ story[s].warned => merged[s].n >= OveruseThreshold
    /\ \A c \in Competencies : clashed = {} =>
           (Coverage(c) = "weak" <=> \E s \in StoriesOf(c) : merged[s].n > 0 /\ merged[s].best < 65)
    /\ clashed = {} => \A top \in TopStories(1) :
           \A s \in top, r \in Kept : merged[r].best <= merged[s].best
=============================================================================
