------------------------------ MODULE RequestsMC ------------------------------
(* The components whose hazard is overlapping requests, each on an instance of its own: a
   behaviour is one of the component in `focus`, the others rest in one of their states. *)
EXTENDS Authentication, Profile, QuestionBank, StoryBank, SessionLifecycle, TLC

CONSTANTS q1, q2, q3, strength, weakness, ours, theirs

VARIABLE focus

MCSkills == [q \in {q1, q2, q3} |-> IF q = q3 THEN {weakness} ELSE {strength}]
MCType == [q \in {q1, q2, q3} |-> "behavioral"]
MCCompany == [q \in {q1, q2, q3} |-> IF q = q3 THEN ours ELSE theirs]

(* The requests of most components are the same three values, and so on, so that the group of
   permutations stays small. *)
Symmetry ==
    Permutations(SessionRequests) \cup Permutations(Sockets) \cup Permutations(Sessions)

MCInit ==
    /\ focus \in {"authentication", "profile", "questions", "stories", "sessions"}
    /\ AuthInit /\ (focus # "authentication" => Live = {})
    /\ ProfileInit /\ (focus # "profile" => secret = 0)
    /\ BankInit
    /\ StoryInit
    /\ SessionInit /\ (focus # "sessions" => platformKey /\ ~account.key /\ Existing = {})

MCNext ==
    /\ IF focus = "authentication" THEN AuthNext ELSE UNCHANGED authVars
    /\ IF focus = "profile" THEN ProfileNext ELSE UNCHANGED profileVars
    /\ IF focus = "questions" THEN BankNext ELSE UNCHANGED bankVars
    /\ IF focus = "stories" THEN StoryNext ELSE UNCHANGED storyVars
    /\ IF focus = "sessions" THEN SessionNext ELSE UNCHANGED sessionVars
    /\ UNCHANGED focus

MCSpec ==
    MCInit /\ [][MCNext]_<<focus, authVars, profileVars, bankVars, storyVars, sessionVars>>
===============================================================================
