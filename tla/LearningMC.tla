------------------------------ MODULE LearningMC ------------------------------
(* The skill graph and the requests on a scored session, each on an instance of its own: a
   behaviour is one of the component in `focus`, the other rests in one of its states. *)
EXTENDS SkillGraphMC, Scoring, TLC

VARIABLE focus

(* The requests of Scoring and the segments; no value of SkillGraph is among them. *)
MCSymmetry ==
    Permutations(Scorings) \cup Permutations(Deliveries) \cup Permutations(Rewinds)
        \cup Permutations(Segments)

MCInit ==
    /\ focus \in {"skills", "scoring"}
    /\ Init /\ (focus # "skills" => row = [s \in Skills |-> NoNode])
    /\ ScoringInit /\ (focus # "scoring" => session = Fresh)

MCNext ==
    /\ IF focus = "skills" THEN Next ELSE UNCHANGED vars
    /\ IF focus = "scoring" THEN ScoringNext ELSE UNCHANGED scoringVars
    /\ UNCHANGED focus

MCSpec == MCInit /\ [][MCNext]_<<focus, vars, scoringVars>>
===============================================================================
