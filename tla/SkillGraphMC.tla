----------------------------- MODULE SkillGraphMC -----------------------------
(* Values of the constants of SkillGraph for model checking. *)
EXTENDS SkillGraph

CONSTANTS a, b, r1, r2, r3

NoHints == [s \in {} |-> "positive"]

MCPrimary == <<a>>

\* Good and poor answers, a rule on the second skill, and hints that agree or
\* disagree with the score.
MCResults ==
    {[overall |-> 90, rules |-> {}, hints |-> NoHints],
     [overall |-> 60, rules |-> {b}, hints |-> NoHints],
     [overall |-> 30, rules |-> {b}, hints |-> [s \in {a} |-> "positive"]]}

\* Results that update both skills, in either order.
MCCrossedResults ==
    {[overall |-> 90, rules |-> {}, hints |-> [s \in {b} |-> "positive"]],
     [overall |-> 50, rules |-> {a, b}, hints |-> NoHints]}

\* A node practised once before, from 85 or 35, and one at the top.
Practised(score, best) ==
    [score |-> score, best |-> best, trend |-> "improving",
     days |-> NextReviewDays(score, "improving"), mistakes |-> <<>>,
     links |-> <<[req |-> "earlier", score |-> score]>>]

MCInitialNodes == {Practised(50, 50), Practised(98, 98)}

MCOneNode == {Practised(50, 50)}
=============================================================================
