-------------------------------- MODULE PartsMC --------------------------------
(* The components that need no more than one or two actors, each on an instance of its own: a
   behaviour is one of the component in `focus`, the others rest in one of their states. *)
EXTENDS SpokenTurn, Delivery, Progress, Provisioning, Erasure, Outreach

VARIABLE focus

(* Two categories of two skills; sessions that are done, open, and not yet scored; days to and
   since an interview. *)
MCCategory == <<"a", "a", "b", "b">>
MCDone == [status |-> "completed", scores |-> <<40, 81>>, rewound |-> 1]
MCOpen == [MCDone EXCEPT !.status = "active"]
MCUnscored == [MCOpen EXCEPT !.scores = <<>>]
MCHistories == {<<>>, <<MCDone, MCUnscored>>, <<MCOpen, MCDone>>, [i \in 1..12 |-> MCDone]}
MCOverdue == {-1, 7}
MCDays == {None, -1, 7, 21, 22}

MCInit ==
    /\ focus \in {"turn", "delivery", "progress", "schema", "erasure", "outreach"}
    /\ SpokenInit /\ (focus # "turn" => ~flag /\ ~fallback)
    /\ DeliveryInit
    /\ ProgressInit /\ (focus # "progress" => nodes = <<>>)
    /\ ProvInit
    /\ EraseInit
    /\ OutInit /\ (focus # "outreach" => smtp /\ optIn = {})

MCNext ==
    /\ IF focus = "turn" THEN SpokenNext ELSE UNCHANGED spokenVars
    /\ IF focus = "delivery" THEN DeliveryNext ELSE UNCHANGED speech
    /\ IF focus = "schema" THEN ProvNext ELSE UNCHANGED provVars
    /\ IF focus = "erasure" THEN EraseNext ELSE UNCHANGED eraseVars
    /\ IF focus = "outreach" THEN OutNext ELSE UNCHANGED outVars
    /\ UNCHANGED <<nodes, focus>>

(* Only the turn is fair: TurnEnds is the one property that needs it. *)
MCSpec ==
    /\ MCInit /\ [][MCNext]_<<focus, spokenVars, speech, nodes, provVars, eraseVars, outVars>>
    /\ SpokenFairness
================================================================================
