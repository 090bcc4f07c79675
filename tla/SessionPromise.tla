---------------------------- MODULE SessionPromise ----------------------------
(***************************************************************************)
(* What the session endpoints promise of each interview session, whoever   *)
(* calls them and in whatever order: it becomes active once, ends once and *)
(* for all, can be deleted only when it has ended (or with the account),   *)
(* and stays deleted; people talk only over connections made while it was  *)
(* active, so once those are closed an ended session's transcript stands.  *)
(***************************************************************************)
CONSTANTS Sessions, Sockets, Texts,
          Blank     \* one of Texts, of a session that does not exist

VARIABLES
    stage,      \* none, active, ended, gone
    joined,     \* session -> the open connections
    text        \* session -> transcript

promiseVars == <<stage, joined, text>>

PromiseInit ==
    /\ stage \in [Sessions -> {"none", "active", "ended", "gone"}]
    /\ joined = [s \in Sessions |-> {}]
    /\ text \in [Sessions -> Texts]

Open(s) ==
    /\ stage[s] = "none"
    /\ stage' = [stage EXCEPT ![s] = "active"]
    /\ text' = [text EXCEPT ![s] = Blank]
    /\ UNCHANGED joined

Join(s, p) ==
    /\ stage[s] = "active"
    /\ joined' = [joined EXCEPT ![s] = @ \cup {p}]
    /\ UNCHANGED <<stage, text>>

(* A connection adds to the transcript, and may end the session and be closed as it does. *)
Talk(s, p) ==
    /\ p \in joined[s] /\ stage[s] \in {"active", "ended"}
    /\ \E t \in Texts : text' = [text EXCEPT ![s] = t]
    /\ stage' \in {stage, [stage EXCEPT ![s] = "ended"]}
    /\ joined' \in {joined, [joined EXCEPT ![s] = @ \ {p}]}

Leave(s, p) ==
    /\ joined' = [joined EXCEPT ![s] = @ \ {p}]
    /\ UNCHANGED <<stage, text>>

Finish(s) ==
    /\ stage[s] = "active"
    /\ stage' = [stage EXCEPT ![s] = "ended"]
    /\ UNCHANGED <<joined, text>>

Remove(s) ==
    /\ stage[s] = "ended"
    /\ stage' = [stage EXCEPT ![s] = "gone"]
    /\ text' = [text EXCEPT ![s] = Blank]
    /\ UNCHANGED joined

RemoveAll ==
    /\ stage' = [s \in Sessions |-> IF stage[s] = "none" THEN "none" ELSE "gone"]
    /\ text' = [s \in Sessions |-> IF stage[s] = "none" THEN text[s] ELSE Blank]
    /\ UNCHANGED joined

PromiseNext ==
    \/ \E s \in Sessions : Open(s) \/ Finish(s) \/ Remove(s)
    \/ \E s \in Sessions, p \in Sockets : Join(s, p) \/ Talk(s, p) \/ Leave(s, p)
    \/ RemoveAll

PromiseSpec == PromiseInit /\ [][PromiseNext]_promiseVars
===============================================================================
