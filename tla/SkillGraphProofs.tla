--------------------------- MODULE SkillGraphProofs ---------------------------
(* Proofs about SkillGraph, for every value of its constants. *)
EXTENDS SkillGraph, FiniteSetTheorems, TLAPS

-----------------------------------------------------------------------------
(* The arithmetic *)

\* However a score is adjusted it stays within 0..100.
LEMMA AdjustedScoreRange ==
    ASSUME NEW dir, NEW old \in Scores, NEW overall \in Scores
    PROVE  AdjustedScore(dir, old, overall) \in Scores
<1> DEFINE up == Greatest(5, Least(15, (overall - old) \div 3))
           down == Greatest(3, Least(10, (old - overall) \div 3 + 5))
<1>1. (overall - old) \div 3 \in Int /\ (old - overall) \div 3 \in Int
  BY DEF Scores
<1>2. up \in 5..15
  BY <1>1 DEF Greatest, Least
<1>3. down \in 3..10
  BY <1>1 DEF Greatest, Least
<1> HIDE DEF up, down
<1>4. Least(100, old + up) \in Scores /\ Greatest(0, old - down) \in Scores
  BY <1>2, <1>3 DEF Scores, Least, Greatest
<1> QED
  BY <1>4 DEF AdjustedScore, up, down

\* skill_graph.py:58: a lower score or a declining trend is reviewed no later.
THEOREM ReviewSooner ==
    ASSUME NEW low \in Scores, NEW high \in Scores, low <= high,
           NEW trend \in Trends, NEW other \in Trends
    PROVE  /\ NextReviewDays(low, trend) <= NextReviewDays(high, trend)
           /\ NextReviewDays(low, "declining") <= NextReviewDays(low, other)
BY DEF NextReviewDays, Scores, Trends

\* Trimming a list keeps it a list, and adds nothing to it.
LEMMA KeepLastType ==
    ASSUME NEW S, NEW s \in Seq(S), NEW n \in Nat \ {0}
    PROVE  KeepLast(s, n) \in Seq(S) /\ ToSet(KeepLast(s, n)) \subseteq ToSet(s)
<1>1. CASE Len(s) <= n
  BY <1>1 DEF KeepLast
<1>2. CASE ~(Len(s) <= n)
  <2> DEFINE k == SubSeq(s, Len(s) - n + 1, Len(s))
  <2>1. Len(s) \in Nat /\ Len(s) - n + 1 \in 1..Len(s)
    BY <1>2
  <2>2. k \in Seq(S) /\ Len(k) = n /\ \A i \in 1..n : k[i] = s[Len(s) - n + i] /\ Len(s) - n + i \in 1..Len(s)
    BY <2>1, <1>2
  <2>3. ToSet(k) \subseteq ToSet(s)
    BY <2>2, <2>1 DEF ToSet
  <2> QED
    BY <1>2, <2>2, <2>3 DEF KeepLast
<1> QED
  BY <1>1, <1>2

-----------------------------------------------------------------------------
(* One signal *)

\* NewNode, the node an insert starts from, is a node.
LEMMA NewNodeType == NewNode \in Node
BY DEF NewNode, Node, Scores, Trends

\* The skills a result signals are skills of the graph.
LEMMA SignalledType ==
    ASSUME NEW res \in Results
    PROVE  SignalledSkills(res) \in SUBSET Skills
<1>1. res \in Result
  BY SkillGraphAssumption
<1>2. res.rules \subseteq Skills /\ res.hints \in UNION {[S -> Directions] : S \in SUBSET Skills}
  BY <1>1 DEF Result
<1>3. PICK S \in SUBSET Skills : res.hints \in [S -> Directions]
  BY <1>2
<1>4. DOMAIN res.hints \subseteq Skills
  BY <1>3
<1>5. ToSet(Primary) \subseteq Skills
  BY SkillGraphAssumption DEF ToSet
<1> QED
  BY <1>2, <1>4, <1>5 DEF SignalledSkills

\* A signal turns a node into a node whose best score covers the old best and
\* the new score, and adds at most a link of the request that applied it.
LEMMA AfterSignalType ==
    ASSUME NEW r \in Requests, NEW node \in Node, NEW res \in Results, NEW s \in Skills
    PROVE  LET new == AfterSignal(r, node, res, s)
           IN  /\ new \in Node
               /\ new.best >= new.score /\ new.best >= node.best
               /\ \A l \in ToSet(new.links) : l.req = r \/ l \in ToSet(node.links)
<1> DEFINE dir == Direction(res, s)
           note == SignalNote(res, s)
           new == AdjustedScore(dir, node.score, res.overall)
           trend == ComputeTrend(node.score, new)
           link == [req |-> r, score |-> new]
           Link == [req : Requests \cup {"earlier"}, score : Scores]
           mistakes == IF dir = "negative" /\ note \notin ToSet(node.mistakes)
                       THEN KeepLast(Append(node.mistakes, note), MistakesCap)
                       ELSE node.mistakes
           links == KeepLast(Append(node.links, link), EvidenceCap)
<1>1. /\ node.score \in Scores /\ node.best \in Scores
      /\ node.mistakes \in Seq(Notes) /\ node.links \in Seq(Link)
  BY DEF Node
<1>2. res.overall \in Scores
  BY SkillGraphAssumption DEF Result
<1>3. new \in Scores
  BY <1>1, <1>2, AdjustedScoreRange
<1>4. note \in Notes
  <2>1. \A f \in {"rule", "hint", "base"}, n \in Scores : [from |-> f, overall |-> n] \in Notes
    BY DEF Notes
  <2>2. 0 \in Scores
    BY DEF Scores
  <2> QED
    BY <1>2, <2>1, <2>2 DEF SignalNote
<1> HIDE DEF dir, note, new
<1>5. trend \in Trends
  BY DEF ComputeTrend, Trends
<1> HIDE DEF trend
<1>6. NextReviewDays(new, trend) \in Nat
  BY DEF NextReviewDays
<1>7. mistakes \in Seq(Notes)
  <2>1. Append(node.mistakes, note) \in Seq(Notes)
    BY <1>1, <1>4
  <2> QED
    BY <2>1, <1>1, KeepLastType, SkillGraphAssumption
<1>8. link \in Link
  BY <1>3
<1>9. Append(node.links, link) \in Seq(Link)
  BY <1>1, <1>8
<1>10. links \in Seq(Link) /\ ToSet(links) \subseteq ToSet(Append(node.links, link))
  BY <1>9, KeepLastType, SkillGraphAssumption
<1>11. \A l \in ToSet(Append(node.links, link)) : l = link \/ l \in ToSet(node.links)
  BY <1>1, <1>8 DEF ToSet
<1>12. /\ BestAfter(node, new) \in Scores
       /\ BestAfter(node, new) >= new /\ BestAfter(node, new) >= node.best
  <2>1. BestAfter(node, new) = IF node.best >= new THEN node.best ELSE new
    BY DEF BestAfter, Greatest
  <2>2. node.best \in 0..100 /\ new \in 0..100
    BY <1>1, <1>3 DEF Scores
  <2> QED
    BY <2>1, <2>2 DEF Scores
<1>13. AfterSignal(r, node, res, s) =
         [score |-> new, best |-> BestAfter(node, new), trend |-> trend,
          days |-> NextReviewDays(new, trend), mistakes |-> mistakes, links |-> links]
  BY DEF AfterSignal, new, dir, note, trend
<1>14. link.req = r
  OBVIOUS
<1> HIDE DEF mistakes, links, link
<1>15. AfterSignal(r, node, res, s) \in Node
  BY <1>3, <1>5, <1>6, <1>7, <1>10, <1>12, <1>13 DEF Node
<1>16. \A l \in ToSet(links) : l.req = r \/ l \in ToSet(node.links)
  BY <1>10, <1>11, <1>14
<1>17. /\ AfterSignal(r, node, res, s).links = links
       /\ AfterSignal(r, node, res, s).score = new
       /\ AfterSignal(r, node, res, s).best = BestAfter(node, new)
  BY <1>13
<1> QED
  BY <1>12, <1>15, <1>16, <1>17

-----------------------------------------------------------------------------
(* The invariant *)

\* A row is changed or locked only through a node object the transaction
\* holds, and a pending skill has a result to take its signal from.
Held ==
    \A r \in Requests :
        /\ todo[r] # {} => result[r] # NoNode
        /\ \A s \in Skills : dirty[r] = s \/ holder[s] = r => copy[r][s] # NoNode

\* TypeOK alone is not inductive: a commit copies node objects into the rows.
IInv == TypeOK /\ Held

\* Applying a signal keeps the types of what it changes.
LEMMA ApplyType ==
    ASSUME IInv, NEW r \in Requests, NEW s \in todo[r], NEW node \in Node, Apply(r, s, node)
    PROVE  /\ copy' \in [Requests -> [Skills -> Node \cup {NoNode}]]
           /\ written' \in [Requests -> [Skills -> SUBSET Columns]]
           /\ dirty' \in [Requests -> Skills \cup {NoNode}]
           /\ todo' \in [Requests -> SUBSET Skills]
           /\ \A q \in Requests : todo'[q] \subseteq todo[q]
           /\ s \in Skills /\ result[r] \in Results
           /\ dirty' = [dirty EXCEPT ![r] = s]
           /\ copy' = [copy EXCEPT ![r][s] = AfterSignal(r, node, result[r], s)]
           /\ written' = [written EXCEPT ![r][s] =
                            @ \cup Changed(node, AfterSignal(r, node, result[r], s))]
<1>1. s \in Skills /\ todo \in [Requests -> SUBSET Skills]
  BY DEF IInv, TypeOK
<1>2. result[r] \in Results
  BY DEF IInv, TypeOK, Held
<1>3. AfterSignal(r, node, result[r], s) \in Node
  BY <1>1, <1>2, AfterSignalType
<1>4. /\ dirty' = [dirty EXCEPT ![r] = s]
      /\ copy' = [copy EXCEPT ![r][s] = AfterSignal(r, node, result[r], s)]
      /\ written' = [written EXCEPT ![r][s] = @ \cup Changed(node, AfterSignal(r, node, result[r], s))]
      /\ todo' = [todo EXCEPT ![r] = @ \ {s}]
  BY DEF Apply
<1>5. Changed(node, AfterSignal(r, node, result[r], s)) \subseteq Columns
  BY DEF Changed
<1>6. copy' \in [Requests -> [Skills -> Node \cup {NoNode}]]
  BY <1>1, <1>3, <1>4 DEF IInv, TypeOK
<1>7. written' \in [Requests -> [Skills -> SUBSET Columns]]
  BY <1>1, <1>4, <1>5 DEF IInv, TypeOK
<1>8. dirty' \in [Requests -> Skills \cup {NoNode}]
  BY <1>1, <1>4 DEF IInv, TypeOK
<1>9. todo' \in [Requests -> SUBSET Skills] /\ \A q \in Requests : todo'[q] \subseteq todo[q]
  BY <1>1, <1>4
<1> QED
  BY <1>1, <1>2, <1>4, <1>6, <1>7, <1>8, <1>9

\* Applying a signal keeps Held, if the only row it may lock is the one it changes.
LEMMA ApplyHeld ==
    ASSUME IInv, NEW r \in Requests, NEW s \in todo[r], NEW node \in Node, Apply(r, s, node),
           UNCHANGED result, holder' = holder \/ holder' = [holder EXCEPT ![s] = r]
    PROVE  Held'
<1>1. s \in Skills /\ result[r] \in Results
  BY ApplyType
<1>2. AfterSignal(r, node, result[r], s) # NoNode
  BY <1>1, AfterSignalType, SkillGraphAssumption
<1>3. /\ dirty' = [dirty EXCEPT ![r] = s]
      /\ copy' = [copy EXCEPT ![r][s] = AfterSignal(r, node, result[r], s)]
      /\ \A q \in Requests : todo'[q] \subseteq todo[q]
  BY ApplyType
<1>4. ASSUME NEW q \in Requests PROVE todo'[q] # {} => result'[q] # NoNode
  BY <1>3 DEF IInv, Held
<1>5. ASSUME NEW q \in Requests, NEW t \in Skills, dirty'[q] = t \/ holder'[t] = q
      PROVE  copy'[q][t] # NoNode
  <2>1. (q = r /\ t = s) \/ dirty[q] = t \/ holder[t] = q
    BY <1>3, <1>5 DEF IInv, TypeOK
  <2>2. copy'[q][t] = IF q = r /\ t = s THEN AfterSignal(r, node, result[r], s) ELSE copy[q][t]
    BY <1>1, <1>3 DEF IInv, TypeOK
  <2> QED
    BY <2>1, <2>2, <1>2 DEF IInv, Held
<1> QED
  BY <1>4, <1>5 DEF Held

\* Ending a transaction keeps the types and Held.
LEMMA EndTransactionInv ==
    ASSUME IInv, NEW r \in Requests, EndTransaction(r)
    PROVE  /\ holder' \in [Skills -> Requests \cup {NoNode}]
           /\ result' \in [Requests -> Results \cup {NoNode}]
           /\ todo' \in [Requests -> SUBSET Skills]
           /\ copy' \in [Requests -> [Skills -> Node \cup {NoNode}]]
           /\ dirty' \in [Requests -> Skills \cup {NoNode}]
           /\ written' \in [Requests -> [Skills -> SUBSET Columns]]
           /\ Held'
<1>1. /\ holder' \in [Skills -> Requests \cup {NoNode}]
      /\ result' \in [Requests -> Results \cup {NoNode}]
      /\ todo' \in [Requests -> SUBSET Skills]
      /\ copy' \in [Requests -> [Skills -> Node \cup {NoNode}]]
      /\ dirty' \in [Requests -> Skills \cup {NoNode}]
      /\ written' \in [Requests -> [Skills -> SUBSET Columns]]
  BY DEF IInv, TypeOK, EndTransaction
<1>2. ASSUME NEW q \in Requests PROVE todo'[q] # {} => result'[q] # NoNode
  BY DEF IInv, TypeOK, Held, EndTransaction
<1>3. ASSUME NEW q \in Requests, NEW t \in Skills, dirty'[q] = t \/ holder'[t] = q
      PROVE  copy'[q][t] # NoNode
  <2>1. NoNode \notin Skills /\ NoNode \notin Requests
    BY SkillGraphAssumption
  <2>2. q # r
    BY <1>3, <2>1 DEF IInv, TypeOK, EndTransaction
  <2>3. dirty[q] = t \/ holder[t] = q
    BY <1>3, <2>1, <2>2 DEF IInv, TypeOK, EndTransaction
  <2>4. copy'[q] = copy[q]
    BY <2>2 DEF IInv, TypeOK, EndTransaction
  <2> QED
    BY <2>3, <2>4 DEF IInv, Held
<1> QED
  BY <1>1, <1>2, <1>3 DEF Held

\* What a commit leaves in a row the request has changed is a node.
LEMMA CommittedRowType ==
    ASSUME IInv, NEW r \in Requests, NEW s \in Skills, copy[r][s] # NoNode
    PROVE  CommittedRow(r, s) \in Node
<1>1. copy[r][s] \in Node
  BY DEF IInv, TypeOK
<1>2. CASE row[s] = NoNode
  BY <1>1, <1>2 DEF CommittedRow
<1>3. CASE row[s] # NoNode
  <2>1. row[s] \in Node
    BY <1>3 DEF IInv, TypeOK
  <2>2. /\ Column(r, s, "score") \in Scores /\ Column(r, s, "best") \in Scores
        /\ Column(r, s, "trend") \in Trends /\ Column(r, s, "mistakes") \in Seq(Notes)
        /\ copy[r][s].days \in Nat
        /\ copy[r][s].links \in Seq([req : Requests \cup {"earlier"}, score : Scores])
    BY <1>1, <2>1 DEF Column, Node
  <2>3. UpdatedRow(r, s) \in Node
    BY <2>2 DEF UpdatedRow, Node
  <2> QED
    BY <2>3, <1>3 DEF CommittedRow
<1> QED
  BY <1>2, <1>3

\* A row that a transaction sees is a node.
LEMMA SeenType ==
    ASSUME IInv, NEW r \in Requests, NEW s \in Skills, Seen(r, s) # NoNode
    PROVE  Seen(r, s) \in Node
<1>1. CASE copy[r][s] = NoNode
  BY <1>1 DEF Seen, IInv, TypeOK
<1>2. CASE copy[r][s] # NoNode
  BY <1>2, CommittedRowType DEF Seen
<1> QED
  BY <1>1, <1>2

\* The initial states satisfy the invariant.
LEMMA InitInv == Init => IInv
<1> SUFFICES ASSUME Init PROVE IInv
  OBVIOUS
<1>1. InitialNodes \subseteq Node /\ NoNode \notin Skills \cup Requests /\ MaxSegments \in Nat
  BY SkillGraphAssumption
<1>2. row \in [Skills -> Node \cup {NoNode}]
  BY <1>1 DEF Init
<1>3. TypeOK
  BY <1>1, <1>2 DEF Init, TypeOK
<1>4. Held
  BY <1>1 DEF Init, Held
<1> QED
  BY <1>3, <1>4 DEF IInv

\* Every step keeps the invariant.
LEMMA NextInv == IInv /\ [Next]_vars => IInv'
<1> SUFFICES ASSUME IInv, [Next]_vars PROVE IInv'
  OBVIOUS
<1>1. CASE UNCHANGED vars
  BY <1>1 DEF IInv, TypeOK, Held, vars, request
<1>2. ASSUME NEW r \in Requests, StartSegment(r) PROVE IInv'
  <2>1. PICK res \in Results : /\ result' = [result EXCEPT ![r] = res]
                               /\ todo' = [todo EXCEPT ![r] = SignalledSkills(res)]
    BY <1>2 DEF StartSegment
  <2>2. SignalledSkills(res) \in SUBSET Skills /\ res # NoNode
    BY SignalledType, SkillGraphAssumption
  <2>3. segs' \in [Requests -> 0..MaxSegments]
    <3>1. segs[r] + 1 \in 0..MaxSegments /\ segs' = [segs EXCEPT ![r] = @ + 1]
      BY <1>2, SkillGraphAssumption DEF IInv, TypeOK, StartSegment
    <3> QED
      BY <3>1 DEF IInv, TypeOK
  <2>4. TypeOK'
    BY <1>2, <2>1, <2>2, <2>3 DEF IInv, TypeOK, StartSegment
  <2>5. Held'
    BY <1>2, <2>1, <2>2 DEF IInv, TypeOK, Held, StartSegment
  <2> QED
    BY <2>4, <2>5 DEF IInv
<1>3. ASSUME NEW r \in Requests, Flush(r) PROVE IInv'
  <2>1. dirty[r] \in Skills
    BY <1>3 DEF Flush, IInv, TypeOK
  <2>2. TypeOK'
    BY <1>3, <2>1 DEF IInv, TypeOK, Flush, request
  <2>3. Held'
    <3>1. NoNode \notin Skills
      BY SkillGraphAssumption
    <3> QED
      BY <1>3, <2>1, <3>1 DEF IInv, TypeOK, Held, Flush, request
  <2> QED
    BY <2>2, <2>3 DEF IInv
<1>4. ASSUME NEW r \in Requests, NEW s \in Skills, Select(r, s) PROVE IInv'
  <2>1. s \in todo[r]
    BY <1>4 DEF Select, NextSkill
  <2>2. PICK node \in Node : Apply(r, s, node)
    BY <1>4, SeenType DEF Select
  <2>3. UNCHANGED <<row, holder, pc, result, segs>>
    BY <1>4 DEF Select
  <2>4. Held'
    BY <2>1, <2>2, <2>3, ApplyHeld
  <2>5. TypeOK'
    <3>1. /\ copy' \in [Requests -> [Skills -> Node \cup {NoNode}]]
          /\ written' \in [Requests -> [Skills -> SUBSET Columns]]
          /\ dirty' \in [Requests -> Skills \cup {NoNode}]
          /\ todo' \in [Requests -> SUBSET Skills]
      BY <2>1, <2>2, ApplyType
    <3> QED
      BY <2>3, <3>1 DEF IInv, TypeOK
  <2> QED
    BY <2>4, <2>5 DEF IInv
<1>5. ASSUME NEW r \in Requests, NEW s \in Skills, SelectNone(r, s) PROVE IInv'
  BY <1>5 DEF IInv, TypeOK, Held, SelectNone
<1>6. ASSUME NEW r \in Requests, NEW s \in Skills, Insert(r, s) PROVE IInv'
  <2>1. s \in todo[r] /\ Apply(r, s, NewNode) /\ NewNode \in Node
    BY <1>6, NewNodeType DEF Insert, NextSkill
  <2>2. /\ UNCHANGED <<row, result, segs>>
        /\ pc' = [pc EXCEPT ![r] = "update"]
        /\ holder' = [holder EXCEPT ![s] = r]
    BY <1>6 DEF Insert
  <2>3. Held'
    BY <2>1, <2>2, ApplyHeld
  <2>4. TypeOK'
    <3>1. /\ copy' \in [Requests -> [Skills -> Node \cup {NoNode}]]
          /\ written' \in [Requests -> [Skills -> SUBSET Columns]]
          /\ dirty' \in [Requests -> Skills \cup {NoNode}]
          /\ todo' \in [Requests -> SUBSET Skills]
      BY <2>1, ApplyType
    <3> QED
      BY <2>2, <3>1 DEF IInv, TypeOK
  <2> QED
    BY <2>3, <2>4 DEF IInv
<1>7. ASSUME NEW r \in Requests, Fail(r) PROVE IInv'
  <2>1. EndTransaction(r) /\ UNCHANGED <<row, segs>> /\ pc' = [pc EXCEPT ![r] = "failed"]
    BY <1>7 DEF Fail, EndTransaction
  <2> QED
    BY <2>1, EndTransactionInv DEF IInv, TypeOK
<1>8. ASSUME NEW r \in Requests, Commit(r) PROVE IInv'
  <2>1. /\ EndTransaction(r) /\ UNCHANGED segs /\ pc' = [pc EXCEPT ![r] = "done"]
        /\ row' = [s \in Skills |-> IF holder[s] = r THEN CommittedRow(r, s) ELSE row[s]]
    BY <1>8 DEF Commit, EndTransaction
  <2>2. \A s \in Skills : holder[s] = r => CommittedRow(r, s) \in Node
    BY CommittedRowType DEF IInv, Held
  <2>3. row' \in [Skills -> Node \cup {NoNode}]
    BY <2>1, <2>2 DEF IInv, TypeOK
  <2> QED
    BY <2>1, <2>3, EndTransactionInv DEF IInv, TypeOK
<1>9. \A r \in Requests, s \in Skills : InsertConflict(r, s) => Fail(r)
  BY DEF InsertConflict
<1>10. \A r \in Requests : DeadlockVictim(r) \/ LoseConnection(r) => Fail(r)
  BY DEF DeadlockVictim, LoseConnection
<1> QED
  BY <1>1, <1>2, <1>3, <1>4, <1>5, <1>6, <1>7, <1>8, <1>9, <1>10 DEF Next, Update

\* Every reachable state has the declared types: no sequence of concurrent
\* requests takes a score out of 0..100, or a trend, list or lock out of its type.
THEOREM TypeCorrect == Spec => []TypeOK
<1>1. IInv => TypeOK
  BY DEF IInv
<1> QED
  BY InitInv, NextInv, <1>1, PTL DEF Spec

-----------------------------------------------------------------------------
(* A request that fails leaves no trace *)

\* The request has committed.
Settled(q) == q = "earlier" \/ pc[q] = "done"

\* Rows hold links of committed requests only; a node object may also hold
\* links of the request that owns it.
Provenance ==
    /\ \A s \in Skills : row[s] # NoNode => \A l \in ToSet(row[s].links) : Settled(l.req)
    /\ \A r \in Requests, s \in Skills :
         copy[r][s] # NoNode => \A l \in ToSet(copy[r][s].links) : l.req = r \/ Settled(l.req)

\* A step that applies a signal to a node whose links have a provenance keeps it.
LEMMA ApplyProvenance ==
    ASSUME IInv, Provenance, NEW r \in Requests, NEW s \in todo[r], NEW node \in Node,
           Apply(r, s, node), \A l \in ToSet(node.links) : l.req = r \/ Settled(l.req),
           UNCHANGED row, \A q : Settled(q) => Settled(q)'
    PROVE  Provenance'
<1> DEFINE new == AfterSignal(r, node, result[r], s)
<1>1. s \in Skills /\ result[r] \in Results /\ copy' = [copy EXCEPT ![r][s] = new]
  BY ApplyType
<1>2. \A l \in ToSet(new.links) : l.req = r \/ l \in ToSet(node.links)
  BY <1>1, AfterSignalType
<1> HIDE DEF new
<1>3. ASSUME NEW q \in Requests, NEW t \in Skills, copy'[q][t] # NoNode,
             NEW l \in ToSet(copy'[q][t].links)
      PROVE  l.req = q \/ Settled(l.req)'
  <2>1. copy'[q][t] = IF q = r /\ t = s THEN new ELSE copy[q][t]
    BY <1>1 DEF IInv, TypeOK
  <2> QED
    BY <1>2, <1>3, <2>1 DEF Provenance
<1> QED
  BY <1>3 DEF Provenance

\* The initial rows hold links of earlier requests only.
LEMMA InitProvenance == Init => Provenance
BY SkillGraphAssumption DEF Init, Provenance, Settled

\* Every step keeps the provenance of links.
LEMMA NextProvenance == IInv /\ Provenance /\ [Next]_vars => Provenance'
<1> SUFFICES ASSUME IInv, Provenance, [Next]_vars PROVE Provenance'
  OBVIOUS
<1>1. ASSUME NEW q, Settled(q) PROVE Settled(q)'
  <2>1. ASSUME NEW r \in Requests, NEW w, pc[r] # "done", pc' = [pc EXCEPT ![r] = w]
        PROVE  Settled(q)'
    BY <1>1, <2>1 DEF Settled, IInv, TypeOK
  <2>2. ASSUME UNCHANGED pc PROVE Settled(q)'
    BY <1>1, <2>2 DEF Settled
  <2>3. ASSUME NEW r \in Requests, StartSegment(r) PROVE Settled(q)'
    BY <2>1, <2>3 DEF StartSegment
  <2>4. ASSUME NEW r \in Requests, Fail(r) PROVE Settled(q)'
    BY <2>1, <2>4 DEF Fail, Running
  <2>5. ASSUME NEW r \in Requests, Commit(r) PROVE Settled(q)'
    BY <2>1, <2>5 DEF Commit
  <2>6. ASSUME NEW r \in Requests, NEW s \in Skills, SelectNone(r, s) \/ Insert(r, s)
        PROVE  Settled(q)'
    BY <2>1, <2>6 DEF SelectNone, Insert
  <2>7. ASSUME NEW r \in Requests, NEW s \in Skills, Select(r, s) PROVE UNCHANGED pc
    BY <2>7 DEF Select
  <2>8. ASSUME NEW r \in Requests, Flush(r) PROVE UNCHANGED pc
    BY <2>8 DEF Flush, request
  <2>9. ASSUME NEW r \in Requests, NEW s \in Skills, InsertConflict(r, s) PROVE Fail(r)
    BY <2>9 DEF InsertConflict
  <2>10. ASSUME NEW r \in Requests, DeadlockVictim(r) \/ LoseConnection(r) PROVE Fail(r)
    BY <2>10 DEF DeadlockVictim, LoseConnection
  <2>11. UNCHANGED vars => UNCHANGED pc
    BY DEF vars, request
  <2> QED
    BY <2>2, <2>3, <2>4, <2>5, <2>6, <2>7, <2>8, <2>9, <2>10, <2>11 DEF Next, Update
<1>2. CASE UNCHANGED <<row, copy>>
  BY <1>1, <1>2 DEF Provenance
<1>3. ASSUME NEW r \in Requests, NEW s \in Skills, Select(r, s) PROVE Provenance'
  <2>1. s \in todo[r] /\ UNCHANGED row
    BY <1>3 DEF Select, NextSkill
  <2>2. PICK node \in Node : /\ Apply(r, s, node)
                             /\ \A l \in ToSet(node.links) : l.req = r \/ Settled(l.req)
    <3>1. Apply(r, s, Seen(r, s)) /\ Seen(r, s) # NoNode /\ Seen(r, s) \in Node
      BY <1>3, SeenType DEF Select
    <3>2. CASE copy[r][s] # NoNode
      <4>1. Seen(r, s).links = copy[r][s].links
        BY <3>2 DEF Seen, CommittedRow, UpdatedRow
      <4> QED
        BY <3>1, <3>2, <4>1 DEF Provenance
    <3>3. CASE copy[r][s] = NoNode
      <4>1. Seen(r, s) = row[s]
        BY <3>3 DEF Seen
      <4> QED
        BY <3>1, <4>1 DEF Provenance
    <3> QED
      BY <3>2, <3>3
  <2> QED
    BY <1>1, <2>1, <2>2, ApplyProvenance
<1>4. ASSUME NEW r \in Requests, NEW s \in Skills, Insert(r, s) PROVE Provenance'
  <2>1. s \in todo[r] /\ UNCHANGED row /\ Apply(r, s, NewNode) /\ NewNode \in Node
    BY <1>4, NewNodeType DEF Insert, NextSkill
  <2>2. ToSet(NewNode.links) = {}
    BY DEF NewNode, ToSet
  <2> QED
    BY <1>1, <2>1, <2>2, ApplyProvenance
<1>5. ASSUME NEW r \in Requests, Fail(r) PROVE Provenance'
  <2>1. UNCHANGED row /\ copy' = [copy EXCEPT ![r] = [s \in Skills |-> NoNode]]
    BY <1>5 DEF Fail, EndTransaction
  <2> QED
    BY <1>1, <2>1 DEF Provenance, IInv, TypeOK
<1>6. ASSUME NEW r \in Requests, Commit(r) PROVE Provenance'
  <2>1. /\ copy' = [copy EXCEPT ![r] = [s \in Skills |-> NoNode]]
        /\ row' = [s \in Skills |-> IF holder[s] = r THEN CommittedRow(r, s) ELSE row[s]]
        /\ pc' = [pc EXCEPT ![r] = "done"]
    BY <1>6 DEF Commit, EndTransaction
  <2>2. Settled(r)'
    BY <2>1 DEF Settled, IInv, TypeOK
  <2>3. ASSUME NEW s \in Skills, row'[s] # NoNode, NEW l \in ToSet(row'[s].links)
        PROVE  Settled(l.req)'
    <3>1. CASE holder[s] = r
      <4>1. copy[r][s] # NoNode /\ row'[s].links = copy[r][s].links
        BY <2>1, <3>1 DEF CommittedRow, UpdatedRow, IInv, Held
      <4> QED
        BY <1>1, <2>2, <2>3, <4>1 DEF Provenance
    <3>2. CASE holder[s] # r
      BY <1>1, <2>1, <2>3, <3>2 DEF Provenance
    <3> QED
      BY <3>1, <3>2
  <2>4. ASSUME NEW q \in Requests, NEW s \in Skills, copy'[q][s] # NoNode,
               NEW l \in ToSet(copy'[q][s].links)
        PROVE  l.req = q \/ Settled(l.req)'
    BY <1>1, <2>1, <2>4 DEF Provenance, IInv, TypeOK
  <2> QED
    BY <2>3, <2>4 DEF Provenance
<1>7. ASSUME NEW r \in Requests, StartSegment(r) \/ Flush(r) PROVE UNCHANGED <<row, copy>>
  BY <1>7 DEF StartSegment, Flush
<1>8. ASSUME NEW r \in Requests, NEW s \in Skills, SelectNone(r, s) PROVE UNCHANGED <<row, copy>>
  BY <1>8 DEF SelectNone
<1>9. \A r \in Requests, s \in Skills : InsertConflict(r, s) => Fail(r)
  BY DEF InsertConflict
<1>10. \A r \in Requests : DeadlockVictim(r) \/ LoseConnection(r) => Fail(r)
  BY DEF DeadlockVictim, LoseConnection
<1>11. UNCHANGED vars => UNCHANGED <<row, copy>>
  BY DEF vars
<1> QED
  BY <1>2, <1>3, <1>4, <1>5, <1>6, <1>7, <1>8, <1>9, <1>10, <1>11 DEF Next, Update

\* However requests interleave, one whose transaction failed has left no
\* evidence link in any row.
THEOREM FailureAtomic == Spec => []FailedLeavesNoTrace
<1>1. Provenance => FailedLeavesNoTrace
  BY SkillGraphAssumption DEF Provenance, FailedLeavesNoTrace, Settled
<1> QED
  BY InitInv, NextInv, InitProvenance, NextProvenance, <1>1, PTL DEF Spec

-----------------------------------------------------------------------------
(* Requests sent one after another keep the personal record *)

\* One request runs at a time, and only it holds node objects.
Alone ==
    /\ \A r, q \in Running : r = q
    /\ \A r \in Requests \ Running, s \in Skills : copy[r][s] = NoNode

\* A node is at least as good as a row, and equal to it in the columns of W
\* that it does not name as written.
Covers(node, line, W) ==
    /\ node.best >= line.best
    /\ "best" \notin W => node.best = line.best
    /\ "score" \notin W => node.score = line.score

\* Node objects cover the rows they were loaded from.
SerialInv ==
    /\ Alone
    /\ \A r \in Requests, s \in Skills : copy[r][s] # NoNode =>
         /\ copy[r][s].best >= copy[r][s].score
         /\ row[s] # NoNode => Covers(copy[r][s], row[s], written[r][s])
    /\ BestCoversScore

\* The scores of a node are integers.
LEMMA NodeScores ==
    ASSUME NEW node \in Node
    PROVE  node.best \in Int /\ node.score \in Int /\ node.best >= node.best
<1>1. node.best \in Scores /\ node.score \in Scores
  BY DEF Node
<1> QED
  BY <1>1 DEF Scores

\* Applying a signal to a node that covers the row keeps SerialInv.
LEMMA ApplySerial ==
    ASSUME IInv, SerialInv, NEW r \in Running, NEW s \in todo[r], NEW node \in Node,
           Apply(r, s, node), row[s] # NoNode => Covers(node, row[s], written[r][s]),
           UNCHANGED <<row, Running>>
    PROVE  SerialInv'
<1> DEFINE new == AfterSignal(r, node, result[r], s)
<1>1. /\ r \in Requests /\ s \in Skills /\ result[r] \in Results
      /\ copy' = [copy EXCEPT ![r][s] = new]
      /\ written' = [written EXCEPT ![r][s] = @ \cup Changed(node, new)]
  BY ApplyType DEF Running
<1>2. new \in Node /\ new.best >= new.score /\ new.best >= node.best
  BY <1>1, AfterSignalType
<1> HIDE DEF new
<1>3. copy'[r][s] = new /\ written'[r][s] = written[r][s] \cup Changed(node, new)
  BY <1>1 DEF IInv, TypeOK
<1>4. row[s] # NoNode => Covers(new, row[s], written'[r][s])
  <2>1. "best" \notin Changed(node, new) => new.best = node.best
    BY DEF Changed, Columns
  <2>2. "score" \notin Changed(node, new) => new.score = node.score
    BY DEF Changed, Columns
  <2>3. row[s] # NoNode => row[s].best \in Int /\ node.best \in Int /\ new.best \in Int
    <3>1. row[s] # NoNode => row[s] \in Node
      BY <1>1 DEF IInv, TypeOK
    <3> QED
      BY <1>2, <3>1, NodeScores
  <2> QED
    BY <1>2, <1>3, <2>1, <2>2, <2>3 DEF Covers
<1>5. ASSUME NEW q \in Requests, NEW t \in Skills, q # r \/ t # s
      PROVE  copy'[q][t] = copy[q][t] /\ written'[q][t] = written[q][t]
  BY <1>1, <1>5 DEF IInv, TypeOK
<1>6. ASSUME NEW q \in Requests, NEW t \in Skills, copy'[q][t] # NoNode
      PROVE  /\ copy'[q][t].best >= copy'[q][t].score
             /\ row'[t] # NoNode => Covers(copy'[q][t], row'[t], written'[q][t])
  BY <1>2, <1>3, <1>4, <1>5, <1>6 DEF SerialInv, Alone
<1>7. \A q \in Requests \ Running', t \in Skills : copy'[q][t] = NoNode
  BY <1>5 DEF SerialInv, Alone
<1>8. BestCoversScore' /\ \A q, t \in Running' : q = t
  BY DEF SerialInv, Alone, BestCoversScore
<1> QED
  BY <1>6, <1>7, <1>8 DEF SerialInv, Alone, Covers

\* The row a commit of the only running request leaves covers the old row.
LEMMA CommittedRowCovers ==
    ASSUME IInv, SerialInv, NEW r \in Requests, NEW s \in Skills, holder[s] = r
    PROVE  /\ CommittedRow(r, s) \in Node
           /\ CommittedRow(r, s).best >= CommittedRow(r, s).score
           /\ row[s] # NoNode => CommittedRow(r, s).best >= row[s].best
<1>1. copy[r][s] # NoNode /\ copy[r][s].best >= copy[r][s].score
  BY DEF IInv, Held, SerialInv, Alone
<1>2. CASE row[s] = NoNode
  BY <1>1, <1>2, CommittedRowType DEF CommittedRow
<1>3. CASE row[s] # NoNode
  <2>1. Covers(copy[r][s], row[s], written[r][s])
    BY <1>1, <1>3 DEF SerialInv, Alone
  <2>2. /\ CommittedRow(r, s).best = Column(r, s, "best")
        /\ CommittedRow(r, s).score = Column(r, s, "score")
    BY <1>3 DEF CommittedRow, UpdatedRow
  <2>3. Column(r, s, "best") = copy[r][s].best /\ Column(r, s, "score") = copy[r][s].score
    BY <2>1 DEF Column, Covers
  <2> QED
    BY <1>1, <2>1, <2>2, <2>3, CommittedRowType DEF Covers
<1> QED
  BY <1>2, <1>3

\* The initial states satisfy SerialInv, if the user's nodes have their best.
LEMMA InitSerial ==
    ASSUME \A n \in InitialNodes : n.best >= n.score
    PROVE  Init => SerialInv
BY DEF Init, SerialInv, Alone, Running, BestCoversScore

\* If the client waits for each request, every step keeps SerialInv and no
\* step lowers a best score.
LEMMA NextSerial ==
    ASSUME Serial, IInv, SerialInv, [Next]_vars
    PROVE  SerialInv' /\ \A s \in Skills : row[s] # NoNode => row'[s].best >= row[s].best
<1>1. \A s \in Skills : row[s] # NoNode => row[s].best >= row[s].best
  <2>1. \A s \in Skills : row[s] # NoNode => row[s] \in Node
    BY DEF IInv, TypeOK
  <2> QED
    BY <2>1, NodeScores
<1>2. CASE UNCHANGED <<row, copy, written, Running>>
  BY <1>1, <1>2 DEF SerialInv, Alone, BestCoversScore
<1>3. ASSUME NEW r \in Requests, StartSegment(r) PROVE SerialInv' /\ UNCHANGED row
  <2>1. UNCHANGED <<row, copy, written>> /\ pc' = [pc EXCEPT ![r] = "update"]
    BY <1>3 DEF StartSegment
  <2>2. Running' = Running \cup {r}
    BY <2>1 DEF Running, IInv, TypeOK
  <2>3. r \in Running \/ Running = {}
    BY <1>3 DEF StartSegment, Running
  <2>4. \A p, q \in Running' : p = q
    BY <2>2, <2>3 DEF SerialInv, Alone
  <2> QED
    BY <2>1, <2>2, <2>4 DEF SerialInv, Alone, BestCoversScore
<1>4. ASSUME NEW r \in Requests, NEW s \in Skills, Select(r, s) PROVE SerialInv' /\ UNCHANGED row
  <2>1. s \in todo[r] /\ r \in Running /\ UNCHANGED <<row, pc>>
    BY <1>4 DEF Select, NextSkill, Running
  <2>2. UNCHANGED Running
    BY <2>1 DEF Running
  <2>3. Seen(r, s) \in Node /\ Apply(r, s, Seen(r, s))
    BY <1>4, SeenType DEF Select
  <2>4. row[s] # NoNode => Covers(Seen(r, s), row[s], written[r][s])
    <3>1. CASE copy[r][s] # NoNode
      <4>1. row[s] # NoNode => Covers(UpdatedRow(r, s), row[s], written[r][s])
        BY <3>1 DEF SerialInv, Alone, Covers, UpdatedRow, Column
      <4> QED
        BY <3>1, <4>1 DEF Seen, CommittedRow
    <3>2. CASE copy[r][s] = NoNode
      <4>1. Seen(r, s) = row[s]
        BY <3>2 DEF Seen
      <4> QED
        BY <2>3, <4>1, NodeScores DEF Covers
    <3> QED
      BY <3>1, <3>2
  <2> QED
    BY <2>1, <2>2, <2>3, <2>4, ApplySerial
<1>5. ASSUME NEW r \in Requests, NEW s \in Skills, Insert(r, s) PROVE SerialInv' /\ UNCHANGED row
  <2>1. /\ s \in todo[r] /\ r \in Running /\ UNCHANGED row /\ row[s] = NoNode
        /\ Apply(r, s, NewNode) /\ NewNode \in Node
    BY <1>5, NewNodeType DEF Insert, NextSkill, Running
  <2>2. UNCHANGED Running
    BY <1>5 DEF Insert, Running, IInv, TypeOK
  <2> QED
    BY <2>1, <2>2, ApplySerial
<1>6. ASSUME NEW r \in Requests, NEW w \in {"done", "failed"}, r \in Running,
             EndTransaction(r), pc' = [pc EXCEPT ![r] = w],
             \A s \in Skills : row'[s] # NoNode => row'[s].best >= row'[s].score
      PROVE  SerialInv'
  <2>1. Running' = {}
    BY <1>6 DEF Running, SerialInv, Alone, IInv, TypeOK
  <2>2. copy' = [copy EXCEPT ![r] = [s \in Skills |-> NoNode]]
    BY <1>6 DEF EndTransaction
  <2>3. \A q \in Requests, s \in Skills : copy'[q][s] = NoNode
    BY <1>6, <2>2 DEF SerialInv, Alone, IInv, TypeOK
  <2> QED
    BY <1>6, <2>1, <2>3 DEF SerialInv, Alone, BestCoversScore
<1>7. ASSUME NEW r \in Requests, Fail(r) PROVE SerialInv' /\ UNCHANGED row
  <2>1. r \in Running /\ EndTransaction(r) /\ pc' = [pc EXCEPT ![r] = "failed"] /\ UNCHANGED row
    BY <1>7 DEF Fail
  <2>2. \A s \in Skills : row'[s] # NoNode => row'[s].best >= row'[s].score
    BY <2>1 DEF SerialInv, Alone, BestCoversScore
  <2> QED
    BY <1>6, <2>1, <2>2
<1>8. ASSUME NEW r \in Requests, Commit(r)
      PROVE  SerialInv' /\ \A s \in Skills : row[s] # NoNode => row'[s].best >= row[s].best
  <2>1. /\ r \in Running /\ EndTransaction(r) /\ pc' = [pc EXCEPT ![r] = "done"]
        /\ row' = [s \in Skills |-> IF holder[s] = r THEN CommittedRow(r, s) ELSE row[s]]
    BY <1>8 DEF Commit, Running
  <2>2. \A s \in Skills : row'[s] # NoNode => row'[s].best >= row'[s].score
    BY <2>1, CommittedRowCovers DEF SerialInv, Alone, BestCoversScore
  <2>3. \A s \in Skills : row[s] # NoNode => row'[s].best >= row[s].best
    BY <1>1, <2>1, CommittedRowCovers
  <2> QED
    BY <1>6, <2>1, <2>2, <2>3
<1>9. ASSUME NEW r \in Requests, Flush(r) PROVE UNCHANGED <<row, copy, written, Running>>
  BY <1>9 DEF Flush, request, Running
<1>10. ASSUME NEW r \in Requests, NEW s \in Skills, SelectNone(r, s)
       PROVE  UNCHANGED <<row, copy, written, Running>>
  BY <1>10 DEF SelectNone, Running, IInv, TypeOK
<1>11. \A r \in Requests, s \in Skills : InsertConflict(r, s) => Fail(r)
  BY DEF InsertConflict
<1>12. \A r \in Requests : DeadlockVictim(r) \/ LoseConnection(r) => Fail(r)
  BY DEF DeadlockVictim, LoseConnection
<1>13. UNCHANGED vars => UNCHANGED <<row, copy, written, Running>>
  BY DEF vars, request, Running
<1> QED
  BY <1>1, <1>2, <1>3, <1>4, <1>5, <1>7, <1>8, <1>9, <1>10, <1>11, <1>12, <1>13 DEF Next, Update

\* If the client waits for each scoring request before it sends the next, the
\* best score of a skill is never below its current score.  Overlapping requests
\* can break it: a best score computed from an older row lowers the stored one,
\* and a third request then writes the higher score it had read.
THEOREM RecordCovers ==
    ASSUME Serial, \A n \in InitialNodes : n.best >= n.score
    PROVE  Spec => []BestCoversScore
<1>1. Init => IInv /\ SerialInv
  BY InitInv, InitSerial
<1>2. IInv /\ SerialInv /\ [Next]_vars => (IInv /\ SerialInv)'
  BY NextInv, NextSerial
<1>3. IInv /\ SerialInv => BestCoversScore
  BY DEF SerialInv, Alone
<1> QED
  BY <1>1, <1>2, <1>3, PTL DEF Spec

\* Under the same condition no commit lowers a best score.
THEOREM RecordNeverDrops ==
    ASSUME Serial, \A n \in InitialNodes : n.best >= n.score
    PROVE  Spec => BestNeverDrops
<1>1. Init => IInv /\ SerialInv
  BY InitInv, InitSerial
<1>2. IInv /\ SerialInv /\ [Next]_vars => (IInv /\ SerialInv)'
  BY NextInv, NextSerial
<1>3. IInv /\ SerialInv /\ [Next]_vars =>
        [\A s \in Skills : row[s] # NoNode => row'[s].best >= row[s].best]_row
  BY NextSerial
<1> QED
  BY <1>1, <1>2, <1>3, PTL DEF Spec, BestNeverDrops

-----------------------------------------------------------------------------
(* Requests sent one after another keep the review date *)

\* The review date is the one the node's own score and trend call for.
Dated(node) == node.days = NextReviewDays(node.score, node.trend)

\* A node is the row in the columns of W that it does not name as written.
Agrees(node, line, W) ==
    /\ "score" \notin W => node.score = line.score
    /\ "trend" \notin W => node.trend = line.trend

\* An UPDATE always writes the review date, the score and trend it is computed from
\* only if they changed: so a node object must still agree with the row.
ReviewInv ==
    /\ Alone
    /\ \A r \in Requests, s \in Skills : copy[r][s] # NoNode =>
         /\ Dated(copy[r][s])
         /\ row[s] # NoNode => Agrees(copy[r][s], row[s], written[r][s])
    /\ ReviewMatchesScore

\* A signal dates the node it changes.
LEMMA AfterSignalDated ==
    ASSUME NEW r, NEW node, NEW res, NEW s
    PROVE  Dated(AfterSignal(r, node, res, s))
BY DEF Dated, AfterSignal

\* Applying a signal to a node that agrees with the row keeps ReviewInv.
LEMMA ApplyReview ==
    ASSUME IInv, ReviewInv, NEW r \in Running, NEW s \in todo[r], NEW node \in Node,
           Apply(r, s, node), row[s] # NoNode => Agrees(node, row[s], written[r][s]),
           UNCHANGED <<row, Running>>
    PROVE  ReviewInv'
<1> DEFINE new == AfterSignal(r, node, result[r], s)
<1>1. /\ r \in Requests /\ s \in Skills
      /\ copy' = [copy EXCEPT ![r][s] = new]
      /\ written' = [written EXCEPT ![r][s] = @ \cup Changed(node, new)]
  BY ApplyType DEF Running
<1>2. Dated(new)
  BY AfterSignalDated
<1> HIDE DEF new
<1>3. copy'[r][s] = new /\ written'[r][s] = written[r][s] \cup Changed(node, new)
  BY <1>1 DEF IInv, TypeOK
<1>4. row[s] # NoNode => Agrees(new, row[s], written'[r][s])
  <2>1. /\ "trend" \notin Changed(node, new) => new.trend = node.trend
        /\ "score" \notin Changed(node, new) => new.score = node.score
    BY DEF Changed, Columns
  <2> QED
    BY <1>3, <2>1 DEF Agrees
<1>5. ASSUME NEW q \in Requests, NEW t \in Skills, q # r \/ t # s
      PROVE  copy'[q][t] = copy[q][t] /\ written'[q][t] = written[q][t]
  BY <1>1, <1>5 DEF IInv, TypeOK
<1>6. ASSUME NEW q \in Requests, NEW t \in Skills, copy'[q][t] # NoNode
      PROVE  /\ Dated(copy'[q][t])
             /\ row'[t] # NoNode => Agrees(copy'[q][t], row'[t], written'[q][t])
  BY <1>2, <1>3, <1>4, <1>5, <1>6 DEF ReviewInv, Alone
<1>7. \A q \in Requests \ Running', t \in Skills : copy'[q][t] = NoNode
  BY <1>5 DEF ReviewInv, Alone
<1>8. ReviewMatchesScore' /\ \A q, t \in Running' : q = t
  BY DEF ReviewInv, Alone, ReviewMatchesScore
<1>9. ASSUME NEW q \in Requests, NEW t \in Skills, copy'[q][t] # NoNode
      PROVE  /\ Dated(copy[q][t])'
             /\ row'[t] # NoNode => Agrees(copy[q][t], row[t], written[q][t])'
  BY <1>6, <1>9 DEF Dated, Agrees
<1> QED
  BY <1>7, <1>8, <1>9 DEF ReviewInv, Alone

\* The row a commit of the only running request leaves is dated.
LEMMA CommittedRowDated ==
    ASSUME IInv, ReviewInv, NEW r \in Requests, NEW s \in Skills, holder[s] = r
    PROVE  Dated(CommittedRow(r, s))
<1>1. copy[r][s] # NoNode /\ Dated(copy[r][s])
  BY DEF IInv, Held, ReviewInv, Alone
<1>2. CASE row[s] = NoNode
  BY <1>1, <1>2 DEF CommittedRow
<1>3. CASE row[s] # NoNode
  <2>1. Agrees(copy[r][s], row[s], written[r][s])
    BY <1>1, <1>3 DEF ReviewInv, Alone
  <2>2. /\ CommittedRow(r, s).score = Column(r, s, "score")
        /\ CommittedRow(r, s).trend = Column(r, s, "trend")
        /\ CommittedRow(r, s).days = copy[r][s].days
    BY <1>3 DEF CommittedRow, UpdatedRow
  <2>3. Column(r, s, "score") = copy[r][s].score /\ Column(r, s, "trend") = copy[r][s].trend
    BY <2>1 DEF Column, Agrees
  <2> QED
    BY <1>1, <2>2, <2>3 DEF Dated
<1> QED
  BY <1>2, <1>3

\* If the client waits for each request, every step keeps ReviewInv.
LEMMA NextReview ==
    ASSUME Serial, IInv, ReviewInv, [Next]_vars
    PROVE  ReviewInv'
<1>1. CASE UNCHANGED <<row, copy, written, Running>>
  BY <1>1 DEF ReviewInv, Alone, ReviewMatchesScore, Dated, Agrees
<1>2. ASSUME NEW r \in Requests, StartSegment(r) PROVE ReviewInv'
  <2>1. UNCHANGED <<row, copy, written>> /\ pc' = [pc EXCEPT ![r] = "update"]
    BY <1>2 DEF StartSegment
  <2>2. Running' = Running \cup {r}
    BY <2>1 DEF Running, IInv, TypeOK
  <2>3. r \in Running \/ Running = {}
    BY <1>2 DEF StartSegment, Running
  <2>4. \A p, q \in Running' : p = q
    BY <2>2, <2>3 DEF ReviewInv, Alone
  <2> QED
    BY <2>1, <2>2, <2>4 DEF ReviewInv, Alone, ReviewMatchesScore, Dated, Agrees
<1>3. ASSUME NEW r \in Requests, NEW s \in Skills, Select(r, s) PROVE ReviewInv'
  <2>1. s \in todo[r] /\ r \in Running /\ UNCHANGED <<row, pc>>
    BY <1>3 DEF Select, NextSkill, Running
  <2>2. UNCHANGED Running
    BY <2>1 DEF Running
  <2>3. Seen(r, s) \in Node /\ Apply(r, s, Seen(r, s))
    BY <1>3, SeenType DEF Select
  <2>4. row[s] # NoNode => Agrees(Seen(r, s), row[s], written[r][s])
    <3>1. CASE copy[r][s] # NoNode
      BY <3>1 DEF Seen, CommittedRow, UpdatedRow, Agrees, Column
    <3>2. CASE copy[r][s] = NoNode
      BY <3>2 DEF Seen, Agrees
    <3> QED
      BY <3>1, <3>2
  <2> QED
    BY <2>1, <2>2, <2>3, <2>4, ApplyReview
<1>4. ASSUME NEW r \in Requests, NEW s \in Skills, Insert(r, s) PROVE ReviewInv'
  <2>1. /\ s \in todo[r] /\ r \in Running /\ UNCHANGED row /\ row[s] = NoNode
        /\ Apply(r, s, NewNode) /\ NewNode \in Node
    BY <1>4, NewNodeType DEF Insert, NextSkill, Running
  <2>2. UNCHANGED Running
    BY <1>4 DEF Insert, Running, IInv, TypeOK
  <2> QED
    BY <2>1, <2>2, ApplyReview
<1>5. ASSUME NEW r \in Requests, NEW w \in {"done", "failed"}, r \in Running,
             EndTransaction(r), pc' = [pc EXCEPT ![r] = w],
             \A s \in Skills : row'[s] # NoNode => Dated(row'[s])
      PROVE  ReviewInv'
  <2>1. Running' = {}
    BY <1>5 DEF Running, ReviewInv, Alone, IInv, TypeOK
  <2>2. copy' = [copy EXCEPT ![r] = [s \in Skills |-> NoNode]]
    BY <1>5 DEF EndTransaction
  <2>3. \A q \in Requests, s \in Skills : copy'[q][s] = NoNode
    BY <1>5, <2>2 DEF ReviewInv, Alone, IInv, TypeOK
  <2>4. ReviewMatchesScore'
    BY <1>5 DEF ReviewMatchesScore, Dated
  <2> QED
    BY <2>1, <2>3, <2>4 DEF ReviewInv, Alone
<1>6. ASSUME NEW r \in Requests, Fail(r) PROVE ReviewInv'
  <2>1. r \in Running /\ EndTransaction(r) /\ pc' = [pc EXCEPT ![r] = "failed"] /\ UNCHANGED row
    BY <1>6 DEF Fail
  <2>2. \A s \in Skills : row'[s] # NoNode => Dated(row'[s])
    BY <2>1 DEF ReviewInv, Alone, ReviewMatchesScore, Dated
  <2> QED
    BY <1>5, <2>1, <2>2
<1>7. ASSUME NEW r \in Requests, Commit(r) PROVE ReviewInv'
  <2>1. /\ r \in Running /\ EndTransaction(r) /\ pc' = [pc EXCEPT ![r] = "done"]
        /\ row' = [s \in Skills |-> IF holder[s] = r THEN CommittedRow(r, s) ELSE row[s]]
    BY <1>7 DEF Commit, Running
  <2>2. \A s \in Skills : row[s] # NoNode => Dated(row[s])
    BY DEF ReviewInv, Alone, ReviewMatchesScore, Dated
  <2>3. \A s \in Skills : row'[s] # NoNode => Dated(row'[s])
    BY <2>1, <2>2, CommittedRowDated
  <2> QED
    BY <1>5, <2>1, <2>3
<1>8. ASSUME NEW r \in Requests, Flush(r) PROVE UNCHANGED <<row, copy, written, Running>>
  BY <1>8 DEF Flush, request, Running
<1>9. ASSUME NEW r \in Requests, NEW s \in Skills, SelectNone(r, s)
      PROVE  UNCHANGED <<row, copy, written, Running>>
  BY <1>9 DEF SelectNone, Running, IInv, TypeOK
<1>10. \A r \in Requests, s \in Skills : InsertConflict(r, s) => Fail(r)
  BY DEF InsertConflict
<1>11. \A r \in Requests : DeadlockVictim(r) \/ LoseConnection(r) => Fail(r)
  BY DEF DeadlockVictim, LoseConnection
<1>12. UNCHANGED vars => UNCHANGED <<row, copy, written, Running>>
  BY DEF vars, request, Running
<1> QED
  BY <1>1, <1>2, <1>3, <1>4, <1>6, <1>7, <1>8, <1>9, <1>10, <1>11, <1>12 DEF Next, Update

\* If the client waits for each scoring request before it sends the next, a row's review date
\* is the one its own score and trend call for, though an UPDATE names only the columns that
\* changed (skill_graph.py, update_from_scoring_result).
THEOREM ReviewDates ==
    ASSUME Serial, \A n \in InitialNodes : n.days = NextReviewDays(n.score, n.trend)
    PROVE  Spec => []ReviewMatchesScore
<1>1. Init => ReviewInv
  BY DEF Init, ReviewInv, Alone, Running, ReviewMatchesScore
<1>2. IInv /\ ReviewInv /\ [Next]_vars => (IInv /\ ReviewInv)'
  BY NextInv, NextReview
<1>3. ReviewInv => ReviewMatchesScore
  BY DEF ReviewInv, Alone
<1> QED
  BY <1>1, <1>2, <1>3, InitInv, PTL DEF Spec

-----------------------------------------------------------------------------
(* Requests sent one after another keep each other's evidence *)

\* The list has n links of the request, or has been trimmed.
Kept(r, links, n) == Len(links) = EvidenceCap \/ Cardinality(LinksOf(r, links)) = n

LEMMA KeepLastLength ==
    ASSUME NEW S, NEW s \in Seq(S), NEW n \in Nat \ {0}
    PROVE  Len(KeepLast(s, n)) <= n
<1>1. CASE Len(s) <= n
  BY <1>1 DEF KeepLast
<1>2. CASE ~(Len(s) <= n)
  <2>1. KeepLast(s, n) = SubSeq(s, Len(s) - n + 1, Len(s)) /\ Len(s) \in Nat
    BY <1>2 DEF KeepLast
  <2> QED
    BY <1>2, <2>1
<1> QED
  BY <1>1, <1>2

\* A trimmed list is as long as the cap; one that is not has gained the link.
LEMMA LinkAdded ==
    ASSUME NEW S, NEW links \in Seq(S), NEW link \in S, Len(links) <= EvidenceCap,
           NEW new, new = KeepLast(Append(links, link), EvidenceCap),
           NEW q, NEW n \in Int, Kept(q, links, n)
    PROVE  Kept(q, new, IF link.req = q THEN n + 1 ELSE n)
<1> DEFINE longer == Append(links, link)
           was == LinksOf(q, links)
<1>1. /\ EvidenceCap \in Nat \ {0} /\ Len(links) \in Nat
      /\ longer \in Seq(S) /\ Len(longer) = Len(links) + 1
      /\ longer[Len(links) + 1] = link /\ \A i \in 1..Len(links) : longer[i] = links[i]
      /\ DOMAIN links = 1..Len(links) /\ DOMAIN longer = 1..(Len(links) + 1)
  BY SkillGraphAssumption
<1>2. was \subseteq 1..Len(links)
  BY <1>1 DEF LinksOf
<1>3. IsFiniteSet(was) /\ Len(links) + 1 \notin was
  <2>1. IsFiniteSet(1..Len(links))
    BY <1>1, FS_Interval
  <2> HIDE DEF was
  <2>2. IsFiniteSet(was)
    BY <1>2, <2>1, FS_Subset
  <2> QED
    BY <1>1, <1>2, <2>2
<1>4. /\ link.req = q => LinksOf(q, longer) = was \cup {Len(links) + 1}
      /\ link.req # q => LinksOf(q, longer) = was
  BY <1>1 DEF LinksOf
<1>5. Len(links) # EvidenceCap => Cardinality(was) = n
  BY DEF Kept
<1> HIDE DEF longer, was
<1>6. CASE Len(links) = EvidenceCap
  <2>1. new = SubSeq(longer, 2, EvidenceCap + 1)
    BY <1>1, <1>6 DEF KeepLast, longer
  <2>2. Len(new) = EvidenceCap
    BY <1>1, <1>6, <2>1
  <2> QED
    BY <1>1, <2>2 DEF Kept
<1>7. CASE Len(links) # EvidenceCap
  <2>1. new = longer
    <3>1. Len(longer) <= EvidenceCap
      <4>1. Len(links) \in Nat /\ EvidenceCap \in Nat /\ Len(longer) = Len(links) + 1
        BY <1>1
      <4> QED
        BY <1>7, <4>1
    <3> QED
      BY <3>1 DEF KeepLast, longer
  <2>2. Cardinality(was \cup {Len(links) + 1}) = n + 1
    BY <1>3, <1>5, <1>7, FS_AddElement
  <2>3. Cardinality(LinksOf(q, new)) = IF link.req = q THEN n + 1 ELSE n
    BY <1>4, <1>5, <1>7, <2>1, <2>2
  <2> QED
    BY <2>1, <2>3 DEF Kept
<1> QED
  BY <1>6, <1>7

\* What a signal does to the links of every request.
LEMMA AfterSignalLinks ==
    ASSUME NEW r \in Requests, NEW node \in Node, NEW res \in Results, NEW s \in Skills,
           Len(node.links) <= EvidenceCap
    PROVE  LET new == AfterSignal(r, node, res, s)
           IN  /\ Len(new.links) <= EvidenceCap
               /\ \A q, n : n \in Int /\ Kept(q, node.links, n) =>
                              Kept(q, new.links, IF r = q THEN n + 1 ELSE n)
<1> DEFINE Link == [req : Requests \cup {"earlier"}, score : Scores]
           score == AdjustedScore(Direction(res, s), node.score, res.overall)
           link == [req |-> r, score |-> score]
<1>1. node.links \in Seq(Link) /\ node.score \in Scores /\ res.overall \in Scores
  BY SkillGraphAssumption DEF Node, Result
<1>2. score \in Scores
  BY <1>1, AdjustedScoreRange
<1>3. AfterSignal(r, node, res, s).links = KeepLast(Append(node.links, link), EvidenceCap)
  BY DEF AfterSignal
<1> HIDE DEF score
<1>4. link \in Link /\ link.req = r
  BY <1>2
<1> HIDE DEF Link, link
<1>5. Append(node.links, link) \in Seq(Link)
  BY <1>1, <1>4
<1>6. Len(KeepLast(Append(node.links, link), EvidenceCap)) <= EvidenceCap
  BY <1>5, KeepLastLength, SkillGraphAssumption
<1>7. ASSUME NEW q, NEW n \in Int, Kept(q, node.links, n)
      PROVE  Kept(q, KeepLast(Append(node.links, link), EvidenceCap), IF r = q THEN n + 1 ELSE n)
  BY <1>1, <1>4, <1>7, LinkAdded
<1> QED
  BY <1>3, <1>6, <1>7

\* The segments of a request that skill s has had a signal of.
Applied(r, s) == IF s \in todo[r] THEN segs[r] - 1 ELSE segs[r]

\* Every node object of a primary skill has the links of the committed requests and, so far
\* as it has come, of its own.  What a request has changed is locked or about to be flushed.
KeptInv ==
    /\ Alone
    /\ \A s \in Skills : row[s] # NoNode => Len(row[s].links) <= EvidenceCap
    /\ \A r \in Requests, s \in Skills : copy[r][s] # NoNode =>
         Len(copy[r][s].links) <= EvidenceCap /\ (holder[s] = r \/ dirty[r] = s)
    /\ \A r \in Requests : /\ pc[r] = "idle" => segs[r] = 0
                           /\ pc[r] = "insert" => dirty[r] = NoNode
    /\ \A r \in Running, s \in ToSet(Primary) :
         IF copy[r][s] = NoNode THEN s \in todo[r] /\ segs[r] = 1
         ELSE Kept(r, copy[r][s].links, Applied(r, s))
    /\ \A q \in Requests, s \in ToSet(Primary) : pc[q] = "done" =>
         /\ row[s] # NoNode /\ Kept(q, row[s].links, segs[q])
         /\ \A r \in Running : copy[r][s] # NoNode => Kept(q, copy[r][s].links, segs[q])

LEMMA PrimarySkills == ToSet(Primary) \subseteq Skills
BY SkillGraphAssumption DEF ToSet

\* Applying a signal to the node that the transaction sees.
LEMMA ApplyKept ==
    ASSUME IInv, KeptInv, NEW r \in Running, NEW s \in todo[r], NEW node \in Node,
           Apply(r, s, node), UNCHANGED <<row, segs>>, dirty[r] = NoNode,
           holder' = holder \/ (holder[s] = NoNode /\ holder' = [holder EXCEPT ![s] = r]),
           pc' = [pc EXCEPT ![r] = "update"], Len(node.links) <= EvidenceCap,
           s \in ToSet(Primary) =>
               /\ Kept(r, node.links, segs[r] - 1)
               /\ \A q \in Requests : pc[q] = "done" => Kept(q, node.links, segs[q])
    PROVE  KeptInv'
<1> DEFINE new == AfterSignal(r, node, result[r], s)
<1>1. /\ r \in Requests /\ s \in Skills /\ result[r] \in Results
      /\ dirty' = [dirty EXCEPT ![r] = s] /\ copy' = [copy EXCEPT ![r][s] = new]
      /\ todo' = [todo EXCEPT ![r] = @ \ {s}]
  BY ApplyType DEF Running, Apply
<1>2. /\ Len(new.links) <= EvidenceCap
      /\ \A q, n : n \in Int /\ Kept(q, node.links, n) =>
                     Kept(q, new.links, IF r = q THEN n + 1 ELSE n)
  BY <1>1, AfterSignalLinks
<1>3. new # NoNode
  BY <1>1, AfterSignalType, SkillGraphAssumption
<1> HIDE DEF new
<1>4. /\ copy'[r][s] = new
      /\ \A q \in Requests, t \in Skills : q # r \/ t # s => copy'[q][t] = copy[q][t]
      /\ dirty'[r] = s /\ \A q \in Requests : q # r => dirty'[q] = dirty[q]
      /\ todo'[r] = todo[r] \ {s} /\ \A q \in Requests : q # r => todo'[q] = todo[q]
      /\ pc'[r] = "update" /\ \A q \in Requests : q # r => pc'[q] = pc[q]
  BY <1>1 DEF IInv, TypeOK
<1>5. Running' = Running /\ pc[r] # "done" /\ pc[r] # "idle"
  BY <1>1, <1>4 DEF Running
<1>6. \A q \in Running : q = r
  BY DEF KeptInv, Alone
<1>7. Alone'
  BY <1>4, <1>5 DEF KeptInv, Alone
<1>8. \A q \in Requests : segs[q] \in Int
  BY SkillGraphAssumption DEF IInv, TypeOK
<1>9. \A t \in Skills : row'[t] # NoNode => Len(row'[t].links) <= EvidenceCap
  BY DEF KeptInv
<1>10. ASSUME NEW q \in Requests, NEW t \in Skills, copy'[q][t] # NoNode
       PROVE  Len(copy'[q][t].links) <= EvidenceCap /\ (holder'[t] = q \/ dirty'[q] = t)
  <2>1. CASE q = r /\ t = s
    BY <1>2, <1>4, <2>1
  <2>2. CASE ~(q = r /\ t = s)
    <3>1. copy[q][t] # NoNode /\ copy'[q][t] = copy[q][t]
      BY <1>4, <1>10, <2>2
    <3>2. q = r /\ holder[t] = r
      <4>1. q = r
        BY <1>6, <3>1 DEF KeptInv, Alone
      <4>2. dirty[r] # t
        BY SkillGraphAssumption
      <4> QED
        BY <3>1, <4>1, <4>2 DEF KeptInv
    <3>3. holder'[t] = r
      BY <1>1, <2>2, <3>2 DEF IInv, TypeOK
    <3> QED
      BY <3>1, <3>2, <3>3 DEF KeptInv
  <2> QED
    BY <2>1, <2>2
<1>11. \A q \in Requests : /\ pc'[q] = "idle" => segs'[q] = 0
                          /\ pc'[q] = "insert" => dirty'[q] = NoNode
  BY <1>4 DEF KeptInv
<1>12. ASSUME NEW q \in Running', NEW t \in ToSet(Primary)
       PROVE  IF copy'[q][t] = NoNode THEN t \in todo'[q] /\ segs'[q] = 1
              ELSE Kept(q, copy'[q][t].links, IF t \in todo'[q] THEN segs'[q] - 1 ELSE segs'[q])
  <2>1. q = r /\ t \in Skills
    BY <1>5, <1>6, <1>12, PrimarySkills
  <2>2. CASE t = s
    <3>1. Kept(r, new.links, (segs[r] - 1) + 1) /\ t \notin todo'[r]
      BY <1>2, <1>1, <1>4, <1>8, <2>2
    <3>2. (segs[r] - 1) + 1 = segs[r]
      BY <1>1, <1>8
    <3> QED
      BY <1>3, <1>4, <2>1, <2>2, <3>1, <3>2
  <2>3. CASE t # s
    <3>1. copy'[q][t] = copy[q][t] /\ (t \in todo'[q] <=> t \in todo[q]) /\ segs'[q] = segs[q]
      BY <1>1, <1>4, <2>1, <2>3
    <3>2. IF copy[q][t] = NoNode THEN t \in todo[q] /\ segs[q] = 1
          ELSE Kept(q, copy[q][t].links, Applied(q, t))
      BY <1>12, <2>1 DEF KeptInv
    <3> QED
      BY <3>1, <3>2 DEF Applied
  <2> QED
    BY <2>2, <2>3
<1>13. ASSUME NEW q \in Requests, NEW t \in ToSet(Primary), pc'[q] = "done"
       PROVE  /\ row'[t] # NoNode /\ Kept(q, row'[t].links, segs'[q])
              /\ \A p \in Running' : copy'[p][t] # NoNode => Kept(q, copy'[p][t].links, segs'[q])
  <2>1. q # r /\ pc[q] = "done" /\ t \in Skills
    BY <1>4, <1>13, PrimarySkills
  <2>2. row'[t] # NoNode /\ Kept(q, row'[t].links, segs'[q])
    BY <2>1 DEF KeptInv
  <2>3. ASSUME NEW p \in Running', copy'[p][t] # NoNode
        PROVE  Kept(q, copy'[p][t].links, segs'[q])
    <3>1. p = r
      BY <1>5, <1>6, <2>3
    <3>2. CASE t = s
      <4>1. Kept(q, node.links, segs[q])
        BY <2>1, <3>2
      <4> QED
        BY <1>2, <1>4, <1>8, <2>1, <3>1, <3>2, <4>1
    <3>3. CASE t # s
      <4>1. copy'[r][t] = copy[r][t] /\ segs'[q] = segs[q]
        BY <1>1, <1>4, <2>1, <3>3
      <4>2. copy[r][t] # NoNode => Kept(q, copy[r][t].links, segs[q])
        BY <2>1 DEF KeptInv
      <4> QED
        BY <2>3, <3>1, <4>1, <4>2
    <3> QED
      BY <3>2, <3>3
  <2> QED
    BY <2>2, <2>3
<1>14. \A q, links, n : Kept(q, links, n)' <=> Kept(q, links, n)
  OBVIOUS
<1> QED
  BY <1>7, <1>9, <1>10, <1>11, <1>12, <1>13 DEF KeptInv, Applied

\* After a commit or a rollback nothing runs and no node object is left.
LEMMA EndKept ==
    ASSUME IInv, KeptInv, NEW r \in Running, NEW w \in {"done", "failed"}, UNCHANGED segs,
           EndTransaction(r), pc' = [pc EXCEPT ![r] = w],
           \A s \in Skills : row'[s] # NoNode => Len(row'[s].links) <= EvidenceCap,
           \A q \in Requests, s \in ToSet(Primary) : pc'[q] = "done" =>
               row'[s] # NoNode /\ Kept(q, row'[s].links, segs[q])
    PROVE  KeptInv'
<1>1. r \in Requests /\ copy' = [copy EXCEPT ![r] = [s \in Skills |-> NoNode]]
  BY DEF EndTransaction, Running
<1>2. \A q \in Requests, s \in Skills : copy'[q][s] = NoNode
  BY <1>1 DEF KeptInv, Alone, IInv, TypeOK
<1>3. Running' = {}
  BY <1>1 DEF Running, KeptInv, Alone, IInv, TypeOK
<1>4. \A q \in Requests : /\ pc'[q] = "idle" => segs'[q] = 0
                         /\ pc'[q] # "insert"
  <2>1. \A q \in Requests : pc'[q] = IF q = r THEN w ELSE pc[q]
    BY DEF IInv, TypeOK
  <2>2. \A q \in Requests : pc[q] = "insert" => q = r
    BY DEF KeptInv, Alone, Running
  <2> QED
    BY <2>1, <2>2 DEF KeptInv
<1>5. \A q, links, n : Kept(q, links, n)' <=> Kept(q, links, n)
  OBVIOUS
<1> QED
  BY <1>2, <1>3, <1>4, <1>5 DEF KeptInv, Alone

\* A segment starts: no skill of it has been applied.
LEMMA StartKept ==
    ASSUME Serial, IInv, KeptInv, NEW r \in Requests, StartSegment(r)
    PROVE  KeptInv'
<1>1. PICK res \in Results : todo' = [todo EXCEPT ![r] = SignalledSkills(res)]
  BY DEF StartSegment
<1>2. /\ UNCHANGED <<row, holder, copy, dirty>>
      /\ pc' = [pc EXCEPT ![r] = "update"] /\ segs' = [segs EXCEPT ![r] = @ + 1]
      /\ \/ pc[r] = "idle" /\ Running = {}
         \/ pc[r] = "update" /\ todo[r] = {}
  BY DEF StartSegment
<1>3. /\ pc'[r] = "update" /\ todo'[r] = SignalledSkills(res) /\ segs'[r] = segs[r] + 1
      /\ \A q \in Requests \ {r} : pc'[q] = pc[q] /\ todo'[q] = todo[q] /\ segs'[q] = segs[q]
      /\ segs[r] \in Nat
  BY <1>1, <1>2, SkillGraphAssumption DEF IInv, TypeOK
<1>4. Running' = {r}
  BY <1>2, <1>3 DEF Running, KeptInv, Alone
<1>5. Alone'
  <2>1. Running \subseteq {r}
    BY <1>2 DEF Running, KeptInv, Alone
  <2>2. \A q \in Requests \ {r}, s \in Skills : copy[q][s] = NoNode
    BY <2>1 DEF KeptInv, Alone
  <2> QED
    BY <1>2, <1>4, <2>2 DEF Alone
<1>6. ASSUME NEW s \in ToSet(Primary)
      PROVE  IF copy[r][s] = NoNode THEN s \in todo'[r] /\ segs'[r] = 1
             ELSE Kept(r, copy[r][s].links, IF s \in todo'[r] THEN segs'[r] - 1 ELSE segs'[r])
  <2>1. s \in todo'[r] /\ s \in Skills
    BY <1>3, PrimarySkills DEF SignalledSkills
  <2>2. CASE pc[r] = "idle"
    <3>1. copy[r][s] = NoNode /\ segs[r] = 0
      BY <2>1, <2>2 DEF KeptInv, Alone, Running
    <3> QED
      BY <1>3, <2>1, <3>1
  <2>3. CASE pc[r] = "update" /\ todo[r] = {}
    <3>1. copy[r][s] # NoNode /\ Kept(r, copy[r][s].links, segs[r])
      BY <2>3 DEF KeptInv, Running, Applied
    <3>2. segs'[r] - 1 = segs[r]
      BY <1>3
    <3> QED
      BY <2>1, <3>1, <3>2
  <2> QED
    BY <1>2, <2>2, <2>3
<1>7. \A q \in Requests : pc'[q] = "done" => pc[q] = "done" /\ segs'[q] = segs[q]
  BY <1>3
<1>8. ASSUME NEW q \in Requests, NEW s \in ToSet(Primary), pc'[q] = "done"
      PROVE  /\ row[s] # NoNode /\ Kept(q, row[s].links, segs'[q])
             /\ copy[r][s] # NoNode => Kept(q, copy[r][s].links, segs'[q])
  <2>1. copy[r][s] # NoNode => r \in Running
    BY PrimarySkills DEF KeptInv, Alone
  <2> QED
    BY <1>7, <1>8, <2>1 DEF KeptInv
<1>9. \A q \in Requests : pc'[q] = "idle" => segs'[q] = 0
  BY <1>3 DEF KeptInv
<1>10. \A q \in Requests : pc'[q] = "insert" => dirty'[q] = NoNode
  BY <1>2, <1>3 DEF KeptInv
<1>11. \A q, links, n : Kept(q, links, n)' <=> Kept(q, links, n)
  OBVIOUS
<1> QED
  BY <1>2, <1>4, <1>5, <1>6, <1>8, <1>9, <1>10, <1>11 DEF KeptInv, Applied

LEMMA FlushKept ==
    ASSUME IInv, KeptInv, NEW r \in Requests, Flush(r)
    PROVE  KeptInv'
<1>1. /\ UNCHANGED <<row, pc, todo, segs, copy>>
      /\ dirty[r] # NoNode /\ holder[dirty[r]] \in {NoNode, r}
      /\ holder' = [holder EXCEPT ![dirty[r]] = r] /\ dirty' = [dirty EXCEPT ![r] = NoNode]
  BY DEF Flush, MayLock, request
<1>2. ASSUME NEW q \in Requests, NEW s \in Skills, holder[s] = q \/ dirty[q] = s
      PROVE  holder'[s] = q \/ dirty'[q] = s
  BY <1>1, <1>2, SkillGraphAssumption DEF IInv, TypeOK
<1>3. \A q \in Requests : dirty[q] = NoNode => dirty'[q] = NoNode
  BY <1>1 DEF IInv, TypeOK
<1>4. Running' = Running /\ Alone'
  BY <1>1 DEF Running, KeptInv, Alone
<1>5. \A q, links, n : Kept(q, links, n)' <=> Kept(q, links, n)
  OBVIOUS
<1> QED
  BY <1>1, <1>2, <1>3, <1>4, <1>5 DEF KeptInv, Applied

\* The node a SELECT finds has the links of the committed requests and of its own.
LEMMA SelectKept ==
    ASSUME IInv, Provenance, KeptInv, NEW r \in Requests, NEW s \in Skills, Select(r, s)
    PROVE  KeptInv'
<1> DEFINE node == Seen(r, s)
<1>1. /\ r \in Running /\ s \in todo[r] /\ node \in Node /\ Apply(r, s, node)
      /\ pc[r] = "update" /\ dirty[r] = NoNode /\ UNCHANGED <<row, holder, pc, segs>>
  BY SeenType DEF Select, NextSkill, Running
<1>2. pc' = [pc EXCEPT ![r] = "update"]
  BY <1>1 DEF IInv, TypeOK
<1>3. CASE copy[r][s] # NoNode
  <2>1. node.links = copy[r][s].links
    BY <1>3 DEF Seen, CommittedRow, UpdatedRow
  <2>2. Len(node.links) <= EvidenceCap
    BY <1>3, <2>1 DEF KeptInv
  <2>3. s \in ToSet(Primary) => Kept(r, node.links, segs[r] - 1)
    BY <1>1, <1>3, <2>1 DEF KeptInv, Applied
  <2>4. s \in ToSet(Primary) =>
           \A q \in Requests : pc[q] = "done" => Kept(q, node.links, segs[q])
    BY <1>1, <1>3, <2>1 DEF KeptInv
  <2> HIDE DEF node
  <2> QED
    BY <1>1, <1>2, <2>2, <2>3, <2>4, ApplyKept
<1>4. CASE copy[r][s] = NoNode
  <2>1. node = row[s] /\ row[s] # NoNode
    BY <1>4 DEF Seen, Select
  <2>2. Len(node.links) <= EvidenceCap
    BY <2>1 DEF KeptInv
  <2>3. LinksOf(r, node.links) = {}
    <3>1. \A l \in ToSet(node.links) : l.req # r
      BY <1>1, <2>1, SkillGraphAssumption DEF Provenance, Settled
    <3> QED
      BY <3>1 DEF LinksOf, ToSet
  <2>4. s \in ToSet(Primary) => Kept(r, node.links, segs[r] - 1)
    <3>1. s \in ToSet(Primary) => segs[r] = 1
      BY <1>1, <1>4 DEF KeptInv
    <3> QED
      BY <2>3, <3>1, FS_EmptySet DEF Kept
  <2>5. s \in ToSet(Primary) =>
           \A q \in Requests : pc[q] = "done" => Kept(q, node.links, segs[q])
    BY <2>1 DEF KeptInv
  <2> HIDE DEF node
  <2> QED
    BY <1>1, <1>2, <2>2, <2>4, <2>5, ApplyKept
<1> QED
  BY <1>3, <1>4

LEMMA InsertKept ==
    ASSUME IInv, KeptInv, NEW r \in Requests, NEW s \in Skills, Insert(r, s)
    PROVE  KeptInv'
<1>1. /\ r \in Running /\ s \in todo[r] /\ NewNode \in Node /\ Apply(r, s, NewNode)
      /\ pc[r] = "insert" /\ pc' = [pc EXCEPT ![r] = "update"] /\ row[s] = NoNode
      /\ holder[s] = NoNode /\ holder' = [holder EXCEPT ![s] = r] /\ UNCHANGED <<row, segs>>
  BY NewNodeType DEF Insert, NextSkill, Running
<1>2. dirty[r] = NoNode
  BY <1>1 DEF KeptInv
<1>3. copy[r][s] = NoNode
  BY <1>1, <1>2, SkillGraphAssumption DEF KeptInv
<1>4. Len(NewNode.links) <= EvidenceCap /\ LinksOf(r, NewNode.links) = {}
  BY SkillGraphAssumption DEF NewNode, LinksOf
<1>5. s \in ToSet(Primary) => Kept(r, NewNode.links, segs[r] - 1)
  <2>1. s \in ToSet(Primary) => segs[r] = 1
    BY <1>1, <1>3 DEF KeptInv
  <2> QED
    BY <1>4, <2>1, FS_EmptySet DEF Kept
<1>6. s \in ToSet(Primary) => \A q \in Requests : pc[q] # "done"
  BY <1>1 DEF KeptInv
<1> QED
  BY <1>1, <1>2, <1>4, <1>5, <1>6, ApplyKept

LEMMA CommitKept ==
    ASSUME IInv, KeptInv, NEW r \in Requests, Commit(r)
    PROVE  KeptInv'
<1>1. /\ r \in Running /\ EndTransaction(r) /\ pc' = [pc EXCEPT ![r] = "done"]
      /\ row' = [s \in Skills |-> IF holder[s] = r THEN CommittedRow(r, s) ELSE row[s]]
      /\ todo[r] = {} /\ dirty[r] = NoNode /\ UNCHANGED segs
  BY DEF Commit, Running, EndTransaction
<1>2. ASSUME NEW s \in Skills, holder[s] = r
      PROVE  /\ copy[r][s] # NoNode /\ row'[s] # NoNode
             /\ row'[s].links = copy[r][s].links
  <2>1. copy[r][s] # NoNode
    BY <1>2 DEF IInv, Held
  <2>2. row'[s] = CommittedRow(r, s) /\ CommittedRow(r, s) \in Node
    BY <1>1, <1>2, <2>1, CommittedRowType
  <2>3. CommittedRow(r, s).links = copy[r][s].links
    BY DEF CommittedRow, UpdatedRow
  <2> QED
    BY <2>1, <2>2, <2>3, SkillGraphAssumption
<1>3. ASSUME NEW s \in Skills, row'[s] # NoNode
      PROVE  Len(row'[s].links) <= EvidenceCap
  BY <1>1, <1>2, <1>3 DEF KeptInv
<1>4. ASSUME NEW q \in Requests, NEW s \in ToSet(Primary), pc'[q] = "done"
      PROVE  row'[s] # NoNode /\ Kept(q, row'[s].links, segs[q])
  <2>1. s \in Skills
    BY PrimarySkills
  <2>2. copy[r][s] # NoNode /\ Kept(r, copy[r][s].links, segs[r])
    BY <1>1 DEF KeptInv, Applied
  <2>3. holder[s] = r
    BY <1>1, <2>1, <2>2, SkillGraphAssumption DEF KeptInv
  <2>4. q # r => pc[q] = "done"
    BY <1>1, <1>4 DEF IInv, TypeOK
  <2>5. Kept(q, copy[r][s].links, segs[q])
    BY <1>1, <2>2, <2>4 DEF KeptInv
  <2> QED
    BY <1>2, <2>1, <2>3, <2>5
<1> QED
  BY <1>1, <1>3, <1>4, EndKept

LEMMA FailKept ==
    ASSUME IInv, KeptInv, NEW r \in Requests, Fail(r)
    PROVE  KeptInv'
<1>1. /\ r \in Running /\ EndTransaction(r) /\ pc' = [pc EXCEPT ![r] = "failed"]
      /\ UNCHANGED <<row, segs>>
  BY DEF Fail, EndTransaction
<1>2. \A q \in Requests : pc'[q] = "done" => pc[q] = "done"
  BY <1>1 DEF IInv, TypeOK
<1> QED
  BY <1>1, <1>2, EndKept DEF KeptInv

\* If the client waits for each request, every step keeps KeptInv.
LEMMA NextKept ==
    ASSUME Serial, IInv, Provenance, KeptInv, [Next]_vars
    PROVE  KeptInv'
<1>1. ASSUME NEW r \in Requests, NEW s \in Skills, SelectNone(r, s) PROVE KeptInv'
  <2>1. /\ UNCHANGED <<row, holder, todo, segs, copy, dirty>> /\ pc[r] = "update"
        /\ pc' = [pc EXCEPT ![r] = "insert"] /\ dirty[r] = NoNode
    BY <1>1 DEF SelectNone
  <2>2. /\ pc'[r] = "insert" /\ \A q \in Requests \ {r} : pc'[q] = pc[q]
    BY <2>1 DEF IInv, TypeOK
  <2>3. Running' = Running
    BY <2>1, <2>2 DEF Running
  <2>4. Alone'
    BY <2>1, <2>3 DEF KeptInv, Alone
  <2>5. \A q \in Requests :
           /\ pc'[q] = "done" => pc[q] = "done"
           /\ pc'[q] = "idle" => pc[q] = "idle"
           /\ pc'[q] = "insert" => dirty[q] = NoNode
    BY <2>1, <2>2 DEF KeptInv
  <2>6. \A q, links, n : Kept(q, links, n)' <=> Kept(q, links, n)
    OBVIOUS
  <2> QED
    BY <2>1, <2>3, <2>4, <2>5, <2>6 DEF KeptInv, Applied
<1>2. CASE UNCHANGED vars
  <2>1. UNCHANGED <<row, holder, pc, todo, segs, copy, dirty>>
    BY <1>2 DEF vars, request
  <2>2. Running' = Running /\ Alone'
    BY <2>1 DEF Running, KeptInv, Alone
  <2>3. \A q, links, n : Kept(q, links, n)' <=> Kept(q, links, n)
    OBVIOUS
  <2> QED
    BY <2>1, <2>2, <2>3 DEF KeptInv, Applied
<1>3. \A r \in Requests, s \in Skills : InsertConflict(r, s) => Fail(r)
  BY DEF InsertConflict
<1>4. \A r \in Requests : DeadlockVictim(r) \/ LoseConnection(r) => Fail(r)
  BY DEF DeadlockVictim, LoseConnection
<1> QED
  BY <1>1, <1>2, <1>3, <1>4, StartKept, FlushKept, SelectKept, InsertKept, CommitKept, FailKept
  DEF Next, Update

\* If the client waits for each scoring request before it sends the next, a committed request
\* has left one evidence link per segment in every primary skill, until the list is trimmed:
\* no commit overwrites another's (skill_graph.py, evidence_links).
THEOREM EvidenceKept ==
    ASSUME Serial, \A n \in InitialNodes : Len(n.links) <= EvidenceCap
    PROVE  Spec => []EveryUpdateKept
<1>1. Init => KeptInv
  <2> SUFFICES ASSUME Init PROVE KeptInv
    OBVIOUS
  <2>1. Running = {} /\ \A q \in Requests : pc[q] = "idle" /\ segs[q] = 0
    BY DEF Init, Running
  <2>2. \A q \in Requests, s \in Skills : copy[q][s] = NoNode
    BY DEF Init
  <2>3. \A s \in Skills : row[s] # NoNode => row[s] \in InitialNodes
    BY DEF Init
  <2> QED
    BY <2>1, <2>2, <2>3 DEF KeptInv, Alone
<1>2. /\ Init => IInv /\ Provenance
      /\ IInv /\ Provenance /\ KeptInv /\ [Next]_vars => (IInv /\ Provenance /\ KeptInv)'
  BY InitInv, NextInv, InitProvenance, NextProvenance, NextKept
<1>3. KeptInv => EveryUpdateKept
  BY DEF KeptInv, Kept, EveryUpdateKept
<1> QED
  BY <1>1, <1>2, <1>3, PTL DEF Spec
=============================================================================
