----------------------------- MODULE FiguresProofs -----------------------------
(***************************************************************************)
(* Proofs about the figures shown to a user: the report of a delivery and  *)
(* the views of progress.  First what the sums and lists in them need,     *)
(* which is induction over finite sets: a set stands for the predicate,    *)
(* and SubsetInduction says that it holds every subset.                    *)
(***************************************************************************)
EXTENDS Delivery, Progress, FiniteSetTheorems, SequenceTheorems, WellFoundedInduction, TLAPS

-------------------------------------------------------------------------------
\* A set of natural numbers that is not empty has a least element.
LEMMA LeastNumber ==
    ASSUME NEW T \in SUBSET Nat, T # {}
    PROVE  \E n \in T : \A m \in T : n <= m
<1>1. PICK n \in T : \A m \in T : ~ (<<m, n>> \in OpToRel(<, Nat))
  BY NatLessThanWellFounded, WFMin
<1>2. ASSUME NEW m \in T PROVE n <= m
  <2>1. ~ (<<m, n>> \in OpToRel(<, Nat))
    BY <1>1
  <2>2. ~ (m < n)
    BY <2>1 DEF OpToRel
  <2> QED
    BY <2>2
<1> QED
  BY <1>2

\* Induction, for a set instead of a predicate.
LEMMA NatSetInduction ==
    ASSUME NEW S, 0 \in S, \A n \in Nat : n \in S => n + 1 \in S
    PROVE  Nat \subseteq S
<1> SUFFICES ASSUME Nat \ S # {} PROVE FALSE
  OBVIOUS
<1>1. PICK n \in Nat \ S : \A m \in Nat \ S : n <= m
  BY LeastNumber
<1>2. n # 0 /\ n - 1 \in Nat
  BY <1>1
<1>3. n - 1 \in S
  BY <1>1, <1>2
<1> QED
  BY <1>1, <1>2, <1>3

\* Induction over the subsets of a finite set, from the smaller to the larger.
LEMMA SubsetInduction ==
    ASSUME NEW S, IsFiniteSet(S), NEW W,
           \A t \in SUBSET S : (\A u \in SUBSET t : u # t => u \in W) => t \in W
    PROVE  SUBSET S \subseteq W
<1> DEFINE bad == {t \in SUBSET S : t \notin W}
           sizes == {Cardinality(t) : t \in bad}
<1> SUFFICES ASSUME bad # {} PROVE FALSE
  OBVIOUS
<1>1. \A t \in SUBSET S : IsFiniteSet(t) /\ Cardinality(t) \in Nat
  BY FS_Subset, FS_CardinalityType
<1>2. sizes \in SUBSET Nat /\ sizes # {}
  BY <1>1
<1>3. PICK n \in sizes : \A m \in sizes : n <= m
  BY <1>2, LeastNumber
<1>4. PICK t \in bad : n = Cardinality(t)
  BY <1>3
<1>5. ASSUME NEW u \in SUBSET t, u # t PROVE u \in W
  <2>1. Cardinality(u) <= Cardinality(t) /\ Cardinality(u) # Cardinality(t)
    BY <1>1, <1>4, <1>5, FS_Subset
  <2>2. Cardinality(u) \notin sizes
    <3>1. Cardinality(u) \in Nat /\ Cardinality(t) \in Nat
      BY <1>1, <1>4, <1>5
    <3>2. ~ (Cardinality(t) <= Cardinality(u))
      BY <2>1, <3>1
    <3> HIDE DEF sizes, bad
    <3> QED
      BY <1>3, <1>4, <3>2
  <2> QED
    BY <2>2
<1> QED
  BY <1>4, <1>5

-------------------------------------------------------------------------------
Choice(s) == CHOOSE x \in s : TRUE

\* The function that MapThenSumSet iterates.
Folds(f, S, g) ==
    g = [s \in SUBSET S |-> IF s = {} THEN 0 ELSE f[Choice(s)] + g[s \ {Choice(s)}]]

LEMMA ChoiceIn == ASSUME NEW s, s # {} PROVE Choice(s) \in s
BY DEF Choice

\* There is such a function.
LEMMA FoldExists ==
    ASSUME NEW S, IsFiniteSet(S), NEW f \in [S -> Int]
    PROVE  \E g \in [SUBSET S -> Int] : Folds(f, S, g)
<1> DEFINE Small(n) == {s \in SUBSET S : Cardinality(s) <= n}
           Part(n, g) == /\ g \in [Small(n) -> Int]
                         /\ \A s \in Small(n) :
                               g[s] = IF s = {} THEN 0 ELSE f[Choice(s)] + g[s \ {Choice(s)}]
           W == {n \in Nat : \E g : Part(n, g)}
<1>1. \A t \in SUBSET S : IsFiniteSet(t) /\ Cardinality(t) \in Nat
  BY FS_Subset, FS_CardinalityType
<1>2. \A t \in SUBSET S : t # {} => /\ Choice(t) \in t /\ t \ {Choice(t)} \in SUBSET S
                                    /\ Cardinality(t \ {Choice(t)}) = Cardinality(t) - 1
  BY <1>1, ChoiceIn, FS_RemoveElement
<1>3. 0 \in W
  <2> DEFINE g == [s \in Small(0) |-> 0]
  <2>1. \A s \in Small(0) : s = {}
    BY <1>1, FS_EmptySet
  <2>2. Part(0, g)
    BY <2>1
  <2> QED
    BY <2>2
<1>4. ASSUME NEW n \in Nat, n \in W PROVE n + 1 \in W
  <2>1. PICK g : Part(n, g)
    BY <1>4
  <2> DEFINE h == [s \in Small(n + 1) |->
                     IF s \in Small(n) THEN g[s] ELSE f[Choice(s)] + g[s \ {Choice(s)}]]
  <2>2. \A s \in Small(n + 1) : s # {} => /\ Choice(s) \in S /\ s \ {Choice(s)} \in Small(n)
                                          /\ s \ {Choice(s)} \in Small(n + 1)
    BY <1>1, <1>2
  <2>3. {} \in Small(n)
    BY FS_EmptySet
  <2>4. \A s \in Small(n) : g[s] \in Int
    BY <2>1
  <2>5. h \in [Small(n + 1) -> Int]
    <3>1. ASSUME NEW s \in Small(n + 1), s \notin Small(n)
          PROVE  f[Choice(s)] + g[s \ {Choice(s)}] \in Int
      <4>1. Choice(s) \in S /\ s \ {Choice(s)} \in Small(n)
        BY <2>2, <2>3, <3>1
      <4>2. f[Choice(s)] \in Int /\ g[s \ {Choice(s)}] \in Int
        BY <2>4, <4>1
      <4> QED
        BY <4>2
    <3> QED
      BY <2>4, <3>1
  <2>6. ASSUME NEW s \in Small(n + 1)
        PROVE  h[s] = IF s = {} THEN 0 ELSE f[Choice(s)] + h[s \ {Choice(s)}]
    <3>1. CASE s = {}
      BY <2>1, <2>3, <3>1
    <3>2. CASE s # {}
      <4>1. h[s \ {Choice(s)}] = g[s \ {Choice(s)}]
        BY <2>2, <3>2
      <4>2. h[s] = f[Choice(s)] + g[s \ {Choice(s)}]
        BY <2>1, <3>2
      <4> QED
        BY <3>2, <4>1, <4>2
    <3> QED
      BY <3>1, <3>2
  <2>7. Part(n + 1, h)
    <3> HIDE DEF h
    <3> QED
      BY <2>5, <2>6
  <2> HIDE DEF h, Part
  <2> QED
    BY <2>7
<1>5. Cardinality(S) \in W
  <2> HIDE DEF W
  <2>1. Nat \subseteq W
    BY <1>3, <1>4, NatSetInduction
  <2> QED
    BY <1>1, <2>1
<1>6. PICK g : Part(Cardinality(S), g)
  BY <1>5
<1>7. Small(Cardinality(S)) = SUBSET S
  BY FS_Subset, <1>1
<1>8. g \in [SUBSET S -> Int]
  BY <1>6, <1>7
<1>9. Folds(f, S, g)
  BY <1>6, <1>7, <1>8 DEF Folds
<1> QED
  BY <1>8, <1>9

\* What such a function does.
Adds(f, S, g) ==
    /\ g \in [SUBSET S -> Int] /\ g[{}] = 0
    /\ \A t \in SUBSET S : \A y \in S \ t : g[t \cup {y}] = f[y] + g[t]

\* It sums: whatever order CHOOSE takes the elements in.
LEMMA FoldAdds ==
    ASSUME NEW S, IsFiniteSet(S), NEW f \in [S -> Int], NEW g, Folds(f, S, g)
    PROVE  Adds(f, S, g)
<1>1. \A t \in SUBSET S : g[t] = IF t = {} THEN 0 ELSE f[Choice(t)] + g[t \ {Choice(t)}]
  BY DEF Folds
<1>2. g[{}] = 0
  BY <1>1
<1> DEFINE W == {t \in SUBSET S : g[t] \in Int}
<1>3. ASSUME NEW t \in SUBSET S, \A u \in SUBSET t : u # t => u \in W PROVE t \in W
  <2>1. CASE t = {}
    BY <1>2, <2>1
  <2>2. CASE t # {}
    <3>1. Choice(t) \in t /\ t \ {Choice(t)} \in SUBSET t /\ t \ {Choice(t)} # t
      BY <2>2, ChoiceIn
    <3>2. f[Choice(t)] \in Int /\ g[t \ {Choice(t)}] \in Int
      BY <1>3, <3>1
    <3>3. g[t] = f[Choice(t)] + g[t \ {Choice(t)}]
      BY <1>1, <2>2
    <3>4. g[t] \in Int
      BY <3>2, <3>3
    <3> QED
      BY <3>4
  <2> QED
    BY <2>1, <2>2
<1>4. \A t \in SUBSET S : g[t] \in Int
  <2>1. SUBSET S \subseteq W
    <3> HIDE DEF W
    <3> QED
      BY <1>3, SubsetInduction
  <2> QED
    BY <2>1
<1>5. g \in [SUBSET S -> Int]
  BY <1>4 DEF Folds
<1> DEFINE V == {t \in SUBSET S : \A y \in S \ t : g[t \cup {y}] = f[y] + g[t]}
<1>6. ASSUME NEW t \in SUBSET S, \A u \in SUBSET t : u # t => u \in V PROVE t \in V
  <2> SUFFICES ASSUME NEW y \in S \ t PROVE g[t \cup {y}] = f[y] + g[t]
    OBVIOUS
  <2> DEFINE x == Choice(t \cup {y})
             rest == t \ {x}
  <2>1. x \in t \cup {y}
    BY ChoiceIn
  <2>2. g[t \cup {y}] = f[x] + g[(t \cup {y}) \ {x}]
    BY <1>1
  <2>3. CASE x = y
    <3>1. (t \cup {y}) \ {x} = t
      BY <2>3
    <3> QED
      BY <2>2, <2>3, <3>1
  <2>4. CASE x # y
    <3> HIDE DEF x
    <3>1. x \in t /\ (t \cup {y}) \ {x} = rest \cup {y} /\ rest \cup {x} = t
      BY <2>1, <2>4
    <3>2. rest \in SUBSET t /\ rest # t /\ rest \in V
      BY <1>6, <3>1
    <3>3. g[rest \cup {y}] = f[y] + g[rest]
      BY <3>2
    <3>4. g[rest \cup {x}] = f[x] + g[rest]
      BY <3>1, <3>2
    <3>5. f[x] \in Int /\ f[y] \in Int /\ g[rest] \in Int
      BY <1>4, <3>1, <3>2
    <3>6. /\ g[t \cup {y}] = f[x] + g[rest \cup {y}]
          /\ g[t] = f[x] + g[rest]
      BY <2>2, <3>1, <3>4
    <3> QED
      BY <3>3, <3>5, <3>6
  <2> QED
    BY <2>3, <2>4
<1>7. SUBSET S \subseteq V
  <2> HIDE DEF V
  <2> QED
    BY <1>6, SubsetInduction
<1> QED
  BY <1>2, <1>5, <1>7 DEF Adds

\* A total is what such a function says of the whole set.
LEMMA TotalFolds ==
    ASSUME NEW S, IsFiniteSet(S), NEW f \in [S -> Int]
    PROVE  \E g : Folds(f, S, g) /\ Total(f) = g[S]
<1>1. \E g : Folds(f, S, g)
  BY FoldExists
<1> DEFINE it == CHOOSE g : Folds(f, S, g)
<1>2. Folds(f, S, it)
  BY <1>1
<1>3. Total(f) = it[S]
  BY DEF Total, MapThenSumSet, MapThenFoldSet, Folds, Choice
<1> QED
  BY <1>2, <1>3
\* Two foldings agree on what the functions agree on.
LEMMA FoldsAgree ==
    ASSUME NEW S, IsFiniteSet(S), NEW f \in [S -> Int], NEW g, Folds(f, S, g),
           NEW R \in SUBSET S, NEW e \in [R -> Int], NEW h, Folds(e, R, h),
           \A x \in R : e[x] = f[x]
    PROVE  g[R] = h[R]
<1> DEFINE W == {t \in SUBSET R : g[t] = h[t]}
<1>1. IsFiniteSet(R)
  BY FS_Subset
<1>2. ASSUME NEW t \in SUBSET R, \A u \in SUBSET t : u # t => u \in W PROVE t \in W
  <2>1. /\ g[t] = IF t = {} THEN 0 ELSE f[Choice(t)] + g[t \ {Choice(t)}]
        /\ h[t] = IF t = {} THEN 0 ELSE e[Choice(t)] + h[t \ {Choice(t)}]
    BY DEF Folds
  <2>2. ASSUME t # {} PROVE g[t] = h[t]
    <3>1. Choice(t) \in t /\ t \ {Choice(t)} \in SUBSET t /\ t \ {Choice(t)} # t
      BY <2>2, ChoiceIn
    <3>2. g[t \ {Choice(t)}] = h[t \ {Choice(t)}] /\ e[Choice(t)] = f[Choice(t)]
      BY <1>2, <3>1
    <3> QED
      BY <2>1, <2>2, <3>2
  <2> QED
    BY <2>1, <2>2
<1>3. SUBSET R \subseteq W
  <2> HIDE DEF W
  <2> QED
    BY <1>1, <1>2, SubsetInduction
<1> QED
  BY <1>3

Without(f, y) == [x \in DOMAIN f \ {y} |-> f[x]]
SplitsAt(f, y) == Total(f) = Total(Without(f, y)) + f[y]

\* A total is one value and the total of the others.
LEMMA TotalSplit ==
    ASSUME NEW S, IsFiniteSet(S), NEW f \in [S -> Int]
    PROVE  /\ Total(f) \in Int
           /\ S = {} => Total(f) = 0
           /\ \A y \in S : Without(f, y) \in [S \ {y} -> Int] /\ SplitsAt(f, y)
<1>1. PICK g : Folds(f, S, g) /\ Total(f) = g[S]
  BY TotalFolds
<1>2. /\ g \in [SUBSET S -> Int] /\ g[{}] = 0
      /\ \A t \in SUBSET S : \A y \in S \ t : g[t \cup {y}] = f[y] + g[t]
  <2>1. Folds(f, S, g)
    BY <1>1
  <2>2. Adds(f, S, g)
    BY <2>1, FoldAdds
  <2> QED
    BY <2>2 DEF Adds
<1>3. ASSUME NEW y \in S
      PROVE  Without(f, y) \in [S \ {y} -> Int] /\ SplitsAt(f, y)
  <2>1. Without(f, y) \in [S \ {y} -> Int] /\ \A x \in S \ {y} : Without(f, y)[x] = f[x]
    BY DEF Without
  <2>2. IsFiniteSet(S \ {y}) /\ S \ {y} \in SUBSET S
    BY FS_Subset
  <2>3. PICK h : Folds(Without(f, y), S \ {y}, h) /\ Total(Without(f, y)) = h[S \ {y}]
    BY <2>1, <2>2, TotalFolds
  <2>4. g[S \ {y}] = h[S \ {y}]
    BY <1>1, <2>1, <2>2, <2>3, FoldsAgree
  <2>5. g[S] = f[y] + g[S \ {y}]
    <3>1. (S \ {y}) \cup {y} = S /\ y \in S \ (S \ {y})
      OBVIOUS
    <3>2. g[(S \ {y}) \cup {y}] = f[y] + g[S \ {y}]
      BY <1>2, <2>2, <3>1
    <3> QED
      BY <3>1, <3>2
  <2>6. g[S \ {y}] \in Int /\ f[y] \in Int
    BY <1>2
  <2> QED
    BY <1>1, <2>1, <2>3, <2>4, <2>5, <2>6 DEF SplitsAt
<1>4. Total(f) \in Int
  BY <1>1, <1>2
<1> QED
  BY <1>1, <1>2, <1>3, <1>4

\* Larger values, larger total; and so with values that are not negative left out.
LEMMA TotalGrows ==
    ASSUME NEW S, IsFiniteSet(S), NEW R \in SUBSET S, NEW e \in [R -> Int], NEW f \in [S -> Int],
           \A x \in R : e[x] <= f[x], \A x \in S \ R : 0 <= f[x]
    PROVE  Total(e) <= Total(f)
<1> DEFINE On(h, t) == [x \in t |-> h[x]]
           W == {t \in SUBSET S : Total(On(e, R \cap t)) <= Total(On(f, t))}
<1>0. IsFiniteSet(R) /\ \A t \in SUBSET S : IsFiniteSet(t) /\ IsFiniteSet(R \cap t)
  BY FS_Subset
<1>1. ASSUME NEW t \in SUBSET S, \A u \in SUBSET t : u # t => u \in W PROVE t \in W
  <2>1. On(f, t) \in [t -> Int] /\ On(e, R \cap t) \in [R \cap t -> Int]
    OBVIOUS
  <2>2. Total(On(f, t)) \in Int /\ Total(On(e, R \cap t)) \in Int
    <3> HIDE DEF On
    <3> QED
      BY <1>0, <2>1, TotalSplit
  <2>3. CASE t = {}
    <3>1. R \cap t = {}
      BY <2>3
    <3>2. Total(On(f, t)) = 0 /\ Total(On(e, R \cap t)) = 0
      <4> HIDE DEF On
      <4> QED
        BY <1>0, <2>1, <2>3, <3>1, TotalSplit
    <3> QED
      BY <3>2
  <2>4. CASE t # {}
    <3>1. PICK y \in t : TRUE
      BY <2>4
    <3> DEFINE u == t \ {y}
    <3>2. /\ Without(On(f, t), y) = On(f, u)
          /\ y \in R => Without(On(e, R \cap t), y) = On(e, R \cap u)
          /\ y \notin R => R \cap t = R \cap u
      BY DEF Without
    <3>3. u \in W
      BY <1>1, <3>1
    <3>4. Total(On(f, t)) = Total(On(f, u)) + f[y]
      <4>1. SplitsAt(On(f, t), y)
        <5> HIDE DEF On
        <5> QED
          BY <1>0, <2>1, <3>1, TotalSplit
      <4> QED
        BY <3>2, <4>1 DEF SplitsAt
    <3>5. y \in R => Total(On(e, R \cap t)) = Total(On(e, R \cap u)) + e[y]
      <4> SUFFICES ASSUME y \in R PROVE Total(On(e, R \cap t)) = Total(On(e, R \cap u)) + e[y]
        OBVIOUS
      <4>1. y \in R \cap t
        BY <3>1
      <4>2. SplitsAt(On(e, R \cap t), y)
        <5> HIDE DEF On
        <5> QED
          BY <1>0, <2>1, <4>1, TotalSplit
      <4> QED
        BY <3>2, <4>1, <4>2 DEF SplitsAt
    <3>6. Total(On(f, u)) \in Int /\ Total(On(e, R \cap u)) \in Int
      <4>1. u \in SUBSET S /\ On(f, u) \in [u -> Int] /\ On(e, R \cap u) \in [R \cap u -> Int]
        OBVIOUS
      <4> HIDE DEF On, u
      <4> QED
        BY <1>0, <4>1, TotalSplit
    <3>7. /\ Total(On(e, R \cap u)) <= Total(On(f, u))
          /\ f[y] \in Int /\ (y \in R => e[y] \in Int /\ e[y] <= f[y]) /\ (y \notin R => 0 <= f[y])
      BY <3>3
    <3>8. y \notin R => Total(On(e, R \cap t)) = Total(On(e, R \cap u))
      BY <3>2
    <3> HIDE DEF On, u
    <3>9. Total(On(e, R \cap t)) <= Total(On(f, t))
      BY <3>4, <3>5, <3>6, <3>7, <3>8
    <3> QED
      BY <3>9
  <2> QED
    BY <2>3, <2>4
<1>2. S \in W
  <2> HIDE DEF W
  <2> QED
    BY <1>1, SubsetInduction
<1>3. On(f, S) = f /\ On(e, R \cap S) = e
  OBVIOUS
<1> QED
  BY <1>2, <1>3

-------------------------------------------------------------------------------
(* Delivery: times that only grow *)

\* A sum over 1..n is the sum over 1..n-1 and the last value.
LEMMA SumStep ==
    ASSUME NEW n \in Nat, NEW f \in [1..n -> Nat]
    PROVE  /\ SumOver(f) \in Nat
           /\ n = 0 => SumOver(f) = 0
           /\ n > 0 => SumOver(f) = SumOver([i \in 1..(n - 1) |-> f[i]]) + f[n]
<1>1. \A h : SumOver(h) = Total(h)
  BY DEF SumOver, Total
<1>2. IsFiniteSet(1..n) /\ f \in [1..n -> Int]
  BY FS_Interval
<1>3. Total(f) \in Int /\ (1..n = {} => Total(f) = 0)
  BY <1>2, TotalSplit
<1>4. Total(f) >= 0
  <2>1. PICK e : e \in [{} -> Int]
    <3>1. [x \in {} |-> 0] \in [{} -> Int]
      OBVIOUS
    <3> QED
      BY <3>1
  <2>2. {} \in SUBSET (1..n) /\ IsFiniteSet({})
    BY FS_EmptySet
  <2>3. Total(e) = 0
    BY <2>1, <2>2, TotalSplit
  <2>4. /\ \A x \in {} : e[x] <= f[x]
        /\ \A x \in (1..n) \ {} : 0 <= f[x]
    OBVIOUS
  <2>5. Total(e) <= Total(f)
    BY <1>2, <2>1, <2>2, <2>4, TotalGrows
  <2> QED
    BY <1>3, <2>3, <2>5
<1>5. ASSUME n > 0 PROVE Total(f) = Total([i \in 1..(n - 1) |-> f[i]]) + f[n]
  <2>1. n \in 1..n /\ (1..n) \ {n} = 1..(n - 1)
    BY <1>5
  <2>2. Without(f, n) = [i \in 1..(n - 1) |-> f[i]]
    BY <2>1 DEF Without
  <2>3. SplitsAt(f, n)
    BY <1>2, <2>1, TotalSplit
  <2> QED
    BY <2>2, <2>3 DEF SplitsAt
<1> QED
  BY <1>1, <1>3, <1>4, <1>5

PauseSum(s, i) == SumOver([j \in 1..i |-> s[j].pause])
LengthSum(s, i) == SumOver([j \in 1..i |-> s[j].length])

LEMMA SumsOfSpeech ==
    ASSUME NEW s \in Seq(Phrase), NEW i \in 0..Len(s)
    PROVE  /\ PauseSum(s, i) \in Nat /\ LengthSum(s, i) \in Nat
           /\ i > 0 => /\ s[i] \in Phrase
                       /\ PauseSum(s, i) = PauseSum(s, i - 1) + s[i].pause
                       /\ LengthSum(s, i) = LengthSum(s, i - 1) + s[i].length
<1>1. Len(s) \in Nat /\ i \in Nat /\ \A j \in 1..i : s[j] \in Phrase
  BY LenProperties, ElementOfSeq
<1>2. \A j \in 1..i : s[j].pause \in Nat /\ s[j].length \in Nat
  BY <1>1, DeliveryAssumption DEF Phrase
<1> DEFINE p == [j \in 1..i |-> s[j].pause]
           l == [j \in 1..i |-> s[j].length]
<1>3. p \in [1..i -> Nat] /\ l \in [1..i -> Nat]
  BY <1>2
<1>4. ASSUME i > 0
      PROVE  /\ [j \in 1..(i - 1) |-> p[j]] = [j \in 1..(i - 1) |-> s[j].pause]
             /\ [j \in 1..(i - 1) |-> l[j]] = [j \in 1..(i - 1) |-> s[j].length]
             /\ p[i] = s[i].pause /\ l[i] = s[i].length
  BY <1>1, <1>4
<1> HIDE DEF p, l
<1>5. /\ SumOver(p) \in Nat /\ (i > 0 => SumOver(p) = SumOver([j \in 1..(i - 1) |-> p[j]]) + p[i])
      /\ SumOver(l) \in Nat /\ (i > 0 => SumOver(l) = SumOver([j \in 1..(i - 1) |-> l[j]]) + l[i])
  BY <1>1, <1>3, SumStep
<1>6. /\ PauseSum(s, i) = SumOver(p) /\ LengthSum(s, i) = SumOver(l)
      /\ PauseSum(s, i - 1) = SumOver([j \in 1..(i - 1) |-> s[j].pause])
      /\ LengthSum(s, i - 1) = SumOver([j \in 1..(i - 1) |-> s[j].length])
  BY DEF p, l, PauseSum, LengthSum
<1>7. i > 0 => i \in 1..i /\ s[i] \in Phrase
  BY <1>1
<1> QED
  BY <1>4, <1>5, <1>6, <1>7

\* A phrase takes some time, and the next one starts when it is over.
LEMMA PhrasesInTime ==
    ASSUME NEW s \in Seq(Phrase), NEW i \in DOMAIN s
    PROVE  /\ StartOf(s, i) \in Nat /\ EndOf(s, i) \in Nat /\ StartOf(s, i) < EndOf(s, i)
           /\ i + 1 \in DOMAIN s => EndOf(s, i) <= StartOf(s, i + 1)
<1>1. Len(s) \in Nat /\ DOMAIN s = 1..Len(s) /\ i \in 1..Len(s)
  BY LenProperties
<1>2. \A k \in Int : StartOf(s, k) = PauseSum(s, k) + LengthSum(s, k - 1)
  BY DEF StartOf, PauseSum, LengthSum
<1>3. /\ s[i].length \in Nat \ {0}
      /\ PauseSum(s, i) \in Nat /\ LengthSum(s, i) \in Nat
      /\ LengthSum(s, i) = LengthSum(s, i - 1) + s[i].length
  <2>1. i \in 0..Len(s) /\ i > 0
    BY <1>1
  <2>2. /\ s[i] \in Phrase /\ PauseSum(s, i) \in Nat /\ LengthSum(s, i) \in Nat
        /\ LengthSum(s, i) = LengthSum(s, i - 1) + s[i].length
    BY <2>1, SumsOfSpeech
  <2>3. s[i].length \in Nat \ {0}
    BY <2>2, DeliveryAssumption DEF Phrase
  <2> QED
    BY <2>2, <2>3
<1>4. LengthSum(s, i - 1) \in Nat
  BY <1>1, SumsOfSpeech
<1>5. EndOf(s, i) = StartOf(s, i) + s[i].length /\ StartOf(s, i) = PauseSum(s, i) + LengthSum(s, i - 1)
  BY <1>1, <1>2 DEF EndOf
<1>6. ASSUME i + 1 \in DOMAIN s PROVE EndOf(s, i) <= StartOf(s, i + 1)
  <2>1. s[i + 1] \in Phrase /\ PauseSum(s, i + 1) = PauseSum(s, i) + s[i + 1].pause
    <3>1. i + 1 \in 0..Len(s) /\ i + 1 > 0 /\ (i + 1) - 1 = i
      BY <1>1, <1>6
    <3> QED
      BY <3>1, SumsOfSpeech
  <2>2. s[i + 1].pause \in Nat
    BY <2>1, DeliveryAssumption DEF Phrase
  <2>3. StartOf(s, i + 1) = PauseSum(s, i + 1) + LengthSum(s, i)
    BY <1>1, <1>2
  <2> QED
    BY <1>3, <1>4, <1>5, <2>1, <2>2, <2>3
<1>7. StartOf(s, i) \in Nat /\ EndOf(s, i) \in Nat /\ StartOf(s, i) < EndOf(s, i)
  BY <1>3, <1>4, <1>5
<1> QED
  BY <1>6, <1>7

\* And so for any two phrases.
LEMMA TimeGrows ==
    ASSUME NEW s \in Seq(Phrase), NEW i \in DOMAIN s, NEW j \in DOMAIN s, i < j
    PROVE  EndOf(s, i) <= StartOf(s, j)
<1>1. Len(s) \in Nat /\ DOMAIN s = 1..Len(s) /\ i \in Nat /\ j \in Nat /\ j - i - 1 \in Nat
  BY LenProperties
<1> DEFINE W == {k \in Nat : i + k + 1 \in DOMAIN s => EndOf(s, i) <= StartOf(s, i + k + 1)}
<1>2. 0 \in W
  BY <1>1, PhrasesInTime
<1>3. ASSUME NEW k \in Nat, k \in W PROVE k + 1 \in W
  <2> SUFFICES ASSUME i + (k + 1) + 1 \in DOMAIN s
               PROVE  EndOf(s, i) <= StartOf(s, i + (k + 1) + 1)
    OBVIOUS
  <2> DEFINE m == i + k + 1
  <2>1. m \in DOMAIN s /\ m + 1 \in DOMAIN s /\ m + 1 = i + (k + 1) + 1
    BY <1>1
  <2>2. EndOf(s, i) <= StartOf(s, m)
    BY <1>3, <2>1
  <2> HIDE DEF m
  <2>3. /\ EndOf(s, i) \in Nat /\ StartOf(s, m) \in Nat /\ EndOf(s, m) \in Nat
        /\ StartOf(s, m) < EndOf(s, m) /\ EndOf(s, m) <= StartOf(s, m + 1)
        /\ StartOf(s, m + 1) \in Nat
    BY <2>1, PhrasesInTime
  <2> QED
    BY <2>1, <2>2, <2>3
<1>4. j - i - 1 \in W
  <2> HIDE DEF W
  <2> QED
    BY <1>1, <1>2, <1>3, NatSetInduction
<1>5. i + (j - i - 1) + 1 = j
  BY <1>1
<1> QED
  BY <1>4, <1>5

Between(s, i, j) == [start |-> EndOf(s, i), end |-> StartOf(s, j)]
Silent(s, g) ==
    /\ g.end - g.start >= 1500
    /\ ~ \E i \in DOMAIN s : StartOf(s, i) <= g.start /\ g.start < EndOf(s, i)
    /\ \A i \in DOMAIN s : ~ (StartOf(s, i) \in g.start..(g.end - 1))

\* Between the end of one phrase and the start of another it is silent for 1.5 seconds, and nobody
\* starts to speak, exactly when the phrases follow each other and the gap is that long.
LEMMA SilentGap ==
    ASSUME NEW s \in Seq(Phrase), NEW i \in DOMAIN s, NEW j \in DOMAIN s
    PROVE  Silent(s, Between(s, i, j)) <=> j = i + 1 /\ StartOf(s, j) - EndOf(s, i) >= 1500
<1>1. DOMAIN s = 1..Len(s) /\ Len(s) \in Nat /\ i \in Nat /\ j \in Nat
  BY LenProperties
<1>2. \A k \in DOMAIN s : /\ StartOf(s, k) \in Nat /\ EndOf(s, k) \in Nat
                          /\ StartOf(s, k) < EndOf(s, k)
  BY PhrasesInTime
<1>3. \A k, m \in DOMAIN s : k < m => EndOf(s, k) <= StartOf(s, m)
  BY TimeGrows
<1>4. Between(s, i, j).start = EndOf(s, i) /\ Between(s, i, j).end = StartOf(s, j)
  BY DEF Between
<1>5. ASSUME Silent(s, Between(s, i, j)) PROVE j = i + 1
  <2>1. /\ StartOf(s, j) - EndOf(s, i) >= 1500
        /\ \A k \in DOMAIN s : ~ (EndOf(s, i) <= StartOf(s, k) /\ StartOf(s, k) <= StartOf(s, j) - 1)
    BY <1>2, <1>4, <1>5 DEF Silent
  <2>2. i < j
    <3>1. j < i => EndOf(s, j) <= StartOf(s, i)
      BY <1>3
    <3>2. j = i \/ j < i \/ i < j
      BY <1>1
    <3> QED
      BY <1>2, <2>1, <3>1, <3>2
  <2>3. ASSUME i + 1 < j PROVE FALSE
    <3>1. i + 1 \in DOMAIN s /\ i < i + 1
      BY <1>1, <2>3
    <3>2. EndOf(s, i) <= StartOf(s, i + 1) /\ EndOf(s, i + 1) <= StartOf(s, j)
      BY <1>3, <2>3, <3>1
    <3>3. StartOf(s, i + 1) <= StartOf(s, j) - 1
      BY <1>2, <3>1, <3>2
    <3> QED
      BY <2>1, <3>1, <3>2, <3>3
  <2> QED
    BY <1>1, <2>2, <2>3
<1>6. ASSUME j = i + 1, StartOf(s, j) - EndOf(s, i) >= 1500 PROVE Silent(s, Between(s, i, j))
  <2>1. ASSUME NEW k \in DOMAIN s
        PROVE  \/ k <= i /\ EndOf(s, k) <= EndOf(s, i) /\ StartOf(s, k) < EndOf(s, i)
               \/ StartOf(s, j) <= StartOf(s, k)
    <3>1. k < i \/ k = i \/ k = j \/ j < k
      BY <1>1, <1>6
    <3>2. k < i => EndOf(s, k) <= StartOf(s, i)
      BY <1>3
    <3>3. j < k => EndOf(s, j) <= StartOf(s, k)
      BY <1>3
    <3> QED
      BY <1>1, <1>2, <3>1, <3>2, <3>3
  <2>2. StartOf(s, j) - EndOf(s, i) >= 1500 /\ StartOf(s, j) \in Nat /\ EndOf(s, i) \in Nat
    BY <1>2, <1>6
  <2>3. ASSUME NEW k \in DOMAIN s
        PROVE  /\ ~ (StartOf(s, k) <= EndOf(s, i) /\ EndOf(s, i) < EndOf(s, k))
               /\ ~ (StartOf(s, k) \in EndOf(s, i)..(StartOf(s, j) - 1))
    BY <1>2, <2>1, <2>2
  <2> QED
    BY <1>4, <2>2, <2>3 DEF Silent
<1>7. Silent(s, Between(s, i, j)) => StartOf(s, j) - EndOf(s, i) >= 1500
  BY <1>4 DEF Silent
<1> QED
  BY <1>5, <1>6, <1>7

\* The gaps of the report are those silences.
LEMMA GapsFound ==
    ASSUME NEW s \in Seq(Phrase)
    PROVE  WordGaps(s) = {g \in {Between(s, i, j) : i, j \in DOMAIN s} : Silent(s, g)}
<1>1. DOMAIN s = 1..Len(s) /\ Len(s) \in Nat
  BY LenProperties
<1>2. WordGaps(s) = {Between(s, i - 1, i) : i \in {k \in 2..Len(s) : StartOf(s, k) - EndOf(s, k - 1) >= 1500}}
  BY DEF WordGaps, Between
<1>3. ASSUME NEW g \in WordGaps(s)
      PROVE  g \in {Between(s, i, j) : i, j \in DOMAIN s} /\ Silent(s, g)
  <2>1. PICK k \in 2..Len(s) : StartOf(s, k) - EndOf(s, k - 1) >= 1500 /\ g = Between(s, k - 1, k)
    BY <1>2
  <2>2. k - 1 \in DOMAIN s /\ k \in DOMAIN s /\ k = (k - 1) + 1
    BY <1>1
  <2> QED
    BY <2>1, <2>2, SilentGap
<1>4. ASSUME NEW i \in DOMAIN s, NEW j \in DOMAIN s, Silent(s, Between(s, i, j))
      PROVE  Between(s, i, j) \in WordGaps(s)
  <2>1. j = i + 1 /\ StartOf(s, j) - EndOf(s, i) >= 1500
    BY <1>4, SilentGap
  <2>2. j \in 2..Len(s) /\ j - 1 = i
    BY <1>1, <2>1
  <2> QED
    BY <1>2, <2>1, <2>2
<1> QED
  BY <1>3, <1>4

-------------------------------------------------------------------------------
(* Delivery: the score *)

LEMMA LeastAndMost ==
    ASSUME NEW a \in Int, NEW b \in Int
    PROVE  /\ Min({a, b}) = IF a <= b THEN a ELSE b
           /\ Max({a, b}) = IF a <= b THEN b ELSE a
<1>1. \E x \in {a, b} : \A y \in {a, b} : x <= y
  OBVIOUS
<1>2. \E x \in {a, b} : \A y \in {a, b} : x >= y
  OBVIOUS
<1>3. Min({a, b}) \in {a, b} /\ \A y \in {a, b} : Min({a, b}) <= y
  BY <1>1 DEF Min
<1>4. Max({a, b}) \in {a, b} /\ \A y \in {a, b} : Max({a, b}) >= y
  BY <1>2 DEF Max
<1> QED
  BY <1>3, <1>4

\* Long pauses are counted.
LEMMA PausesCounted ==
    ASSUME NEW gaps, IsFiniteSet(gaps)
    PROVE  LongPauses(gaps) \in Nat
<1>1. {g \in gaps : g.end - g.start >= 3000} \in SUBSET gaps
  OBVIOUS
<1> QED
  BY <1>1, FS_Subset, FS_CardinalityType DEF LongPauses

LEMMA GapsAreFinite ==
    ASSUME NEW s \in Seq(Phrase)
    PROVE  IsFiniteSet(WordGaps(s)) /\ IsFiniteSet(TurnGaps(s))
<1> DEFINE A == {k \in 2..Len(s) : StartOf(s, k) - EndOf(s, k - 1) >= 1500}
           B == {k \in 2..Len(s) : TurnTime(s, k) - TurnTime(s, k - 1) >= 10000}
           a == [i \in A |-> [start |-> EndOf(s, i - 1), end |-> StartOf(s, i)]]
           b == [i \in B |-> [start |-> TurnTime(s, i - 1), end |-> TurnTime(s, i)]]
<1>1. IsFiniteSet(2..Len(s))
  BY LenProperties, FS_Interval
<1>2. IsFiniteSet(A) /\ IsFiniteSet(B)
  <2>1. A \in SUBSET (2..Len(s)) /\ B \in SUBSET (2..Len(s))
    OBVIOUS
  <2> HIDE DEF A, B
  <2> QED
    BY <1>1, <2>1, FS_Subset
<1>3. WordGaps(s) = {a[i] : i \in A} /\ TurnGaps(s) = {b[i] : i \in B}
  BY DEF WordGaps, TurnGaps
<1>4. IsFiniteSet({a[i] : i \in A}) /\ IsFiniteSet({b[i] : i \in B})
  <2>1. /\ a \in Surjection(A, {a[i] : i \in A})
        /\ b \in Surjection(B, {b[i] : i \in B})
    BY DEF Surjection
  <2> HIDE DEF a, b, A, B
  <2> QED
    BY <1>2, <2>1, FS_Surjection
<1> QED
  BY <1>3, <1>4

\* The penalties stay in their bounds, and fillers only add to theirs.
LEMMA ScoreBounds ==
    ASSUME NEW fillers \in Nat, NEW words \in Nat, NEW pace, NEW pauses \in Nat, NEW marks \in BOOLEAN
    PROVE  LET score == ScoreDelivery(fillers, words, pace, pauses, marks) IN
           /\ score \in 50..100
           /\ ~marks \/ pauses <= 3 => score >= 65
           /\ score <= ScoreDelivery(0, words, pace, pauses, marks)
<1>1. /\ FillerPenalty(fillers, words) \in {0, 4, 12, 25}
      /\ FillerPenalty(0, words) = 0
  BY DEF FillerPenalty
<1>2. PacePenalty(pace) \in {0, 8, 10}
  BY DEF PacePenalty
<1>3. /\ PausePenalty(pauses, marks) \in 0..15
      /\ ~marks \/ pauses <= 3 => PausePenalty(pauses, marks) = 0
  <2>1. CASE marks /\ pauses > 3
    <3>1. 3 * pauses \in Int /\ 3 * pauses >= 0
      OBVIOUS
    <3>2. Min({3 * pauses, 15}) \in 0..15
      BY <3>1, LeastAndMost
    <3> QED
      BY <2>1, <3>2 DEF PausePenalty
  <2>2. CASE ~ (marks /\ pauses > 3)
    BY <2>2 DEF PausePenalty
  <2> QED
    BY <2>1, <2>2
<1>4. \A x \in 50..100 : Max({0, x}) = x
  BY LeastAndMost
<1> DEFINE f == FillerPenalty(fillers, words)
           p == PacePenalty(pace)
           q == PausePenalty(pauses, marks)
<1>5. /\ ScoreDelivery(fillers, words, pace, pauses, marks) = Max({0, 100 - f - p - q})
      /\ ScoreDelivery(0, words, pace, pauses, marks) = Max({0, 100 - 0 - p - q})
  BY <1>1 DEF ScoreDelivery
<1>6. f \in 0..25 /\ p \in 0..10 /\ q \in 0..15
  BY <1>1, <1>2, <1>3
<1>7. ~marks \/ pauses <= 3 => q = 0
  BY <1>3
<1> HIDE DEF f, p, q
<1>8. 100 - f - p - q \in 50..100 /\ 100 - 0 - p - q \in 50..100
  BY <1>6
<1>9. /\ ScoreDelivery(fillers, words, pace, pauses, marks) = 100 - f - p - q
      /\ ScoreDelivery(0, words, pace, pauses, marks) = 100 - 0 - p - q
  BY <1>4, <1>5, <1>8
<1> QED
  BY <1>6, <1>7, <1>8, <1>9

\* A speech without its fillers is the same speech otherwise.
CleanOf(s) == [i \in DOMAIN s |-> [s[i] EXCEPT !.fillers = 0]]

LEMMA CleanSpeech ==
    ASSUME NEW s \in Seq(Phrase)
    PROVE  /\ DOMAIN CleanOf(s) = DOMAIN s /\ Len(CleanOf(s)) = Len(s)
           /\ FillerCount(s) \in Nat /\ FillerCount(CleanOf(s)) = 0
           /\ \A i \in DOMAIN s : /\ StartOf(CleanOf(s), i) = StartOf(s, i)
                                  /\ EndOf(CleanOf(s), i) = EndOf(s, i)
                                  /\ TurnTime(CleanOf(s), i) = TurnTime(s, i)
           /\ WordGaps(CleanOf(s)) = WordGaps(s) /\ TurnGaps(CleanOf(s)) = TurnGaps(s)
<1> DEFINE c == CleanOf(s)
<1>1. DOMAIN s = 1..Len(s) /\ Len(s) \in Nat /\ \A i \in 1..Len(s) : s[i] \in Phrase
  BY LenProperties, ElementOfSeq
<1>2. /\ DOMAIN c = 1..Len(s)
      /\ \A i \in 1..Len(s) : /\ c[i].pause = s[i].pause /\ c[i].length = s[i].length
                              /\ c[i].messages = s[i].messages /\ c[i].fillers = 0
  BY <1>1 DEF CleanOf, Phrase
<1>3. Len(c) = Len(s)
  BY <1>1 DEF CleanOf
<1> HIDE DEF c
<1>4. FillerCount(s) \in Nat
  <2>1. [i \in DOMAIN s |-> s[i].fillers] \in [1..Len(s) -> Nat]
    BY <1>1, DeliveryAssumption DEF Phrase
  <2> QED
    BY <1>1, <2>1, SumStep DEF FillerCount
<1>5. FillerCount(c) = 0
  <2> DEFINE z(n) == [i \in 1..n |-> 0]
             W == {n \in Nat : SumOver(z(n)) = 0}
  <2>1. \A n \in Nat : z(n) \in [1..n -> Nat]
    OBVIOUS
  <2>2. 0 \in W
    <3>1. z(0) \in [1..0 -> Nat]
      BY <2>1
    <3> HIDE DEF z
    <3> QED
      BY <3>1, SumStep
  <2>3. ASSUME NEW n \in Nat, n \in W PROVE n + 1 \in W
    <3>1. /\ n + 1 \in Nat /\ n + 1 > 0 /\ z(n + 1) \in [1..(n + 1) -> Nat] /\ z(n + 1)[n + 1] = 0
          /\ [i \in 1..((n + 1) - 1) |-> z(n + 1)[i]] = z(n)
      OBVIOUS
    <3> HIDE DEF z
    <3>2. SumOver(z(n + 1)) = SumOver([i \in 1..((n + 1) - 1) |-> z(n + 1)[i]]) + z(n + 1)[n + 1]
      BY <3>1, SumStep
    <3>3. SumOver([i \in 1..((n + 1) - 1) |-> z(n + 1)[i]]) = SumOver(z(n))
      BY <3>1, Zenon
    <3>4. SumOver(z(n)) = 0
      BY <2>3
    <3>5. SumOver(z(n + 1)) = 0
      BY <3>1, <3>2, <3>3, <3>4
    <3> QED
      BY <3>5
  <2>4. SumOver(z(Len(s))) = 0
    <3> HIDE DEF W
    <3>1. Len(s) \in W
      BY <1>1, <2>2, <2>3, NatSetInduction
    <3> QED
      BY <3>1 DEF W
  <2>5. [i \in DOMAIN c |-> c[i].fillers] = z(Len(s))
    BY <1>2
  <2> QED
    BY <2>4, <2>5 DEF FillerCount
<1>6. ASSUME NEW i \in DOMAIN s
      PROVE  /\ StartOf(c, i) = StartOf(s, i) /\ EndOf(c, i) = EndOf(s, i)
             /\ TurnTime(c, i) = TurnTime(s, i)
  <2>1. /\ [j \in 1..i |-> c[j].pause] = [j \in 1..i |-> s[j].pause]
        /\ [j \in 1..i - 1 |-> c[j].length] = [j \in 1..i - 1 |-> s[j].length]
        /\ [j \in 1..i |-> c[j].messages] = [j \in 1..i |-> s[j].messages]
    BY <1>1, <1>2
  <2>2. StartOf(c, i) = StartOf(s, i) /\ TurnTime(c, i) = TurnTime(s, i)
    BY <2>1 DEF StartOf, TurnTime
  <2> QED
    BY <1>1, <1>2, <2>2 DEF EndOf
<1>7. WordGaps(c) = WordGaps(s) /\ TurnGaps(c) = TurnGaps(s)
  <2>1. \A i \in 2..Len(s) : /\ StartOf(c, i) = StartOf(s, i) /\ EndOf(c, i - 1) = EndOf(s, i - 1)
                             /\ TurnTime(c, i) = TurnTime(s, i)
                             /\ TurnTime(c, i - 1) = TurnTime(s, i - 1)
    BY <1>1, <1>6
  <2> QED
    BY <1>3, <2>1 DEF WordGaps, TurnGaps
<1> QED
  BY <1>1, <1>2, <1>3, <1>4, <1>5, <1>6, <1>7 DEF c

WordPace(s) == Pace(TotalWords(s), EndOf(s, Len(s)) - StartOf(s, 1))
TurnPace(s) == Pace(TotalWords(s), TurnDuration(s))
ScoreWith(s, fillers, timestamps) ==
    IF timestamps THEN ScoreDelivery(fillers, TotalWords(s), WordPace(s), LongPauses(WordGaps(s)), TRUE)
                  ELSE ScoreDelivery(fillers, TotalWords(s), TurnPace(s), LongPauses(TurnGaps(s)), FALSE)

\* Both analyses of a speech and of the same speech without its fillers.
LEMMA BothAnalyses ==
    ASSUME NEW s \in Seq(Phrase), s # <<>>
    PROVE  /\ FromWords(s).score = ScoreWith(s, FillerCount(s), TRUE)
           /\ FromWords(s).grade = Grade(ScoreWith(s, FillerCount(s), TRUE))
           /\ FromWords(s).gaps = WordGaps(s)
           /\ FromWords(s).pauses = LongPauses(WordGaps(s))
           /\ FromTurns(s).score = ScoreWith(s, FillerCount(s), FALSE)
           /\ FromTurns(s).grade = Grade(ScoreWith(s, FillerCount(s), FALSE))
           /\ CleanOf(s) # <<>>
           /\ FromWords(CleanOf(s)).score = ScoreWith(s, 0, TRUE)
           /\ FromTurns(CleanOf(s)).score = ScoreWith(s, 0, FALSE)
<1> DEFINE c == CleanOf(s)
<1>1. Len(s) \in Nat /\ Len(s) # 0 /\ DOMAIN s = 1..Len(s)
  BY LenProperties, EmptySeq
<1>2. 1 \in DOMAIN s /\ Len(s) \in DOMAIN s
  BY <1>1
<1>3. /\ Len(c) = Len(s) /\ FillerCount(c) = 0
      /\ \A i \in DOMAIN s : /\ StartOf(c, i) = StartOf(s, i) /\ EndOf(c, i) = EndOf(s, i)
                            /\ TurnTime(c, i) = TurnTime(s, i)
      /\ WordGaps(c) = WordGaps(s) /\ TurnGaps(c) = TurnGaps(s)
  BY CleanSpeech
<1>4. c # <<>>
  BY <1>1, <1>3, EmptySeq
<1> HIDE DEF c
<1>5. WordPace(c) = WordPace(s) /\ TurnPace(c) = TurnPace(s) /\ TotalWords(c) = TotalWords(s)
  BY <1>2, <1>3 DEF WordPace, TurnPace, TurnDuration, TotalWords
<1>6. FromWords(c).score = ScoreWith(s, 0, TRUE)
  <2>1. FromWords(c) = Result(c, WordPace(c), WordGaps(c), TRUE)
    BY <1>4 DEF FromWords, WordPace
  <2>2. FromWords(c).score
            = ScoreDelivery(FillerCount(c), TotalWords(c), WordPace(c), LongPauses(WordGaps(c)), TRUE)
    BY <1>4, <2>1 DEF Result
  <2> QED
    BY <1>3, <1>5, <2>2 DEF ScoreWith
<1>7. FromTurns(c).score = ScoreWith(s, 0, FALSE)
  <2>1. FromTurns(c) = Result(c, TurnPace(c), TurnGaps(c), FALSE)
    BY <1>4 DEF FromTurns, TurnPace
  <2>2. FromTurns(c).score
            = ScoreDelivery(FillerCount(c), TotalWords(c), TurnPace(c), LongPauses(TurnGaps(c)), FALSE)
    BY <1>4, <2>1 DEF Result
  <2> QED
    BY <1>3, <1>5, <2>2 DEF ScoreWith
<1>8. /\ FromWords(s) = Result(s, WordPace(s), WordGaps(s), TRUE)
      /\ FromTurns(s) = Result(s, TurnPace(s), TurnGaps(s), FALSE)
  BY DEF FromWords, WordPace, FromTurns, TurnPace
<1> QED
  BY <1>4, <1>6, <1>7, <1>8 DEF Result, ScoreWith, c

\* What the report says of a speech, with and without timestamps.
LEMMA ScoreFair ==
    ASSUME NEW s \in Seq(Phrase), NEW marks \in BOOLEAN
    PROVE  LET score == ScoreWith(s, FillerCount(s), marks) IN
           /\ score \in 50..100
           /\ score <= ScoreWith(s, 0, marks)
           /\ ~marks \/ LongPauses(WordGaps(s)) <= 3 => score >= 65
           /\ Grade(score) = "Excellent" <=> score >= 90
<1>1. FillerCount(s) \in Nat
  BY CleanSpeech
<1>2. TotalWords(s) \in Nat
  BY LenProperties, DeliveryAssumption DEF TotalWords
<1>3. LongPauses(WordGaps(s)) \in Nat /\ LongPauses(TurnGaps(s)) \in Nat
  BY GapsAreFinite, PausesCounted
<1> DEFINE score == ScoreWith(s, FillerCount(s), marks)
<1>4. score \in 50..100 /\ score <= ScoreWith(s, 0, marks)
      /\ (~marks \/ LongPauses(WordGaps(s)) <= 3 => score >= 65)
  BY <1>1, <1>2, <1>3, ScoreBounds DEF ScoreWith
<1> HIDE DEF score
<1>5. Grade(score) = "Excellent" <=> score >= 90
  <2>0. score \in Int
    BY <1>4
  <2>1. CASE score >= 90
    <3>1. score \notin 75..89 /\ score \notin 60..74
      BY <2>0, <2>1
    <3>2. Grade(score) = "Excellent"
      BY <2>1, <3>1, Zenon DEF Grade
    <3> QED
      BY <2>1, <3>2
  <2>2. CASE ~ (score >= 90)
    <3>1. Grade(score) = CASE score \in 75..89 -> "Good"
                           [] score \in 60..74 -> "Fair"
                           [] OTHER -> "Needs Work"
      BY <2>0, <2>2 DEF Grade
    <3>2. Grade(score) \in {"Good", "Fair", "Needs Work"}
      BY <2>0, <3>1
    <3> QED
      BY <2>2, <3>2
  <2> QED
    BY <2>1, <2>2
<1> QED
  BY <1>4, <1>5 DEF score

SpeechType == speech \in Seq(Phrase)

\* A speech is made of phrases.
LEMMA SpeechGrows == DeliverySpec => []SpeechType
<1>1. DeliveryInit => SpeechType
  BY EmptySeq DEF DeliveryInit, SpeechType
<1>2. SpeechType /\ [DeliveryNext]_speech => SpeechType'
  BY AppendProperties DEF DeliveryNext, Speak, SpeechType
<1> QED
  BY <1>1, <1>2, PTL DEF DeliverySpec

(* The report of the speech of one connection, however long, with whatever pauses and fillers and
   whatever numbers of messages between its turns: its gaps are silences, its score follows what
   was said, and neither path takes more off than its penalties. *)
THEOREM FairReport == DeliverySpec => []DeliveryFair
<1>1. ASSUME SpeechType PROVE DeliveryFair
  <2> DEFINE s == speech
  <2>s. s \in Seq(Phrase)
    BY <1>1 DEF SpeechType
  <2>b. s # <<>> =>
           /\ FromWords(s).score = ScoreWith(s, FillerCount(s), TRUE)
           /\ FromWords(s).grade = Grade(ScoreWith(s, FillerCount(s), TRUE))
           /\ FromWords(s).gaps = WordGaps(s)
           /\ FromWords(s).pauses = LongPauses(WordGaps(s))
           /\ FromTurns(s).score = ScoreWith(s, FillerCount(s), FALSE)
           /\ FromTurns(s).grade = Grade(ScoreWith(s, FillerCount(s), FALSE))
           /\ CleanOf(s) # <<>>
           /\ FromWords(CleanOf(s)).score = ScoreWith(s, 0, TRUE)
           /\ FromTurns(CleanOf(s)).score = ScoreWith(s, 0, FALSE)
    BY <2>s, BothAnalyses
  <2>1. WordGaps(s) = {g \in {Between(s, i, j) : i, j \in DOMAIN s} : Silent(s, g)}
    BY <2>s, GapsFound
  <2>4. GapsAreSilences
    <3> DEFINE starts == [i \in DOMAIN speech |-> StartOf(speech, i)]
               ends == [i \in DOMAIN speech |-> EndOf(speech, i)]
    <3>1. \A i \in DOMAIN speech : starts[i] = StartOf(s, i) /\ ends[i] = EndOf(s, i)
      OBVIOUS
    <3> HIDE DEF starts, ends
    <3>2. {[start |-> ends[i], end |-> starts[j]] : i, j \in DOMAIN speech}
              = {Between(s, i, j) : i, j \in DOMAIN s}
      BY <3>1 DEF Between
    <3>3. \A g : Silent(s, g) <=>
             /\ g.end - g.start >= 1500
             /\ ~ \E i \in DOMAIN speech : starts[i] <= g.start /\ g.start < ends[i]
             /\ \A i \in DOMAIN speech : ~(starts[i] \in g.start..(g.end - 1))
      BY <3>1 DEF Silent
    <3>4. WordGaps(speech) =
             {g \in {[start |-> ends[i], end |-> starts[j]] : i, j \in DOMAIN speech} :
                 /\ g.end - g.start >= 1500
                 /\ ~ \E i \in DOMAIN speech : starts[i] <= g.start /\ g.start < ends[i]
                 /\ \A i \in DOMAIN speech : ~(starts[i] \in g.start..(g.end - 1))}
      BY <2>1, <3>2, <3>3
    <3> QED
      BY <3>4 DEF GapsAreSilences, starts, ends
  <2>2. CASE s = <<>>
    <3>2. FromWords(s).score = NoScore /\ FromTurns(s).score = NoScore
      BY <2>2 DEF FromWords, FromTurns, Result
    <3> QED
      BY <2>2, <2>4, <3>2 DEF DeliveryFair, ScoreFollowsSpeech, Analyze
  <2>3. CASE s # <<>>
    <3>2. ASSUME NEW kept \in BOOLEAN
          PROVE  LET said == Analyze(s, kept) IN
                 /\ said.score \in 50..100 /\ said.score # NoScore
                 /\ said.grade = "Excellent" <=> said.score >= 90
                 /\ said.score <= Analyze(CleanOf(s), kept).score
      <4>1. /\ Analyze(s, kept) = IF kept THEN FromWords(s) ELSE FromTurns(s)
            /\ Analyze(CleanOf(s), kept) = IF kept THEN FromWords(CleanOf(s)) ELSE FromTurns(CleanOf(s))
        BY <2>3, <2>b DEF Analyze
      <4>2. /\ Analyze(s, kept).score = ScoreWith(s, FillerCount(s), kept)
            /\ Analyze(s, kept).grade = Grade(ScoreWith(s, FillerCount(s), kept))
            /\ Analyze(CleanOf(s), kept).score = ScoreWith(s, 0, kept)
        BY <2>3, <2>b, <4>1
      <4>3. /\ ScoreWith(s, FillerCount(s), kept) \in 50..100
            /\ ScoreWith(s, FillerCount(s), kept) <= ScoreWith(s, 0, kept)
            /\ Grade(ScoreWith(s, FillerCount(s), kept)) = "Excellent"
                  <=> ScoreWith(s, FillerCount(s), kept) >= 90
        BY <2>s, ScoreFair
      <4> QED
        BY <4>2, <4>3, DeliveryAssumption
    <3>3. FromTurns(s).score >= 65 /\ (FromWords(s).pauses <= 3 => FromWords(s).score >= 65)
      <4>1. /\ FromTurns(s).score = ScoreWith(s, FillerCount(s), FALSE)
            /\ FromWords(s).score = ScoreWith(s, FillerCount(s), TRUE)
            /\ FromWords(s).pauses = LongPauses(WordGaps(s))
        BY <2>3, <2>b
      <4>2. /\ ScoreWith(s, FillerCount(s), FALSE) >= 65
            /\ LongPauses(WordGaps(s)) <= 3 => ScoreWith(s, FillerCount(s), TRUE) >= 65
        BY <2>s, ScoreFair
      <4> QED
        BY <4>1, <4>2
    <3>5. ScoreFollowsSpeech
      BY <2>3, <3>2 DEF CleanOf, ScoreFollowsSpeech
    <3> QED
      BY <2>4, <3>3, <3>5 DEF DeliveryFair
  <2> QED
    BY <2>2, <2>3
<1> QED
  BY <1>1, SpeechGrows, PTL

-------------------------------------------------------------------------------
(* Progress: lists in order *)

StrictOrder(S, R) ==
    /\ \A x \in S : <<x, x>> \notin R
    /\ \A x, y \in S : x = y \/ <<x, y>> \in R \/ <<y, x>> \in R
    /\ \A x, y, z \in S : <<x, y>> \in R /\ <<y, z>> \in R => <<x, z>> \in R

\* The list of a finite set in a strict order has each element once, in that order.
LEMMA ListedInOrder ==
    ASSUME NEW S, IsFiniteSet(S), NEW R, StrictOrder(S, R)
    PROVE  /\ Cardinality(S) \in Nat
           /\ Listed(S, R) \in Seq(S) /\ Len(Listed(S, R)) = Cardinality(S)
           /\ DOMAIN Listed(S, R) = 1..Cardinality(S)
           /\ \A p \in 1..Cardinality(S) : Listed(S, R)[p] \in S
           /\ \A x \in S : \E p \in 1..Cardinality(S) : Listed(S, R)[p] = x
           /\ \A p, q \in 1..Cardinality(S) :
                 p < q <=> <<Listed(S, R)[p], Listed(S, R)[q]>> \in R
<1> DEFINE n == Cardinality(S)
           Before(x) == {y \in S : <<y, x>> \in R}
           r == [x \in S |-> Cardinality(Before(x))]
           list == Listed(S, R)
<1>1. n \in Nat /\ \A t \in SUBSET S : IsFiniteSet(t) /\ Cardinality(t) \in Nat
  BY FS_Subset, FS_CardinalityType
<1>2. ASSUME NEW x \in S PROVE r[x] \in 0..(n - 1)
  <2>1. Before(x) \in SUBSET (S \ {x})
    BY DEF StrictOrder
  <2>2. IsFiniteSet(S \ {x}) /\ Cardinality(S \ {x}) = n - 1
    BY FS_RemoveElement
  <2> HIDE DEF Before
  <2>3. Cardinality(Before(x)) <= n - 1 /\ Cardinality(Before(x)) \in Nat
    BY <1>1, <2>1, <2>2, FS_Subset
  <2> QED
    BY <1>1, <2>3
<1>3. ASSUME NEW x \in S, NEW y \in S, <<x, y>> \in R PROVE r[x] < r[y]
  <2>1. Before(x) \cup {x} \in SUBSET Before(y)
    BY <1>3 DEF StrictOrder
  <2>2. x \notin Before(x) /\ Before(x) \in SUBSET S /\ Before(y) \in SUBSET S
    BY DEF StrictOrder
  <2> HIDE DEF Before
  <2>3. Cardinality(Before(x) \cup {x}) = Cardinality(Before(x)) + 1
    BY <1>1, <2>2, FS_AddElement
  <2>4. Cardinality(Before(x) \cup {x}) <= Cardinality(Before(y))
    BY <1>1, <2>1, <2>2, FS_Subset
  <2>5. Cardinality(Before(x)) \in Nat /\ Cardinality(Before(y)) \in Nat
    BY <1>1, <2>2
  <2> QED
    BY <2>3, <2>4, <2>5
<1>4. \A x, y \in S : r[x] = r[y] => x = y
  <2> SUFFICES ASSUME NEW x \in S, NEW y \in S, r[x] = r[y], x # y PROVE FALSE
    OBVIOUS
  <2>1. <<x, y>> \in R \/ <<y, x>> \in R
    BY DEF StrictOrder
  <2>2. r[x] \in Int /\ r[y] \in Int
    BY <1>2
  <2>3. r[x] < r[y] \/ r[y] < r[x]
    BY <1>3, <2>1
  <2> HIDE DEF r
  <2> QED
    BY <2>2, <2>3
<1>5. \A m \in 0..(n - 1) : \E x \in S : r[x] = m
  <2>1. r \in [S -> 0..(n - 1)]
    BY <1>2
  <2>2. r \in Injection(S, 0..(n - 1))
    <3> HIDE DEF r
    <3> QED
      BY <1>4, <2>1 DEF Injection, IsInjective
  <2>3. IsFiniteSet(0..(n - 1)) /\ Cardinality(0..(n - 1)) = n
    <3>1. Cardinality(0..(n - 1)) = IF 0 > n - 1 THEN 0 ELSE (n - 1) - 0 + 1
      BY <1>1, FS_Interval
    <3> QED
      BY <1>1, <3>1, FS_Interval
  <2> HIDE DEF r
  <2>4. r \in Surjection(S, 0..(n - 1))
    <3> DEFINE I == 0..(n - 1)
    <3>1. r \in Injection(S, I) /\ IsFiniteSet(I) /\ Cardinality(S) = Cardinality(I)
      BY <2>2, <2>3
    <3> HIDE DEF I
    <3>2. r \in Surjection(S, I)
      BY <3>1, FS_Injection
    <3> QED
      BY <3>2 DEF I
  <2> QED
    BY <2>4 DEF Surjection
<1>6. ASSUME NEW p \in 1..n PROVE list[p] \in S /\ r[list[p]] = p - 1
  <2>1. list[p] = CHOOSE x \in S : Cardinality(Before(x)) = p - 1
    BY DEF Listed
  <2>2. list[p] = CHOOSE x \in S : r[x] = p - 1
    BY <2>1
  <2>3. \E x \in S : r[x] = p - 1
    <3>1. p - 1 \in 0..(n - 1)
      BY <1>1
    <3> HIDE DEF r
    <3> QED
      BY <1>5, <3>1
  <2> HIDE DEF r, list
  <2> QED
    BY <2>2, <2>3
<1>7. DOMAIN list = 1..n /\ list \in [1..n -> S]
  BY <1>6 DEF Listed
<1> HIDE DEF r, list
<1>8. list \in Seq(S) /\ Len(list) = n
  BY <1>1, <1>7, IsASeq, LenProperties
<1>9. ASSUME NEW x \in S PROVE \E p \in 1..n : list[p] = x
  <2>1. r[x] \in 0..(n - 1)
    BY <1>2
  <2>2. r[x] + 1 \in 1..n /\ (r[x] + 1) - 1 = r[x]
    BY <1>1, <2>1
  <2>3. list[r[x] + 1] \in S /\ r[list[r[x] + 1]] = r[x]
    BY <1>6, <2>2
  <2> QED
    BY <1>4, <2>2, <2>3
<1>10. ASSUME NEW p \in 1..n, NEW q \in 1..n PROVE p < q <=> <<list[p], list[q]>> \in R
  <2>1. /\ list[p] \in S /\ list[q] \in S
        /\ r[list[p]] = p - 1 /\ r[list[q]] = q - 1
    BY <1>6
  <2>2. <<list[p], list[q]>> \in R => p - 1 < q - 1
    BY <1>3, <2>1
  <2>3. <<list[q], list[p]>> \in R => q - 1 < p - 1
    BY <1>3, <2>1
  <2>4. list[p] = list[q] \/ <<list[p], list[q]>> \in R \/ <<list[q], list[p]>> \in R
    BY <2>1 DEF StrictOrder
  <2>5. list[p] = list[q] => p - 1 = q - 1
    BY <2>1
  <2> QED
    BY <2>2, <2>3, <2>4, <2>5
<1> QED
  BY <1>1, <1>7, <1>8, <1>9, <1>10, <1>6 DEF list

-------------------------------------------------------------------------------
(* Progress: the drill plan *)

Skills == DOMAIN nodes
Ranked == RankedSkills(nodes)

LEMMA SkillsAre ==
    ASSUME ProgressInit
    PROVE  /\ IsFiniteSet(Skills) /\ Cardinality(Skills) \in Nat
           /\ Skills = 1..Cardinality(Skills)
           /\ \A s \in Skills : s \in Nat /\ nodes[s] \in Node
<1>1. PICK k \in 0..SkillCount : nodes \in [1..k -> Node]
  BY DEF ProgressInit
<1>2. k \in Nat /\ Skills = 1..k /\ \A s \in 1..k : nodes[s] \in Node
  BY <1>1, ProgressAssumption DEF Skills
<1>3. IsFiniteSet(1..k) /\ Cardinality(1..k) = k
  BY <1>2, FS_Interval
<1> QED
  BY <1>2, <1>3

\* What is overdue adds to the urgency, up to a half; a trend has its own share.
Bonus(node) == Min({50, Max({0, 10 * node.overdue})})
Share(node) == IF node.trend = "declining" THEN 20 ELSE IF node.trend = "improving" THEN -10 ELSE 0

LEMMA UrgencyParts ==
    ASSUME NEW a \in Node
    PROVE  /\ a.score \in 0..100 /\ a.overdue \in Int
           /\ Bonus(a) \in Int /\ Share(a) \in Int
           /\ Bonus(a) = IF a.overdue <= 0 THEN 0 ELSE IF a.overdue <= 5 THEN 10 * a.overdue ELSE 50
           /\ Urgency(a) = 100 - a.score + Bonus(a) + Share(a)
           /\ Urgency(a) \in Int
<1>1. a.score \in 0..100 /\ a.overdue \in Int
  BY ProgressAssumption DEF Node
<1>2. /\ \A y \in Int : Max({0, y}) = IF 0 <= y THEN y ELSE 0
      /\ \A y \in Int : Min({50, y}) = IF 50 <= y THEN 50 ELSE y
  BY LeastAndMost
<1>3. PICK y \in Int : y = 10 * a.overdue
  BY <1>1
<1>4. PICK x \in Int : x = Max({0, y}) /\ x = IF 0 <= y THEN y ELSE 0
  BY <1>2
<1>5. Bonus(a) = IF 50 <= x THEN 50 ELSE x
  <2>1. Bonus(a) = Min({50, x})
    BY <1>3, <1>4 DEF Bonus
  <2> QED
    BY <1>2, <2>1
<1>6. Bonus(a) = IF a.overdue <= 0 THEN 0 ELSE IF a.overdue <= 5 THEN 10 * a.overdue ELSE 50
  BY <1>1, <1>3, <1>4, <1>5
<1>7. Bonus(a) \in Int
  BY <1>1, <1>6
<1>8. Share(a) \in Int
  BY DEF Share
<1>9. Urgency(a) = (100 - a.score) + Bonus(a) + Share(a)
  BY DEF Urgency, Bonus, Share
<1> QED
  BY <1>1, <1>6, <1>7, <1>8, <1>9

\* The needier skill is more urgent.
LEMMA NeedIsUrgency ==
    ASSUME ProgressInit, NEW s \in Skills, NEW t \in Skills, Needier(s, t)
    PROVE  MoreUrgent(nodes, s, t)
<1> DEFINE a == nodes[s]
           b == nodes[t]
<1>1. a \in Node /\ b \in Node
  BY SkillsAre
<1>2. a.score < b.score /\ a.overdue >= b.overdue /\ TrendRank(a) <= TrendRank(b)
  BY DEF Needier
<1> HIDE DEF a, b
<1>3. /\ a.score \in Int /\ b.score \in Int /\ a.overdue \in Int /\ b.overdue \in Int
      /\ Bonus(a) = IF a.overdue <= 0 THEN 0 ELSE IF a.overdue <= 5 THEN 10 * a.overdue ELSE 50
      /\ Bonus(b) = IF b.overdue <= 0 THEN 0 ELSE IF b.overdue <= 5 THEN 10 * b.overdue ELSE 50
      /\ Urgency(a) = 100 - a.score + Bonus(a) + Share(a)
      /\ Urgency(b) = 100 - b.score + Bonus(b) + Share(b)
      /\ Bonus(a) \in Int /\ Bonus(b) \in Int /\ Share(a) \in Int /\ Share(b) \in Int
  BY <1>1, UrgencyParts
<1>4. Share(a) >= Share(b)
  BY <1>2 DEF Share, TrendRank
<1>5. Bonus(a) >= Bonus(b)
  BY <1>2, <1>3
<1>6. Urgency(a) > Urgency(b)
  BY <1>2, <1>3, <1>4, <1>5
<1> QED
  BY <1>6 DEF MoreUrgent, a, b

\* The ranking has every skill once, the more urgent before the less urgent.
LEMMA RankingTrue ==
    ASSUME ProgressInit
    PROVE  /\ Ranked \in Seq(Skills) /\ Len(Ranked) = Cardinality(Skills)
           /\ \A p \in 1..Cardinality(Skills) : Ranked[p] \in Skills
           /\ \A s \in Skills : \E p \in 1..Cardinality(Skills) : Ranked[p] = s
           /\ \A p, q \in 1..Cardinality(Skills) : MoreUrgent(nodes, Ranked[p], Ranked[q]) => p < q
<1> DEFINE R == {p \in {<<s, t>> : s, t \in Skills} : MoreUrgent(nodes, p[1], p[2])}
           u == [s \in Skills |-> Urgency(nodes[s])]
<1>1. IsFiniteSet(Skills) /\ \A s \in Skills : s \in Nat /\ u[s] \in Int
  BY SkillsAre, UrgencyParts
<1>2. \A s, t \in Skills : MoreUrgent(nodes, s, t) <=> u[s] > u[t] \/ (u[s] = u[t] /\ s < t)
  BY DEF MoreUrgent
<1>3. \A s, t \in Skills : <<s, t>> \in R <=> u[s] > u[t] \/ (u[s] = u[t] /\ s < t)
  BY <1>2
<1> HIDE DEF u, R
<1>4. StrictOrder(Skills, R)
  BY <1>1, <1>3 DEF StrictOrder
<1>5. Ranked = Listed(Skills, R)
  BY DEF Ranked, RankedSkills, Skills, R
<1>6. /\ Ranked \in Seq(Skills) /\ Len(Ranked) = Cardinality(Skills)
      /\ \A p \in 1..Cardinality(Skills) : Ranked[p] \in Skills
      /\ \A s \in Skills : \E p \in 1..Cardinality(Skills) : Ranked[p] = s
      /\ \A p, q \in 1..Cardinality(Skills) : p < q <=> <<Ranked[p], Ranked[q]>> \in R
  BY <1>1, <1>4, <1>5, ListedInOrder
<1> QED
  BY <1>2, <1>3, <1>6

\* The plan by the days until the interview; a date in the past is no date.
LEMMA ScaleOf ==
    ASSUME NEW d \in Days \cup {None}
    PROVE  /\ d \in Int \/ d = None
           /\ DaysUntil(d) = None <=> ~ (d \in Int /\ d >= 0)
           /\ DaysUntil(d) # None => DaysUntil(d) = d
           /\ PlanScale(d) = IF d \in 0..7 THEN [slots |-> 7, questions |-> 3]
                             ELSE IF d \in 8..21 THEN [slots |-> 5, questions |-> 2]
                             ELSE [slots |-> 3, questions |-> 1]
<1>1. d \in Int \/ d = None
  BY ProgressAssumption
<1>2. CASE d = None
  <2>1. DaysUntil(d) = None /\ d \notin Int
    BY <1>2, ProgressAssumption DEF DaysUntil
  <2>2. CountdownUrgency(d) = "none"
    BY <2>1 DEF CountdownUrgency
  <2>3. PlanScale(d) = [slots |-> 3, questions |-> 1]
    BY <2>2 DEF PlanScale
  <2>4. d \notin 0..7 /\ d \notin 8..21
    BY <2>1
  <2> QED
    BY <1>2, <2>1, <2>3, <2>4
<1>3. CASE d \in Int /\ d < 0
  <2>1. DaysUntil(d) = None
    BY <1>3 DEF DaysUntil
  <2>2. CountdownUrgency(d) = "none"
    BY <1>3, <2>1 DEF CountdownUrgency
  <2>3. PlanScale(d) = [slots |-> 3, questions |-> 1]
    BY <2>2 DEF PlanScale
  <2>4. d \notin 0..7 /\ d \notin 8..21
    BY <1>3
  <2> QED
    BY <1>3, <2>1, <2>3, <2>4
<1>4. CASE d \in Int /\ d >= 0
  <2>1. d # None
    BY <1>4, ProgressAssumption
  <2>2. DaysUntil(d) = d
    BY <1>4, <2>1 DEF DaysUntil
  <2>3. CASE d \in 0..7
    <3>1. CountdownUrgency(d) = "critical"
      BY <2>1, <2>2, <2>3 DEF CountdownUrgency
    <3> QED
      BY <1>4, <2>1, <2>2, <2>3, <3>1 DEF PlanScale
  <2>4. CASE d \in 8..21
    <3>1. CountdownUrgency(d) = "high"
      BY <2>1, <2>2, <2>4 DEF CountdownUrgency
    <3>2. PlanScale(d) = [slots |-> 5, questions |-> 2]
      BY <3>1 DEF PlanScale
    <3>3. d \notin 0..7
      BY <2>4
    <3> QED
      BY <1>4, <2>1, <2>2, <2>4, <3>2, <3>3
  <2>5. CASE d \notin 0..7 /\ d \notin 8..21
    <3>1. CountdownUrgency(d) \in {"normal", "relaxed"}
      BY <2>1, <2>2, <2>5 DEF CountdownUrgency
    <3>2. PlanScale(d) = [slots |-> 3, questions |-> 1]
      BY <3>1 DEF PlanScale
    <3> QED
      BY <1>4, <2>1, <2>2, <2>5, <3>2
  <2> QED
    BY <2>3, <2>4, <2>5
<1> QED
  BY <1>1, <1>2, <1>3, <1>4

\* The nearer interview has no fewer slots and no fewer questions.
LEMMA ScaleGrows ==
    ASSUME NEW d \in Days, NEW e \in Days, Nearer(d, e)
    PROVE  /\ PlanScale(e).slots <= PlanScale(d).slots
           /\ PlanScale(e).questions <= PlanScale(d).questions
<1>1. d \in Int /\ d >= 0
  BY ScaleOf DEF Nearer
<1>2. e \in Int /\ e >= 0 => d <= e
  <2> SUFFICES ASSUME e \in Int, e >= 0 PROVE d <= e
    OBVIOUS
  <2>1. DaysUntil(e) # None
    BY ScaleOf
  <2> QED
    BY <2>1 DEF Nearer
<1>3. e \in 0..7 => d \in 0..7
  BY <1>1, <1>2
<1>4. e \in 8..21 => d \in 0..7 \/ d \in 8..21
  BY <1>1, <1>2
<1>5. \A x \in {d, e} : PlanScale(x) = IF x \in 0..7 THEN [slots |-> 7, questions |-> 3]
                                        ELSE IF x \in 8..21 THEN [slots |-> 5, questions |-> 2]
                                        ELSE [slots |-> 3, questions |-> 1]
  BY ScaleOf
<1> QED
  BY <1>3, <1>4, <1>5

\* The plan is the first skills of the ranking.
PlanSize(d) == IF PlanScale(d).slots <= Cardinality(Skills) THEN PlanScale(d).slots ELSE Cardinality(Skills)

LEMMA PlanIs ==
    ASSUME ProgressInit, NEW d \in Days \cup {None}
    PROVE  /\ PlanSize(d) \in 0..Cardinality(Skills)
           /\ WeeklyPlan(nodes, d) = SubSeq(Ranked, 1, PlanSize(d))
           /\ WeeklyPlan(nodes, d) \in Seq(Skills) /\ Len(WeeklyPlan(nodes, d)) = PlanSize(d)
           /\ DOMAIN WeeklyPlan(nodes, d) = 1..PlanSize(d)
           /\ \A i \in 1..PlanSize(d) : WeeklyPlan(nodes, d)[i] = Ranked[i]
           /\ ToSet(WeeklyPlan(nodes, d)) = {Ranked[i] : i \in 1..PlanSize(d)}
           /\ PlanScale(d).slots \in {3, 5, 7} /\ PlanScale(d).questions \in {1, 2, 3}
<1>1. Cardinality(Skills) \in Nat /\ \A i \in 1..Cardinality(Skills) : Ranked[i] \in Skills
  BY SkillsAre, RankingTrue
<1>2. PlanScale(d).slots \in {3, 5, 7} /\ PlanScale(d).questions \in {1, 2, 3}
  BY ScaleOf
<1>3. PlanSize(d) \in 0..Cardinality(Skills)
  BY <1>1, <1>2 DEF PlanSize
<1> DEFINE m == PlanSize(d)
           plan == SubSeq(Ranked, 1, m)
<1>4. m = Min({PlanScale(d).slots, Cardinality(Skills)})
  <2>1. \A a, b \in Int : Min({a, b}) = IF a <= b THEN a ELSE b
    BY LeastAndMost
  <2>2. PlanScale(d).slots \in Int /\ Cardinality(Skills) \in Int
    BY <1>1, <1>2
  <2> QED
    BY <2>1, <2>2 DEF PlanSize
<1>5. WeeklyPlan(nodes, d) = plan
  BY <1>4 DEF WeeklyPlan, Ranked, Skills
<1> HIDE DEF m
<1>6. m \in Int /\ m \in 0..Cardinality(Skills) /\ \A i \in 1..m : Ranked[i] \in Skills
  BY <1>1, <1>3 DEF m
<1>7. /\ plan \in Seq(Skills) /\ Len(plan) = IF 1 <= m THEN m - 1 + 1 ELSE 0
      /\ \A i \in 1..(m - 1 + 1) : plan[i] = Ranked[1 + i - 1]
  <2>1. 1 \in Int
    OBVIOUS
  <2> QED
    BY <1>6, <2>1, SubSeqProperties
<1> HIDE DEF plan
<1>8. Len(plan) = m /\ DOMAIN plan = 1..m
  BY <1>6, <1>7, LenProperties
<1>9. \A i \in 1..m : plan[i] = Ranked[i]
  <2> TAKE i \in 1..m
  <2>1. i \in 1..(m - 1 + 1) /\ 1 + i - 1 = i
    BY <1>6
  <2> QED
    BY <1>7, <2>1
<1>10. ToSet(plan) = {Ranked[i] : i \in 1..m}
  BY <1>8, <1>9 DEF ToSet
<1>11. WeeklyPlan(nodes, d) = SubSeq(Ranked, 1, m)
  BY <1>5 DEF plan
<1> QED
  BY <1>2, <1>3, <1>5, <1>7, <1>8, <1>9, <1>10, <1>11 DEF m

\* More skills with more questions each take no less time.
LEMMA MinutesGrow ==
    ASSUME ProgressInit, NEW d \in Days \cup {None}, NEW e \in Days \cup {None},
           PlanSize(e) <= PlanSize(d), PlanScale(e).questions <= PlanScale(d).questions
    PROVE  /\ \A s : Questions(nodes, e, s) <= Questions(nodes, d, s)
           /\ PlanMinutes(nodes, e) <= PlanMinutes(nodes, d)
<1> DEFINE S == ToSet(WeeklyPlan(nodes, d))
           R == ToSet(WeeklyPlan(nodes, e))
           f == [s \in S |-> Questions(nodes, d, s)]
           g == [s \in R |-> Questions(nodes, e, s)]
<1>1. PlanScale(d).questions \in {1, 2, 3} /\ PlanScale(e).questions \in {1, 2, 3}
  BY PlanIs
<1>2. \A s : /\ Questions(nodes, d, s) \in 0..4 /\ Questions(nodes, e, s) \in 0..4
             /\ Questions(nodes, e, s) <= Questions(nodes, d, s)
  BY <1>1 DEF Questions
<1>3. PlanSize(d) \in 0..Cardinality(Skills) /\ PlanSize(e) \in 0..Cardinality(Skills)
  BY PlanIs
<1>4. S = {Ranked[i] : i \in 1..PlanSize(d)} /\ R = {Ranked[i] : i \in 1..PlanSize(e)}
  BY PlanIs
<1>5. Cardinality(Skills) \in Nat /\ IsFiniteSet(Skills) /\ \A i \in 1..Cardinality(Skills) : Ranked[i] \in Skills
  BY SkillsAre, RankingTrue
<1>6. R \in SUBSET S /\ S \in SUBSET Skills
  <2>1. \A i \in 1..PlanSize(e) : i \in 1..PlanSize(d)
    BY <1>3, <1>5
  <2>2. \A i \in 1..PlanSize(d) : i \in 1..Cardinality(Skills)
    BY <1>3, <1>5
  <2> HIDE DEF S, R
  <2> QED
    BY <1>4, <1>5, <2>1, <2>2
<1>7. IsFiniteSet(S) /\ IsFiniteSet(R)
  <2> HIDE DEF S, R
  <2> QED
    BY <1>5, <1>6, FS_Subset
<1>8. f \in [S -> Int] /\ g \in [R -> Int] /\ (\A s \in R : g[s] <= f[s]) /\ \A s \in S \ R : 0 <= f[s]
  <2> HIDE DEF S, R
  <2> QED
    BY <1>2, <1>6
<1>9. PlanMinutes(nodes, d) = 7 * Total(f) /\ PlanMinutes(nodes, e) = 7 * Total(g)
  BY DEF PlanMinutes
<1> HIDE DEF f, g, S, R
<1>10. Total(g) <= Total(f)
  BY <1>6, <1>7, <1>8, TotalGrows
<1>11. Total(f) \in Int /\ Total(g) \in Int
  BY <1>7, <1>8, TotalSplit
<1>12. PlanMinutes(nodes, e) <= PlanMinutes(nodes, d)
  BY <1>9, <1>10, <1>11
<1> QED
  BY <1>2, <1>12

\* The drill plan serves the needier skill first, and the nearer interview no less.
LEMMA PlanFits == ASSUME ProgressInit PROVE PlanFitsNeed
<1>0. Cardinality(Skills) \in Nat
  BY SkillsAre
<1>1. ASSUME NEW d \in Days
      PROVE  LET plan == WeeklyPlan(nodes, d) IN
             /\ \A i, j \in DOMAIN plan : Needier(plan[i], plan[j]) => i < j
             /\ \A s \in DOMAIN nodes \ ToSet(plan), i \in DOMAIN plan : ~Needier(s, plan[i])
  <2> DEFINE plan == WeeklyPlan(nodes, d)
             m == PlanSize(d)
  <2>1. /\ m \in 0..Cardinality(Skills) /\ DOMAIN plan = 1..m /\ \A i \in 1..m : plan[i] = Ranked[i]
        /\ ToSet(plan) = {Ranked[i] : i \in 1..m}
    BY PlanIs
  <2> HIDE DEF plan, m
  <2>2. \A i \in 1..m : i \in 1..Cardinality(Skills) /\ i \in Nat
    BY <1>0, <2>1
  <2>3. ASSUME NEW i \in DOMAIN plan, NEW j \in DOMAIN plan, Needier(plan[i], plan[j]) PROVE i < j
    <3>1. /\ plan[i] = Ranked[i] /\ plan[j] = Ranked[j]
          /\ i \in 1..Cardinality(Skills) /\ j \in 1..Cardinality(Skills)
      BY <2>1, <2>2
    <3>2. Ranked[i] \in Skills /\ Ranked[j] \in Skills
      BY <3>1, RankingTrue
    <3>3. MoreUrgent(nodes, Ranked[i], Ranked[j])
      BY <2>3, <3>1, <3>2, NeedIsUrgency
    <3> QED
      BY <3>1, <3>3, RankingTrue
  <2>4. ASSUME NEW s \in DOMAIN nodes \ ToSet(plan), NEW i \in DOMAIN plan, Needier(s, plan[i]) PROVE FALSE
    <3>1. plan[i] = Ranked[i] /\ i \in 1..Cardinality(Skills) /\ i \in 1..m /\ s \in Skills
      BY <2>1, <2>2 DEF Skills
    <3>2. PICK j \in 1..Cardinality(Skills) : Ranked[j] = s
      BY <3>1, RankingTrue
    <3>3. Ranked[i] \in Skills
      BY <3>1, RankingTrue
    <3>4. MoreUrgent(nodes, Ranked[j], Ranked[i])
      BY <2>4, <3>1, <3>2, <3>3, NeedIsUrgency
    <3>5. j < i
      BY <3>1, <3>4, RankingTrue
    <3>6. j \in 1..m
      BY <1>0, <2>1, <3>1, <3>5
    <3> QED
      BY <2>1, <3>2, <3>6
  <2> QED
    BY <2>3, <2>4 DEF plan
<1>2. ASSUME NEW d \in Days, NEW e \in Days, Nearer(d, e)
      PROVE  LET later == WeeklyPlan(nodes, e) IN
             /\ IsPrefix(later, WeeklyPlan(nodes, d))
             /\ \A s \in ToSet(later) : Questions(nodes, e, s) <= Questions(nodes, d, s)
             /\ PlanMinutes(nodes, e) <= PlanMinutes(nodes, d)
  <2>1. /\ PlanScale(e).slots <= PlanScale(d).slots
        /\ PlanScale(e).questions <= PlanScale(d).questions
    BY <1>2, ScaleGrows
  <2>2. PlanScale(d).slots \in {3, 5, 7} /\ PlanScale(e).slots \in {3, 5, 7}
    BY PlanIs
  <2>3. PlanSize(e) <= PlanSize(d)
    BY <1>0, <2>1, <2>2 DEF PlanSize
  <2> DEFINE p == WeeklyPlan(nodes, d)
             q == WeeklyPlan(nodes, e)
             m == PlanSize(e)
  <2>4. /\ Len(q) = m /\ Len(p) = PlanSize(d) /\ m \in 0..Cardinality(Skills)
        /\ PlanSize(d) \in 0..Cardinality(Skills)
        /\ q \in Seq(Skills) /\ p \in Seq(Skills)
        /\ \A i \in 1..m : q[i] = Ranked[i]
        /\ \A i \in 1..PlanSize(d) : p[i] = Ranked[i]
    BY PlanIs
  <2>5. SubSeq(q, 1, Len(q)) = SubSeq(p, 1, Len(q))
    <3> HIDE DEF p, q, m
    <3>1. \A i \in 1..m : q[i] \in Skills /\ p[i] \in Skills /\ q[i] = p[i]
      <4> TAKE i \in 1..m
      <4>1. i \in 1..Len(q) /\ i \in 1..Len(p) /\ i \in 1..PlanSize(d)
        BY <1>0, <2>3, <2>4 DEF m
      <4> QED
        BY <2>4, <4>1, ElementOfSeq DEF m
    <3> DEFINE a == SubSeq(q, 1, m)
               b == SubSeq(p, 1, m)
    <3>2. /\ a \in Seq(Skills) /\ Len(a) = IF 1 <= m THEN m - 1 + 1 ELSE 0
          /\ \A i \in 1..(m - 1 + 1) : a[i] = q[1 + i - 1]
      <4>1. 1 \in Int /\ m \in Int /\ \A i \in 1..m : q[i] \in Skills
        BY <1>0, <2>4, <3>1
      <4> QED
        BY <4>1, SubSeqProperties
    <3>3. /\ b \in Seq(Skills) /\ Len(b) = IF 1 <= m THEN m - 1 + 1 ELSE 0
          /\ \A i \in 1..(m - 1 + 1) : b[i] = p[1 + i - 1]
      <4>1. 1 \in Int /\ m \in Int /\ \A i \in 1..m : p[i] \in Skills
        BY <1>0, <2>4, <3>1
      <4> QED
        BY <4>1, SubSeqProperties
    <3> HIDE DEF a, b
    <3>4. m \in Nat /\ Len(a) = m /\ Len(b) = m
      BY <1>0, <2>4, <3>2, <3>3
    <3>5. ASSUME NEW i \in 1..m PROVE a[i] = b[i]
      <4>1. i \in 1..(m - 1 + 1) /\ 1 + i - 1 = i
        BY <3>4
      <4> QED
        BY <3>1, <3>2, <3>3, <4>1
    <3>6. a = b
      BY <3>2, <3>3, <3>4, <3>5, SeqEqual
    <3> QED
      BY <2>4, <3>6 DEF a, b
  <2>6. IsPrefix(q, p)
    BY <2>3, <2>4, <2>5 DEF IsPrefix
  <2>7. /\ \A s : Questions(nodes, e, s) <= Questions(nodes, d, s)
        /\ PlanMinutes(nodes, e) <= PlanMinutes(nodes, d)
    BY <2>1, <2>3, MinutesGrow
  <2> QED
    BY <2>6, <2>7
<1>3. ASSUME NEW d \in Days, DaysUntil(d) = None
      PROVE  /\ WeeklyPlan(nodes, d) = WeeklyPlan(nodes, None)
             /\ PlanMinutes(nodes, d) = PlanMinutes(nodes, None)
  <2>1. d \notin 0..7 /\ d \notin 8..21 /\ None \notin 0..7 /\ None \notin 8..21
    <3>1. ~ (d \in Int /\ d >= 0)
      BY <1>3, ScaleOf
    <3> QED
      BY <3>1, ProgressAssumption
  <2>2. PlanScale(d) = PlanScale(None)
    BY <2>1, ScaleOf
  <2>3. \A s : Questions(nodes, d, s) = Questions(nodes, None, s)
    BY <2>2 DEF Questions
  <2>4. WeeklyPlan(nodes, d) = WeeklyPlan(nodes, None)
    BY <2>2 DEF WeeklyPlan
  <2> QED
    BY <2>3, <2>4 DEF PlanMinutes
<1> QED
  BY <1>1, <1>2, <1>3 DEF PlanFitsNeed

-------------------------------------------------------------------------------
(* Progress: averages *)

LEMMA Products ==
    ASSUME NEW a \in Int, NEW b \in Int, NEW n \in Int
    PROVE  /\ a * n \in Int /\ a * n = n * a
           /\ n >= 0 /\ a <= b => a * n <= b * n
           /\ n > 0 /\ a < b => a * n < b * n
           /\ n > 0 /\ a * n <= b * n => a <= b
           /\ n > 0 /\ a * n = b * n => a = b
OBVIOUS

\* What is shown is a nearest integer, and even when two are as near.
NearestTo(x, n, t) ==
    /\ t \in Int
    /\ (2 * t - 1) * n <= 2 * x /\ 2 * x <= (2 * t + 1) * n
    /\ 2 * x = (2 * t - 1) * n \/ 2 * x = (2 * t + 1) * n => t % 2 = 0

LEMMA RoundedNearest ==
    ASSUME NEW x \in Int, NEW n \in Nat, n > 0
    PROVE  NearestTo(x, n, Rounded(x, n))
<1> DEFINE a == 2 * x + n
           d == 2 * n
           q == a \div d
           r == a % d
<1>1. a \in Int /\ d \in Nat /\ d > 0
  OBVIOUS
<1>2. q \in Int /\ r \in 0..(d - 1) /\ a = d * q + r
  BY <1>1
<1>3. Rounded(x, n) = IF r = 0 /\ q % 2 = 1 THEN q - 1 ELSE q
  BY DEF Rounded
<1>4. d * q = 2 * (q * n)
  BY <1>2
<1>5. q * n \in Int
  BY <1>2
<1> HIDE DEF q, r
<1>6. 2 * x + n = 2 * (q * n) + r /\ r \in 0..(2 * n - 1)
  BY <1>2, <1>4
<1>7. CASE r = 0 /\ q % 2 = 1
  <2>1. (2 * (q - 1) + 1) * n = 2 * (q * n) - n /\ (2 * (q - 1) - 1) * n = 2 * (q * n) - 3 * n
    BY <1>2
  <2>2. (q - 1) % 2 = 0
    BY <1>2, <1>7
  <2>3. Rounded(x, n) = q - 1
    BY <1>3, <1>7
  <2> QED
    BY <1>2, <1>5, <1>6, <1>7, <2>1, <2>2, <2>3 DEF NearestTo
<1>8. CASE ~ (r = 0 /\ q % 2 = 1)
  <2>1. (2 * q + 1) * n = 2 * (q * n) + n /\ (2 * q - 1) * n = 2 * (q * n) - n
    BY <1>2
  <2>2. Rounded(x, n) = q
    BY <1>3, <1>8
  <2>3. r = 0 => q % 2 = 0
    BY <1>2, <1>8
  <2> QED
    BY <1>2, <1>5, <1>6, <2>1, <2>2, <2>3 DEF NearestTo
<1> QED
  BY <1>7, <1>8

\* The same of tenths.
Nearest(s, n, t) ==
    /\ t \in Int
    /\ (2 * t - 1) * n <= 20 * s /\ 20 * s <= (2 * t + 1) * n
    /\ 20 * s = (2 * t - 1) * n \/ 20 * s = (2 * t + 1) * n => t % 2 = 0

LEMMA TenthsNearest ==
    ASSUME NEW s \in Int, NEW n \in Nat, n > 0
    PROVE  Nearest(s, n, Tenths(s, n))
<1> DEFINE x == 10 * s
<1>1. x \in Int /\ 2 * x = 20 * s
  OBVIOUS
<1>2. Tenths(s, n) = Rounded(x, n)
  BY DEF Tenths
<1> HIDE DEF x
<1>3. NearestTo(x, n, Rounded(x, n))
  BY <1>1, RoundedNearest
<1> QED
  BY <1>1, <1>2, <1>3 DEF NearestTo, Nearest

\* Whole points and tenths of one average are half a point apart at most.
LEMMA PointsNearTenths ==
    ASSUME NEW s \in Int, NEW n \in Nat, n > 0
    PROVE  10 * Points(s, n) - Tenths(s, n) \in -5..5
<1> DEFINE p == Points(s, n)
           t == Tenths(s, n)
<1>1. p \in Int /\ (2 * p - 1) * n <= 2 * s /\ 2 * s <= (2 * p + 1) * n
  BY RoundedNearest DEF NearestTo, Points
<1>2. t \in Int /\ (2 * t - 1) * n <= 20 * s /\ 20 * s <= (2 * t + 1) * n
  BY TenthsNearest DEF Nearest
<1> HIDE DEF p, t
<1>3. /\ (20 * p - 10) * n = 10 * ((2 * p - 1) * n)
      /\ (20 * p + 10) * n = 10 * ((2 * p + 1) * n)
      /\ (2 * p - 1) * n \in Int /\ (2 * p + 1) * n \in Int
      /\ (2 * t - 1) * n \in Int /\ (2 * t + 1) * n \in Int
  BY <1>1, <1>2
<1>4. (20 * p - 10) * n <= (2 * t + 1) * n /\ (2 * t - 1) * n <= (20 * p + 10) * n
  BY <1>1, <1>2, <1>3
<1>5. 20 * p - 10 <= 2 * t + 1 /\ 2 * t - 1 <= 20 * p + 10
  BY <1>1, <1>2, <1>4, Products
<1>6. 10 * p - t \in -5..5
  BY <1>1, <1>2, <1>5
<1> QED
  BY <1>6 DEF p, t

\* The tenths of an average between two numbers are between theirs.
LEMMA TenthsBetween ==
    ASSUME NEW s \in Int, NEW n \in Nat, n > 0, NEW low \in Int, NEW high \in Int,
           low * n <= s, s <= high * n
    PROVE  Tenths(s, n) \in (10 * low)..(10 * high)
<1> DEFINE t == Tenths(s, n)
<1>1. /\ t \in Int
      /\ (2 * t - 1) * n <= 20 * s /\ 20 * s <= (2 * t + 1) * n
  BY TenthsNearest DEF Nearest
<1> HIDE DEF t
<1>2. low * n \in Int /\ high * n \in Int /\ (2 * t + 1) * n \in Int /\ (2 * t - 1) * n \in Int
  BY <1>1
<1>3. (20 * low) * n = 20 * (low * n) /\ (20 * high) * n = 20 * (high * n)
  OBVIOUS
<1>4. (20 * low) * n <= (2 * t + 1) * n /\ (2 * t - 1) * n <= (20 * high) * n
  BY <1>1, <1>2, <1>3
<1>5. 20 * low <= 2 * t + 1 /\ 2 * t - 1 <= 20 * high
  BY <1>1, <1>4, Products
<1> QED
  BY <1>1, <1>5 DEF t

\* The lower average is not shown as the higher.
LEMMA TenthsGrow ==
    ASSUME NEW s \in Int, NEW n \in Nat, n > 0, NEW v \in Int, NEW m \in Nat, m > 0,
           s * m <= v * n
    PROVE  Tenths(s, n) <= Tenths(v, m)
<1> DEFINE t == Tenths(s, n)
           u == Tenths(v, m)
<1>1. Nearest(s, n, t) /\ Nearest(v, m, u)
  BY TenthsNearest
<1> HIDE DEF t, u
<1>2. t \in Int /\ u \in Int
  BY <1>1 DEF Nearest
<1>3. ASSUME t >= u + 1 PROVE FALSE
  <2>1. (2 * t - 1) * n <= 20 * s /\ 20 * v <= (2 * u + 1) * m
    BY <1>1 DEF Nearest
  <2>2. 2 * u + 1 <= 2 * t - 1
    BY <1>2, <1>3
  <2>3. (2 * u + 1) * n <= (2 * t - 1) * n
    BY <1>2, <2>2, Products
  <2> DEFINE x == (2 * u + 1) * n
             y == (2 * t - 1) * n
             z == (2 * u + 1) * m
  <2>4. x \in Int /\ y \in Int /\ z \in Int /\ x * m = z * n
    BY <1>2
  <2>5. 20 * (s * m) = (20 * s) * m /\ 20 * (v * n) = (20 * v) * n /\ s * m \in Int /\ v * n \in Int
    OBVIOUS
  <2> HIDE DEF x, y, z
  <2>6. x <= y /\ y <= 20 * s /\ 20 * v <= z
    BY <2>1, <2>3 DEF x, y, z
  <2>7. x * m <= y * m /\ y * m <= (20 * s) * m /\ (20 * v) * n <= z * n
    BY <2>4, <2>6, Products
  <2>8. x * m \in Int /\ y * m \in Int /\ (20 * s) * m \in Int /\ (20 * v) * n \in Int /\ z * n \in Int
    BY <2>4
  <2>9. x * m = y * m /\ y * m = (20 * s) * m /\ (20 * v) * n = z * n
    BY <2>4, <2>5, <2>7, <2>8
  <2>10. x = y /\ y = 20 * s /\ 20 * v = z
    BY <2>4, <2>9, Products
  <2>11. 2 * u + 1 = 2 * t - 1
    BY <1>2, <2>10, Products DEF x, y
  <2>12. t % 2 = 0 /\ u % 2 = 0
    BY <1>1, <2>10 DEF Nearest, y, z
  <2> QED
    BY <1>2, <2>11, <2>12
<1> QED
  BY <1>2, <1>3 DEF t, u

\* A total lies between the least and the greatest value taken as often.
LEMMA TotalBetween ==
    ASSUME NEW S, IsFiniteSet(S), NEW f \in [S -> Int], NEW low \in Int, NEW high \in Int,
           \A x \in S : low <= f[x] /\ f[x] <= high
    PROVE  low * Cardinality(S) <= Total(f) /\ Total(f) <= high * Cardinality(S)
<1> DEFINE On(t) == [x \in t |-> f[x]]
           W == {t \in SUBSET S : /\ low * Cardinality(t) <= Total(On(t))
                                  /\ Total(On(t)) <= high * Cardinality(t)}
<1>0. \A t \in SUBSET S : IsFiniteSet(t) /\ Cardinality(t) \in Nat
  BY FS_Subset, FS_CardinalityType
<1>1. ASSUME NEW t \in SUBSET S, \A u \in SUBSET t : u # t => u \in W PROVE t \in W
  <2>1. On(t) \in [t -> Int]
    OBVIOUS
  <2>2. CASE t = {}
    <3>1. Cardinality(t) = 0
      BY <2>2, FS_EmptySet
    <3>2. Total(On(t)) = 0
      <4> HIDE DEF On
      <4> QED
        BY <1>0, <2>1, <2>2, TotalSplit
    <3> QED
      BY <3>1, <3>2
  <2>3. CASE t # {}
    <3>1. PICK y \in t : TRUE
      BY <2>3
    <3> DEFINE u == t \ {y}
    <3>2. Without(On(t), y) = On(u)
      BY DEF Without
    <3>3. u \in W
      BY <1>1, <3>1
    <3>4. Total(On(t)) = Total(On(u)) + f[y]
      <4>1. SplitsAt(On(t), y)
        <5> HIDE DEF On
        <5> QED
          BY <1>0, <2>1, <3>1, TotalSplit
      <4> QED
        BY <3>1, <3>2, <4>1 DEF SplitsAt
    <3>5. Cardinality(u) = Cardinality(t) - 1
      BY <1>0, <3>1, FS_RemoveElement
    <3>6. Total(On(u)) \in Int
      <4>1. On(u) \in [u -> Int] /\ IsFiniteSet(u)
        BY <1>0
      <4> HIDE DEF On, u
      <4> QED
        BY <4>1, TotalSplit
    <3>7. /\ low * Cardinality(u) <= Total(On(u)) /\ Total(On(u)) <= high * Cardinality(u)
          /\ low <= f[y] /\ f[y] <= high /\ f[y] \in Int
      BY <3>1, <3>3
    <3>8. Cardinality(t) \in Nat
      BY <1>0
    <3> HIDE DEF On, u
    <3>9. /\ low * (Cardinality(t) - 1) = low * Cardinality(t) - low
          /\ high * (Cardinality(t) - 1) = high * Cardinality(t) - high
          /\ low * Cardinality(t) \in Int /\ high * Cardinality(t) \in Int
      BY <3>8
    <3>10. low * Cardinality(t) <= Total(On(t)) /\ Total(On(t)) <= high * Cardinality(t)
      BY <3>4, <3>5, <3>6, <3>7, <3>9
    <3> QED
      BY <3>10
  <2> QED
    BY <2>2, <2>3
<1> HIDE DEF W
<1>2. S \in W
  BY <1>1, SubsetInduction
<1>3. On(S) = f
  OBVIOUS
<1> QED
  BY <1>2, <1>3 DEF W

-------------------------------------------------------------------------------
(* Progress: readiness *)

LEMMA SkillsPresent ==
    ASSUME ProgressInit, nodes # <<>>
    PROVE  Cardinality(Skills) > 0
<1>1. PICK k \in 0..SkillCount : nodes \in [1..k -> Node]
  BY DEF ProgressInit
<1>2. k \in Nat
  BY <1>1, ProgressAssumption
<1>3. nodes \in Seq(Node)
  BY <1>1, <1>2, IsASeq
<1>4. Len(nodes) # 0
  BY <1>3, EmptySeq
<1>5. DOMAIN nodes = 1..Len(nodes) /\ Len(nodes) \in Nat
  BY <1>3, LenProperties
<1>6. Skills # {}
  BY <1>4, <1>5 DEF Skills
<1> QED
  BY <1>6, SkillsAre, FS_EmptySet

\* The scores of a part of the skills.
LEMMA ScoresOf ==
    ASSUME ProgressInit, NEW part \in SUBSET Skills
    PROVE  /\ IsFiniteSet(part) /\ Cardinality(part) \in Nat
           /\ [s \in part |-> nodes[s].score] \in [part -> Int]
           /\ \A s \in part : 0 <= nodes[s].score /\ nodes[s].score <= 100
           /\ Total([s \in part |-> nodes[s].score]) \in Int
           /\ Total([s \in part |-> nodes[s].score]) >= 0
           /\ Total([s \in part |-> nodes[s].score]) <= 100 * Cardinality(part)
<1> DEFINE f == [s \in part |-> nodes[s].score]
<1>1. IsFiniteSet(part) /\ Cardinality(part) \in Nat
  BY SkillsAre, FS_Subset, FS_CardinalityType
<1>2. \A s \in part : nodes[s].score \in 0..100
  BY SkillsAre, UrgencyParts
<1>3. f \in [part -> Int] /\ \A s \in part : 0 <= f[s] /\ f[s] <= 100
  BY <1>2
<1> HIDE DEF f
<1>4. 0 * Cardinality(part) <= Total(f) /\ Total(f) <= 100 * Cardinality(part)
  BY <1>1, <1>3, TotalBetween
<1>5. Total(f) \in Int
  BY <1>1, <1>3, TotalSplit
<1> QED
  BY <1>1, <1>2, <1>3, <1>4, <1>5 DEF f

LEMMA MeanSkillIs ==
    ASSUME ProgressInit, nodes # <<>>
    PROVE  /\ MeanSkill(nodes) = Tenths(Total([s \in Skills |-> nodes[s].score]), Cardinality(Skills))
           /\ MeanSkill(nodes) \in 0..1000
<1>1. MeanSkill(nodes) = Tenths(Total([s \in Skills |-> nodes[s].score]), Cardinality(Skills))
  BY DEF MeanSkill, ScoreOf, Skills
<1> DEFINE t == Total([s \in Skills |-> nodes[s].score])
           n == Cardinality(Skills)
<1>2. t \in Int /\ t >= 0 /\ t <= 100 * n /\ n \in Nat /\ n > 0
  BY ScoresOf, SkillsPresent
<1> HIDE DEF t, n
<1>3. 0 * n <= t /\ t <= 100 * n
  BY <1>2
<1>4. ASSUME NEW low \in Int, NEW high \in Int, low = 0, high = 100
      PROVE  Tenths(t, n) \in (10 * low)..(10 * high)
  <2>1. low * n <= t /\ t <= high * n
    BY <1>3, <1>4
  <2> QED
    BY <1>2, <2>1, TenthsBetween
<1>5. Tenths(t, n) \in 0..1000
  <2>1. 0 \in Int /\ 100 \in Int
    OBVIOUS
  <2>2. Tenths(t, n) \in (10 * 0)..(10 * 100)
    BY <1>4, <2>1
  <2> QED
    BY <2>2
<1> QED
  BY <1>1, <1>5 DEF t, n

\* The completed sessions are a part of the list.
LEMMA CompletedIs ==
    ASSUME NEW list \in Seq(Session)
    PROVE  /\ Completed(list) \in Seq(Session) /\ Len(Completed(list)) <= Len(list)
           /\ DOMAIN Completed(list) = 1..Len(Completed(list))
<1> DEFINE done == {i \in DOMAIN list : list[i].status = "completed"}
           R == {p \in done \X done : p[1] < p[2]}
           order == Listed(done, R)
<1>1. /\ DOMAIN list = 1..Len(list) /\ Len(list) \in Nat
      /\ \A i \in 1..Len(list) : list[i] \in Session
  BY LenProperties, ElementOfSeq
<1>2. IsFiniteSet(1..Len(list)) /\ Cardinality(1..Len(list)) = Len(list)
  <2>1. PICK n \in Nat : n = Len(list)
    BY <1>1
  <2>2. IsFiniteSet(1..n) /\ Cardinality(1..n) = IF 1 > n THEN 0 ELSE n - 1 + 1
    BY FS_Interval
  <2> QED
    BY <2>1, <2>2
<1>3. done \in SUBSET (1..Len(list))
  BY <1>1
<1>4. /\ \A i \in done : i \in Nat
      /\ \A i, j \in done : <<i, j>> \in R <=> i < j
  BY <1>1
<1>5. Completed(list) = [p \in DOMAIN order |-> list[order[p]]]
  BY DEF Completed
<1> HIDE DEF done, R
<1>6. IsFiniteSet(done) /\ Cardinality(done) <= Len(list) /\ Cardinality(done) \in Nat
  BY <1>2, <1>3, FS_Subset, FS_CardinalityType
<1>7. StrictOrder(done, R)
  BY <1>4 DEF StrictOrder
<1>8. DOMAIN order = 1..Cardinality(done) /\ \A p \in 1..Cardinality(done) : order[p] \in done
  BY <1>6, <1>7, ListedInOrder
<1> HIDE DEF order
<1>9. Completed(list) \in [1..Cardinality(done) -> Session]
  <2>1. \A p \in 1..Cardinality(done) : order[p] \in 1..Len(list)
    BY <1>3, <1>8
  <2> QED
    BY <1>1, <1>5, <1>8, <2>1
<1>10. Completed(list) \in Seq(Session) /\ Len(Completed(list)) = Cardinality(done)
  BY <1>6, <1>9, IsASeq, LenProperties
<1> QED
  BY <1>6, <1>10, LenProperties

LEMMA ReadinessTrue == ASSUME ProgressInit PROVE ReadinessAgrees
<1> SUFFICES ASSUME nodes # <<>>, NEW list \in Histories, NEW stories \in {0, 1, 6}
             PROVE  LET shown == DashboardReadiness(nodes, list, stories) IN
                    /\ shown \in 0..100
                    /\ CardReadiness(nodes, list) \in 0..shown
                    /\ stories = 0 /\ Completed(list) = list => CardReadiness(nodes, list) = shown
  BY DEF ReadinessAgrees
<1> DEFINE base == (6 * MeanSkill(nodes)) \div 100
           n == Len(list)
           m == Len(Completed(list))
<1>1. list \in Seq(Session)
  BY ProgressAssumption
<1>2. n \in Nat /\ m \in Nat /\ m <= n
  BY <1>1, CompletedIs, LenProperties
<1>3. base \in 0..60
  <2>1. PICK y \in 0..1000 : y = MeanSkill(nodes)
    BY MeanSkillIs
  <2>2. (6 * y) \div 100 \in 0..60
    OBVIOUS
  <2> QED
    BY <2>1, <2>2
<1>4. /\ DashboardReadiness(nodes, list, stories)
            = Min({100, base + (Min({30, 3 * n}) + Min({10, 2 * stories}))})
      /\ CardReadiness(nodes, list) = Min({100, base + Min({30, 3 * m})})
  BY DEF DashboardReadiness, CardReadiness, Readiness
<1>5. Completed(list) = list => m = n
  OBVIOUS
<1> HIDE DEF base, n, m
<1>6. /\ \A y \in Int : Min({30, y}) = IF 30 <= y THEN 30 ELSE y
      /\ \A y \in Int : Min({10, y}) = IF 10 <= y THEN 10 ELSE y
      /\ \A y \in Int : Min({100, y}) = IF 100 <= y THEN 100 ELSE y
  BY LeastAndMost
<1>7. PICK x \in Int : x = Min({30, 3 * n}) /\ x = IF 10 <= n THEN 30 ELSE 3 * n
  <2>1. PICK y \in Int : y = 3 * n
    BY <1>2
  <2>2. Min({30, y}) = IF 30 <= y THEN 30 ELSE y
    BY <1>6
  <2> QED
    BY <1>2, <2>1, <2>2
<1>8. PICK z \in Int : z = Min({30, 3 * m}) /\ z = IF 10 <= m THEN 30 ELSE 3 * m
  <2>1. PICK y \in Int : y = 3 * m
    BY <1>2
  <2>2. Min({30, y}) = IF 30 <= y THEN 30 ELSE y
    BY <1>6
  <2> QED
    BY <1>2, <2>1, <2>2
<1>9. PICK w \in Int : w = Min({10, 2 * stories}) /\ w \in 0..10 /\ (stories = 0 => w = 0)
  <2>1. PICK y \in Int : y = 2 * stories
    OBVIOUS
  <2>2. Min({10, y}) = IF 10 <= y THEN 10 ELSE y
    BY <1>6
  <2> QED
    BY <2>1, <2>2
<1>10. PICK p \in Int : p = base + (x + w)
  BY <1>3
<1>11. PICK q \in Int : q = base + z
  BY <1>3
<1>12. DashboardReadiness(nodes, list, stories) = IF 100 <= p THEN 100 ELSE p
  <2>1. DashboardReadiness(nodes, list, stories) = Min({100, p})
    BY <1>4, <1>7, <1>9, <1>10
  <2> QED
    BY <1>6, <2>1
<1>13. CardReadiness(nodes, list) = IF 100 <= q THEN 100 ELSE q
  <2>1. CardReadiness(nodes, list) = Min({100, q})
    BY <1>4, <1>8, <1>11
  <2> QED
    BY <1>6, <2>1
<1>14. 0 <= z /\ z <= x
  BY <1>2, <1>7, <1>8
<1>15. q <= p /\ 0 <= q
  BY <1>3, <1>9, <1>10, <1>11, <1>14
<1>16. stories = 0 /\ Completed(list) = list => q = p
  BY <1>5, <1>7, <1>8, <1>9, <1>10, <1>11, <1>3
<1> QED
  BY <1>12, <1>13, <1>15, <1>16

-------------------------------------------------------------------------------
(* Progress: the averages agree *)

\* The total of two parts without a common element is the total of both.
LEMMA TotalUnion ==
    ASSUME NEW S, IsFiniteSet(S), NEW f \in [S -> Int], NEW A \in SUBSET S, NEW B \in SUBSET S,
           A \cap B = {}
    PROVE  Total([x \in A \cup B |-> f[x]]) = Total([x \in A |-> f[x]]) + Total([x \in B |-> f[x]])
<1> DEFINE On(t) == [x \in t |-> f[x]]
           W == {t \in SUBSET B : Total(On(A \cup t)) = Total(On(A)) + Total(On(t))}
<1>0. IsFiniteSet(B) /\ \A t \in SUBSET S : IsFiniteSet(t)
  BY FS_Subset
<1>1. \A t \in SUBSET S : /\ Total(On(t)) \in Int /\ (t = {} => Total(On(t)) = 0)
                          /\ \A y \in t : SplitsAt(On(t), y)
  <2> SUFFICES ASSUME NEW t \in SUBSET S
               PROVE  /\ Total(On(t)) \in Int /\ (t = {} => Total(On(t)) = 0)
                      /\ \A y \in t : SplitsAt(On(t), y)
    OBVIOUS
  <2>1. On(t) \in [t -> Int]
    OBVIOUS
  <2> HIDE DEF On
  <2> QED
    BY <1>0, <2>1, TotalSplit
<1>2. \A t \in SUBSET S : \A y \in t :
        Without(On(t), y) = On(t \ {y}) /\ On(t)[y] = f[y] /\ f[y] \in Int
  BY DEF Without
<1> HIDE DEF On
<1>3. \A t \in SUBSET S : \A y \in t : Total(On(t)) = Total(On(t \ {y})) + f[y]
  <2> SUFFICES ASSUME NEW t \in SUBSET S, NEW y \in t PROVE Total(On(t)) = Total(On(t \ {y})) + f[y]
    OBVIOUS
  <2>1. SplitsAt(On(t), y) /\ Without(On(t), y) = On(t \ {y}) /\ On(t)[y] = f[y]
    BY <1>1, <1>2
  <2> QED
    BY <2>1 DEF SplitsAt
<1>4. ASSUME NEW t \in SUBSET B, \A u \in SUBSET t : u # t => u \in W PROVE t \in W
  <2>1. CASE t = {}
    <3>1. A \cup t = A
      BY <2>1
    <3>2. Total(On(t)) = 0 /\ Total(On(A)) \in Int
      BY <1>1, <2>1
    <3>3. Total(On(A \cup t)) = Total(On(A)) + Total(On(t))
      BY <3>1, <3>2
    <3> QED
      BY <3>3
  <2>2. CASE t # {}
    <3>1. PICK y \in t : TRUE
      BY <2>2
    <3> DEFINE u == t \ {y}
    <3>2. Total(On(A \cup u)) = Total(On(A)) + Total(On(u))
      BY <1>4, <3>1
    <3>3. (A \cup t) \ {y} = A \cup u
      BY <3>1
    <3>4. A \cup t \in SUBSET S /\ y \in A \cup t /\ t \in SUBSET S /\ u \in SUBSET S
      BY <3>1
    <3> HIDE DEF u
    <3>5. Total(On(A \cup t)) = Total(On(A \cup u)) + f[y]
      BY <1>3, <3>3, <3>4
    <3>6. Total(On(t)) = Total(On(u)) + f[y]
      BY <1>3, <3>1, <3>4 DEF u
    <3>7. Total(On(A)) \in Int /\ Total(On(u)) \in Int /\ f[y] \in Int
      BY <1>1, <1>2, <3>4
    <3> QED
      BY <3>2, <3>5, <3>6, <3>7
  <2> QED
    BY <2>1, <2>2
<1> HIDE DEF W
<1>5. B \in W
  BY <1>0, <1>4, SubsetInduction
<1> QED
  BY <1>5 DEF W, On

\* A finite set of numbers that is not empty has a least and a greatest.
LEMMA LeastAndGreatest ==
    ASSUME NEW S \in SUBSET Nat, IsFiniteSet(S), S # {}
    PROVE  Min(S) \in Nat /\ Max(S) \in Nat /\ \A x \in S : Min(S) <= x /\ x <= Max(S)
<1>1. Min(S) \in S /\ \A x \in S : Min(S) <= x
  BY LeastNumber DEF Min
<1> DEFINE W == {t \in SUBSET S : t = {} \/ \E x \in t : \A y \in t : x >= y}
<1>2. ASSUME NEW t \in SUBSET S, \A u \in SUBSET t : u # t => u \in W PROVE t \in W
  <2> SUFFICES ASSUME t # {} PROVE \E x \in t : \A y \in t : x >= y
    OBVIOUS
  <2>1. PICK z \in t : TRUE
    OBVIOUS
  <2>2. t \ {z} \in W
    BY <1>2, <2>1
  <2>3. CASE t \ {z} = {}
    <3>1. \A y \in t : y = z /\ z \in Nat
      BY <2>3
    <3> QED
      BY <2>1, <3>1
  <2>4. CASE \E x \in t \ {z} : \A y \in t \ {z} : x >= y
    <3>1. PICK x \in t \ {z} : \A y \in t \ {z} : x >= y
      BY <2>4
    <3>2. x \in Nat /\ z \in Nat /\ \A y \in t : y \in Nat
      OBVIOUS
    <3>3. CASE x >= z
      <4>1. \A y \in t : x >= y
        BY <3>1, <3>3
      <4> QED
        BY <4>1
    <3>4. CASE z > x
      <4>1. \A y \in t : z >= y
        BY <3>1, <3>2, <3>4
      <4> QED
        BY <2>1, <4>1
    <3> QED
      BY <3>2, <3>3, <3>4
  <2> QED
    BY <2>2, <2>3, <2>4
<1> HIDE DEF W
<1>3. S \in W
  BY <1>2, SubsetInduction
<1>4. \E x \in S : \A y \in S : x >= y
  BY <1>3 DEF W
<1>5. Max(S) \in S /\ \A x \in S : Max(S) >= x
  BY <1>4 DEF Max
<1> QED
  BY <1>1, <1>5

\* The mean shown for a session lies between its scores.
LEMMA MeansBetween ==
    ASSUME NEW marks \in Seq(Nat), ToSet(marks) # {}
    PROVE  /\ marks # <<>>
           /\ Tenths(Total(marks), Len(marks)) \in (10 * Min(ToSet(marks)))..(10 * Max(ToSet(marks)))
<1> DEFINE n == Len(marks)
           S == ToSet(marks)
           low == Min(S)
           high == Max(S)
<1>1. n \in Nat /\ DOMAIN marks = 1..n /\ marks \in [1..n -> Nat]
  BY LenProperties
<1>2. S = {marks[i] : i \in 1..n}
  BY <1>1 DEF ToSet
<1>3. n > 0
  <2>1. 1..n # {}
    BY <1>2
  <2> HIDE DEF n
  <2> QED
    BY <1>1, <2>1
<1> HIDE DEF S, low, high
<1>4. marks # <<>>
  <2>1. Len(marks) # 0
    BY <1>3
  <2> QED
    BY <2>1, EmptySeq
<1> HIDE DEF n
<1>5. IsFiniteSet(1..n) /\ Cardinality(1..n) = n
  <2>1. Cardinality(1..n) = (IF 1 > n THEN 0 ELSE n - 1 + 1) /\ IsFiniteSet(1..n)
    BY <1>1, FS_Interval
  <2> QED
    BY <1>1, <1>3, <2>1
<1>6. S \in SUBSET Nat /\ S # {} /\ \A i \in 1..n : marks[i] \in S
  BY <1>1, <1>2 DEF S
<1>7. IsFiniteSet(S)
  <2> DEFINE f == [i \in 1..n |-> marks[i]]
  <2>1. S = {f[i] : i \in 1..n}
    BY <1>2
  <2>2. f \in Surjection(1..n, S)
    BY <1>2 DEF Surjection
  <2> HIDE DEF f
  <2> QED
    BY <1>5, <2>2, FS_Surjection
<1>8. low \in Nat /\ high \in Nat /\ \A x \in S : low <= x /\ x <= high
  BY <1>6, <1>7, LeastAndGreatest DEF low, high
<1>9. marks \in [1..n -> Int] /\ \A i \in 1..n : low <= marks[i] /\ marks[i] <= high
  BY <1>1, <1>6, <1>8
<1>10. /\ low * Cardinality(1..n) <= Total(marks) /\ Total(marks) <= high * Cardinality(1..n)
       /\ Total(marks) \in Int
  <2>1. low \in Int /\ high \in Int
    BY <1>8
  <2> QED
    BY <1>5, <1>9, <2>1, TotalBetween, TotalSplit
<1>11. Tenths(Total(marks), n) \in (10 * low)..(10 * high)
  <2>1. /\ low \in Int /\ high \in Int /\ n \in Nat /\ n > 0 /\ Total(marks) \in Int
        /\ low * n <= Total(marks) /\ Total(marks) <= high * n
    BY <1>1, <1>3, <1>5, <1>8, <1>10
  <2> QED
    BY <2>1, TenthsBetween
<1> QED
  BY <1>4, <1>11 DEF n, low, high, S

\* The scores of a part of the skills, and the nodes of it.
SumOf(part) == Total([s \in part |-> nodes[s].score])
Only(part) == [s \in part |-> nodes[s]]

LEMMA PartScores == \A part : ScoreOf(Only(part)) = [s \in part |-> nodes[s].score]
BY DEF ScoreOf, Only

LEMMA BelowIs ==
    ASSUME NEW a, NEW b
    PROVE  Below(Only(a), Only(b)) <=> SumOf(a) * Cardinality(b) < SumOf(b) * Cardinality(a)
<1>1. DOMAIN Only(a) = a /\ DOMAIN Only(b) = b
  BY DEF Only
<1> QED
  BY <1>1, PartScores DEF Below, SumOf

\* A category that no other is below is not above the average of any set of categories.
LEMMA WeakestBelowAll ==
    ASSUME ProgressInit, NEW c \in WeakestCategories(nodes)
    PROVE  CategoryMean(nodes, c) <= MeanSkill(nodes)
<1> DEFINE C == Categories(nodes)
           Of(d) == InCategory(nodes, d)
           All(D) == {s \in Skills : CategoryOf[s] \in D}
           W == {D \in SUBSET C : SumOf(Of(c)) * Cardinality(All(D)) <= SumOf(All(D)) * Cardinality(Of(c))}
<1>1. c \in C /\ \A d \in C : ~Below(Only(Of(d)), Only(Of(c)))
  BY DEF WeakestCategories, Only
<1>2. IsFiniteSet(C)
  <2> DEFINE f == [s \in Skills |-> CategoryOf[s]]
  <2>1. f \in Surjection(Skills, C)
    BY DEF Surjection, Categories, Skills
  <2> HIDE DEF f, C
  <2> QED
    BY <2>1, SkillsAre, FS_Surjection
<1>3. /\ \A d \in C : Of(d) \in SUBSET Skills /\ Of(d) = {s \in Skills : CategoryOf[s] = d} /\ Of(d) # {}
      /\ \A D : All(D) \in SUBSET Skills
      /\ All(C) = Skills /\ All({}) = {}
  BY DEF InCategory, Categories, Skills
<1>4. \A part \in SUBSET Skills : /\ SumOf(part) \in Int /\ Cardinality(part) \in Nat
                                  /\ IsFiniteSet(part)
                                  /\ SumOf(part) <= 100 * Cardinality(part) /\ SumOf(part) >= 0
  BY ScoresOf DEF SumOf
<1>5. \A part \in SUBSET Skills : part # {} => Cardinality(part) > 0
  BY <1>4, FS_EmptySet
<1> HIDE DEF Of
<1>6. ASSUME NEW d \in C
      PROVE  SumOf(Of(c)) * Cardinality(Of(d)) <= SumOf(Of(d)) * Cardinality(Of(c))
  <2>1. ~ (SumOf(Of(d)) * Cardinality(Of(c)) < SumOf(Of(c)) * Cardinality(Of(d)))
    BY <1>1, <1>6, BelowIs
  <2>2. /\ SumOf(Of(d)) \in Int /\ SumOf(Of(c)) \in Int
        /\ Cardinality(Of(c)) \in Int /\ Cardinality(Of(d)) \in Int
    BY <1>1, <1>3, <1>4, <1>6
  <2> QED
    BY <2>1, <2>2
<1>7. ASSUME NEW D \in SUBSET C, \A u \in SUBSET D : u # D => u \in W PROVE D \in W
  <2>1. CASE D = {}
    <3>1. SumOf(All(D)) = 0
      <4>1. SumOf({}) \in Int /\ SumOf({}) >= 0 /\ SumOf({}) <= 100 * Cardinality({})
        BY <1>4
      <4> HIDE DEF All
      <4> QED
        BY <1>3, <2>1, <4>1, FS_EmptySet
    <3>2. Cardinality(All(D)) = 0
      <4> HIDE DEF All
      <4> QED
        BY <1>3, <2>1, FS_EmptySet
    <3>3. SumOf(Of(c)) \in Int /\ Cardinality(Of(c)) \in Int
      BY <1>1, <1>3, <1>4
    <3>4. SumOf(Of(c)) * Cardinality(All(D)) <= SumOf(All(D)) * Cardinality(Of(c))
      BY <3>1, <3>2, <3>3
    <3> QED
      BY <3>4
  <2>2. CASE D # {}
    <3>1. PICK d \in D : TRUE
      BY <2>2
    <3> DEFINE E == D \ {d}
    <3>2. SumOf(Of(c)) * Cardinality(All(E)) <= SumOf(All(E)) * Cardinality(Of(c))
      BY <1>7, <3>1
    <3>3. All(D) = All(E) \cup Of(d) /\ All(E) \cap Of(d) = {}
      BY <1>3, <3>1
    <3>4. All(E) \in SUBSET Skills /\ Of(d) \in SUBSET Skills /\ All(D) \in SUBSET Skills
      BY <1>3, <3>1
    <3> HIDE DEF All
    <3>5. SumOf(All(D)) = SumOf(All(E)) + SumOf(Of(d))
      <4> DEFINE f == [s \in Skills |-> nodes[s].score]
      <4>1. f \in [Skills -> Int] /\ IsFiniteSet(Skills)
        BY ScoresOf
      <4>2. \A part \in SUBSET Skills : [s \in part |-> f[s]] = [s \in part |-> nodes[s].score]
        OBVIOUS
      <4> HIDE DEF f, E
      <4>3. Total([s \in All(E) \cup Of(d) |-> f[s]])
                = Total([s \in All(E) |-> f[s]]) + Total([s \in Of(d) |-> f[s]])
        <5>1. ASSUME NEW A \in SUBSET Skills, NEW B \in SUBSET Skills, A \cap B = {}
              PROVE  Total([s \in A \cup B |-> f[s]]) = Total([s \in A |-> f[s]]) + Total([s \in B |-> f[s]])
          BY <4>1, <5>1, TotalUnion
        <5> QED
          BY <3>3, <3>4, <5>1
      <4> QED
        BY <3>3, <3>4, <4>2, <4>3 DEF SumOf
    <3>6. Cardinality(All(D)) = Cardinality(All(E)) + Cardinality(Of(d))
      <4>1. IsFiniteSet(All(E)) /\ IsFiniteSet(Of(d)) /\ Cardinality(All(E) \cap Of(d)) = 0
        BY <1>4, <3>3, <3>4, FS_EmptySet
      <4>2. /\ Cardinality(All(E)) \in Nat /\ Cardinality(Of(d)) \in Nat
            /\ Cardinality(All(D)) = Cardinality(All(E)) + Cardinality(Of(d)) - Cardinality(All(E) \cap Of(d))
        BY <1>4, <3>3, <3>4, <4>1, FS_Union
      <4> QED
        BY <4>1, <4>2
    <3>7. SumOf(Of(c)) * Cardinality(Of(d)) <= SumOf(Of(d)) * Cardinality(Of(c))
      BY <1>6, <3>1
    <3> HIDE DEF E
    <3>8. PICK x \in Int, y \in Int, z \in Int, p \in Int, q \in Int, r \in Int :
             /\ x = SumOf(Of(c)) /\ y = SumOf(All(E)) /\ z = SumOf(Of(d))
             /\ p = Cardinality(Of(c)) /\ q = Cardinality(All(E)) /\ r = Cardinality(Of(d))
      <4>1. \A part \in SUBSET Skills : SumOf(part) \in Int /\ Cardinality(part) \in Int
        BY <1>4
      <4> QED
        BY <1>1, <1>3, <3>4, <4>1
    <3>9. x * q <= y * p /\ x * r <= z * p
      BY <3>2, <3>7, <3>8
    <3>10. x * (q + r) <= (y + z) * p
      BY <3>8, <3>9
    <3>11. SumOf(Of(c)) * Cardinality(All(D)) <= SumOf(All(D)) * Cardinality(Of(c))
      BY <3>5, <3>6, <3>8, <3>10
    <3> QED
      BY <3>11
  <2> QED
    BY <2>1, <2>2
<1> HIDE DEF W
<1>8. C \in W
  <2> HIDE DEF C
  <2> QED
    BY <1>2, <1>7, SubsetInduction
<1>9. SumOf(Of(c)) * Cardinality(Skills) <= SumOf(Skills) * Cardinality(Of(c))
  <2> HIDE DEF All
  <2> QED
    BY <1>3, <1>8 DEF W
<1>10. /\ SumOf(Of(c)) \in Int /\ SumOf(Skills) \in Int
       /\ Cardinality(Of(c)) \in Nat /\ Cardinality(Of(c)) > 0
       /\ Cardinality(Skills) \in Nat /\ Cardinality(Skills) > 0
  <2>1. Of(c) \in SUBSET Skills /\ Of(c) # {} /\ Skills \in SUBSET Skills /\ Skills # {}
    BY <1>1, <1>3
  <2> QED
    BY <1>4, <1>5, <2>1
<1>11. CategoryMean(nodes, c) = Tenths(SumOf(Of(c)), Cardinality(Of(c)))
  BY DEF CategoryMean, SumOf, Of
<1>12. MeanSkill(nodes) = Tenths(SumOf(Skills), Cardinality(Skills))
  BY DEF MeanSkill, SumOf, ScoreOf, Skills
<1> QED
  BY <1>9, <1>10, <1>11, <1>12, TenthsGrow

\* The scores of a list of sessions have a sum and a number.
LEMMA ScoresSummed ==
    ASSUME NEW list \in Seq(Session)
    PROVE  ScoreSum(list) \in Int /\ ScoreCount(list) \in Nat
<1>1. Len(list) \in Nat /\ DOMAIN list = 1..Len(list) /\ \A i \in 1..Len(list) : list[i] \in Session
  BY LenProperties, ElementOfSeq
<1>2. \A i \in 1..Len(list) : list[i].scores \in Seq(Nat)
  BY <1>1 DEF Session
<1>3. ASSUME NEW marks \in Seq(Nat) PROVE Total(marks) \in Int /\ Len(marks) \in Nat
  <2>1. Len(marks) \in Nat /\ marks \in [1..Len(marks) -> Int]
    BY LenProperties, ElementOfSeq
  <2>2. IsFiniteSet(1..Len(marks))
    BY <2>1, FS_Interval
  <2> QED
    BY <2>1, <2>2, TotalSplit
<1> DEFINE sums == [i \in DOMAIN list |-> Total(list[i].scores)]
           sizes == [i \in DOMAIN list |-> Len(list[i].scores)]
<1>4. sums \in [1..Len(list) -> Int] /\ sizes \in [1..Len(list) -> Nat]
  BY <1>1, <1>2, <1>3
<1>5. IsFiniteSet(1..Len(list))
  BY <1>1, FS_Interval
<1>6. ScoreSum(list) = Total(sums) /\ ScoreCount(list) = Total(sizes)
  BY DEF ScoreSum, ScoreCount
<1> HIDE DEF sums, sizes
<1>7. Total(sums) \in Int
  BY <1>4, <1>5, TotalSplit
<1>8. Total(sizes) \in Nat
  <2>1. SumOver(sizes) \in Nat
    BY <1>1, <1>4, SumStep
  <2>2. SumOver(sizes) = Total(sizes)
    BY DEF SumOver, Total
  <2> QED
    BY <2>1, <2>2
<1> QED
  BY <1>6, <1>7, <1>8

LEMMA MeansTrue == ASSUME ProgressInit PROVE MeansAgree
<1>1. ASSUME NEW list \in Histories, NEW i \in DOMAIN Completed(list),
             ToSet(Completed(list)[i].scores) # {}
      PROVE  PortfolioSummary(list)[i].mean \in 10 * Min(ToSet(Completed(list)[i].scores))
                                                   ..10 * Max(ToSet(Completed(list)[i].scores))
  <2> DEFINE marks == Completed(list)[i].scores
  <2>1. list \in Seq(Session)
    BY ProgressAssumption
  <2>2. marks \in Seq(Nat)
    <3>1. Completed(list) \in Seq(Session)
      BY <2>1, CompletedIs
    <3>2. i \in 1..Len(Completed(list))
      BY <3>1, LenProperties
    <3>3. Completed(list)[i] \in Session
      BY <3>1, <3>2, ElementOfSeq
    <3> QED
      BY <3>3 DEF Session
  <2>3. PortfolioSummary(list)[i].mean = IF marks = <<>> THEN None ELSE Tenths(Total(marks), Len(marks))
    BY DEF PortfolioSummary
  <2>4. ToSet(marks) # {}
    BY <1>1
  <2> HIDE DEF marks
  <2>5. /\ marks # <<>>
        /\ Tenths(Total(marks), Len(marks)) \in (10 * Min(ToSet(marks)))..(10 * Max(ToSet(marks)))
    BY <2>2, <2>4, MeansBetween
  <2>6. PortfolioSummary(list)[i].mean \in (10 * Min(ToSet(marks)))..(10 * Max(ToSet(marks)))
    BY <2>3, <2>5
  <2> QED
    BY <2>6 DEF marks
<1>2. ASSUME NEW list \in Histories, ScoreCount(list) > 0,
             ScoreCount(Completed(list)) = ScoreCount(list),
             ScoreSum(Completed(list)) = ScoreSum(list)
      PROVE  10 * DigestMean(list) - DashboardMean(list) \in -5..5
  <2>1. ScoreSum(list) \in Int /\ ScoreCount(list) \in Nat
    BY ScoresSummed, ProgressAssumption
  <2> QED
    BY <1>2, <2>1, PointsNearTenths DEF DigestMean, DashboardMean, MeanScore
<1>3. \A c \in WeakestCategories(nodes) : CategoryMean(nodes, c) <= MeanSkill(nodes)
  BY WeakestBelowAll
<1>4. SessionMeansAgree
  BY <1>1, <1>2 DEF SessionMeansAgree
<1> QED
  BY <1>3, <1>4 DEF MeansAgree

-------------------------------------------------------------------------------
(* Progress: the places in the benchmark *)

\* To be below is to be below by the product of sums and numbers, and that is transitive.
LEMMA CrossProducts ==
    ASSUME NEW x \in Int, NEW y \in Int, NEW z \in Int,
           NEW p \in Nat, NEW q \in Nat, NEW r \in Nat, p > 0, q > 0, r > 0,
           x * q < y * p, y * r < z * q
    PROVE  x * r < z * p
<1>1. (x * q) * r < (y * p) * r
  <2>1. x * q \in Int /\ y * p \in Int
    OBVIOUS
  <2> QED
    BY <2>1, Products
<1>2. (y * r) * p < (z * q) * p
  <2>1. y * r \in Int /\ z * q \in Int
    OBVIOUS
  <2> QED
    BY <2>1, Products
<1>3. /\ (x * q) * r = (x * r) * q /\ (y * p) * r = (y * r) * p /\ (z * q) * p = (z * p) * q
      /\ (x * r) * q \in Int /\ (y * r) * p \in Int /\ (z * p) * q \in Int
  OBVIOUS
<1>4. (x * r) * q < (z * p) * q
  BY <1>1, <1>2, <1>3
<1>5. ~ (z * p <= x * r)
  <2>1. x * r \in Int /\ z * p \in Int
    OBVIOUS
  <2> SUFFICES ASSUME z * p <= x * r PROVE FALSE
    OBVIOUS
  <2>2. (z * p) * q <= (x * r) * q
    BY <2>1, Products
  <2> QED
    BY <1>3, <1>4, <2>2
<1>6. x * r \in Int /\ z * p \in Int
  OBVIOUS
<1> QED
  BY <1>5, <1>6

\* A share of a whole, as a percentage: with more it is no less, and without all it is not all.
LEMMA Percentages ==
    ASSUME NEW a \in Nat, NEW b \in Nat, NEW n \in Nat, n > 0
    PROVE  /\ a <= b => (100 * a) \div n <= (100 * b) \div n
           /\ a < n => (100 * a) \div n < 100
           /\ (100 * a) \div n \in Int
<1> DEFINE x == (100 * a) \div n
           y == (100 * b) \div n
           u == (100 * a) % n
           v == (100 * b) % n
<1>1. /\ x \in Int /\ u \in 0..(n - 1) /\ 100 * a = n * x + u
      /\ y \in Int /\ v \in 0..(n - 1) /\ 100 * b = n * y + v
  OBVIOUS
<1> HIDE DEF x, y, u, v
<1>2. ASSUME a <= b PROVE x <= y
  <2> SUFFICES ASSUME y + 1 <= x PROVE FALSE
    BY <1>1
  <2>1. (y + 1) * n <= x * n /\ (y + 1) * n = n * y + n /\ x * n = n * x
    BY <1>1, Products
  <2>2. n * y \in Int /\ n * x \in Int
    BY <1>1
  <2> QED
    BY <1>1, <1>2, <2>1, <2>2
<1>3. ASSUME a < n PROVE x < 100
  <2> SUFFICES ASSUME 100 <= x PROVE FALSE
    BY <1>1
  <2>1. 100 * n <= x * n /\ x * n = n * x
    BY <1>1, Products
  <2>2. n * x \in Int
    BY <1>1
  <2> QED
    BY <1>1, <1>3, <2>1, <2>2
<1> QED
  BY <1>1, <1>2, <1>3 DEF x, y

\* In every pool of users with nodes, whoever has the better average has no worse a place, and
\* nobody is above all.
LEMMA PlacesTrue ==
    ASSUME NEW P, IsFiniteSet(P), NEW pool, DOMAIN pool = P,
           \A u \in P : /\ pool[u] # <<>> /\ Total(ScoreOf(pool[u])) \in Int
                        /\ Cardinality(DOMAIN pool[u]) \in Nat /\ Cardinality(DOMAIN pool[u]) > 0,
           NEW a \in P, NEW b \in P
    PROVE  /\ Below(pool[a], pool[b]) => Percentile(pool, a) <= Percentile(pool, b)
           /\ Percentile(pool, a) < 100
<1> DEFINE sum == [u \in P |-> Total(ScoreOf(pool[u]))]
           size == [u \in P |-> Cardinality(DOMAIN pool[u])]
           Lower(u) == {w \in P : Below(pool[w], pool[u])}
           n == Cardinality(P)
<1>1. \A u, w \in P : Below(pool[u], pool[w]) <=> sum[u] * size[w] < sum[w] * size[u]
  BY DEF Below
<1>2. \A u \in P : sum[u] \in Int /\ size[u] \in Nat /\ size[u] > 0
  OBVIOUS
<1>3. ASSUME NEW u \in P PROVE Percentile(pool, u) = (100 * Cardinality(Lower(u))) \div n
  <2>1. {w \in DOMAIN pool : pool[w] # <<>>} = P
    OBVIOUS
  <2> QED
    BY <2>1 DEF Percentile
<1> HIDE DEF sum, size
<1>4. ASSUME NEW u \in P PROVE u \notin Lower(u)
  <2>1. sum[u] * size[u] \in Int
    BY <1>2
  <2> QED
    BY <1>1, <2>1
<1>5. ASSUME Below(pool[a], pool[b]) PROVE Lower(a) \in SUBSET Lower(b)
  <2> SUFFICES ASSUME NEW w \in P, Below(pool[w], pool[a]) PROVE Below(pool[w], pool[b])
    OBVIOUS
  <2>1. sum[w] * size[a] < sum[a] * size[w] /\ sum[a] * size[b] < sum[b] * size[a]
    BY <1>1, <1>5
  <2>2. sum[w] * size[b] < sum[b] * size[w]
    BY <1>2, <2>1, CrossProducts
  <2> QED
    BY <1>1, <2>2
<1>6. Lower(a) \in SUBSET P /\ Lower(b) \in SUBSET P
  OBVIOUS
<1> HIDE DEF Lower
<1>7. /\ n \in Nat /\ n > 0 /\ IsFiniteSet(Lower(b))
      /\ Cardinality(Lower(a)) \in Nat /\ Cardinality(Lower(b)) \in Nat
  BY <1>6, FS_Subset, FS_CardinalityType, FS_EmptySet
<1>8. Cardinality(Lower(a)) < n
  <2>1. IsFiniteSet(P \ {a}) /\ Cardinality(P \ {a}) = n - 1
    BY FS_RemoveElement
  <2>2. Lower(a) \in SUBSET (P \ {a})
    BY <1>4, <1>6
  <2>3. Cardinality(Lower(a)) <= Cardinality(P \ {a})
    BY <2>1, <2>2, FS_Subset
  <2> QED
    BY <1>7, <2>1, <2>3
<1>9. Below(pool[a], pool[b]) => Cardinality(Lower(a)) <= Cardinality(Lower(b))
  BY <1>5, <1>7, FS_Subset
<1> HIDE DEF n
<1>10. /\ Percentile(pool, a) = (100 * Cardinality(Lower(a))) \div n
       /\ Percentile(pool, b) = (100 * Cardinality(Lower(b))) \div n
  BY <1>3
<1>11. PICK x \in Nat, y \in Nat : x = Cardinality(Lower(a)) /\ y = Cardinality(Lower(b))
  BY <1>7
<1>12. /\ x <= y => (100 * x) \div n <= (100 * y) \div n
       /\ x < n => (100 * x) \div n < 100
  BY <1>7, Percentages
<1> QED
  BY <1>8, <1>9, <1>10, <1>11, <1>12

LEMMA RanksTrue == ASSUME ProgressInit PROVE RanksAgree
<1> DEFINE P == {{s} : s \in DOMAIN nodes} \cup {1..k : k \in DOMAIN nodes}
           pool == [part \in P |-> [s \in part |-> nodes[s]]]
<1>1. P \subseteq SUBSET Skills /\ \A u \in P : u # {}
  <2>1. PICK n \in Nat : Skills = 1..n
    BY SkillsAre
  <2>2. \A k \in 1..n : 1..k \subseteq 1..n /\ 1 \in 1..k
    OBVIOUS
  <2> QED
    BY <2>1, <2>2 DEF Skills
<1>2. IsFiniteSet(P)
  <2> HIDE DEF P
  <2>1. IsFiniteSet(SUBSET Skills)
    BY SkillsAre, FS_SUBSET
  <2> QED
    BY <1>1, <2>1, FS_Subset
<1>3. DOMAIN pool = P /\ \A u \in P : pool[u] = Only(u)
  BY DEF Only
<1> HIDE DEF P, pool
<1>4. ASSUME NEW u \in P
      PROVE  /\ pool[u] # <<>> /\ Total(ScoreOf(pool[u])) \in Int
             /\ Cardinality(DOMAIN pool[u]) \in Nat /\ Cardinality(DOMAIN pool[u]) > 0
  <2>1. u \in SUBSET Skills /\ u # {} /\ pool[u] = Only(u) /\ DOMAIN Only(u) = u
    BY <1>1, <1>3 DEF Only
  <2>2. IsFiniteSet(u) /\ Cardinality(u) \in Nat /\ Total([s \in u |-> nodes[s].score]) \in Int
    BY <2>1, ScoresOf
  <2>3. ScoreOf(Only(u)) = [s \in u |-> nodes[s].score]
    BY PartScores
  <2>4. Only(u) # <<>>
    <3>1. DOMAIN <<>> = {}
      OBVIOUS
    <3> QED
      BY <2>1, <3>1
  <2> QED
    BY <2>1, <2>2, <2>3, <2>4, FS_EmptySet
<1>5. ASSUME NEW a \in P, NEW b \in P
      PROVE  /\ Below(pool[a], pool[b]) => Percentile(pool, a) <= Percentile(pool, b)
             /\ Percentile(pool, a) < 100
  BY <1>2, <1>3, <1>4, PlacesTrue
<1> QED
  BY <1>3, <1>5 DEF RanksAgree, P, pool

(* What a user is told agrees: the plan with the need, and the views with each other.  The nodes
   are those of any user, and the views do not change them. *)
THEOREM FiguresHold == ProgressSpec => []FiguresAgree
<1>1. ProgressInit => FiguresAgree
  BY PlanFits, ReadinessTrue, MeansTrue, RanksTrue DEF FiguresAgree
<1>2. ProgressInit /\ [FALSE]_nodes => ProgressInit'
  BY DEF ProgressInit
<1> QED
  BY <1>1, <1>2, PTL DEF ProgressSpec
====
