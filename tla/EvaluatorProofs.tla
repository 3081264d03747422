-------------------------- MODULE EvaluatorProofs ---------------------------
(***************************************************************************)
(* Proofs about what the search asks of a state.  Of StubbornSets: an      *)
(* operator with which a best plan starts is never pruned.  Of LmCut: the  *)
(* cuts are landmarks, the costs are hmax, and the estimate is at most the *)
(* cost of a plan.  Of Cegar: an abstraction has exactly the transitions   *)
(* of the task, and its distances are lower bounds.                        *)
(*                                                                         *)
(* All need to know what the distances of SasTask are, which is first.     *)
(***************************************************************************)
EXTENDS StubbornSets, LmCut, Cegar, RecursionLemmas, FiniteSetTheorems

-----------------------------------------------------------------------------
(* Least and largest numbers.                                              *)

LEMMA LeastIn ==
  ASSUME NEW S \in SUBSET Nat, S # {}
  PROVE  Least(S) \in S /\ \A k \in S : Least(S) <= k
<1>1. \E n \in S : \A k \in S : n <= k
  BY LeastNatural
<1>2. QED
  BY <1>1 DEF Least

LEMMA LargestIn ==
  ASSUME NEW b \in Nat, NEW S \in SUBSET (0 .. b), S # {}
  PROVE  Largest(S) \in S /\ \A k \in S : k <= Largest(S)
<1> DEFINE D == {n \in Nat : n <= b /\ b - n \in S}
<1>1. D \in SUBSET Nat
  OBVIOUS
<1>2. D # {}
  <2>1. PICK n \in S : TRUE
    OBVIOUS
  <2>2. b - n \in Nat /\ b - n <= b /\ b - (b - n) = n
    OBVIOUS
  <2>3. QED
    BY <2>1, <2>2
<1>3. PICK m \in D : \A n \in D : m <= n
  <2> HIDE DEF D
  <2>1. QED
    BY <1>1, <1>2, LeastNatural
<1>4. b - m \in S
  OBVIOUS
<1>5. ASSUME NEW k \in S
      PROVE  k <= b - m
  <2>1. b - k \in Nat /\ b - k <= b /\ b - (b - k) = k
    OBVIOUS
  <2>2. b - k \in D
    BY <2>1
  <2>3. m <= b - k
    BY <1>3, <2>2
  <2>4. QED
    BY <2>3
<1>6. \E n \in S : \A k \in S : k <= n
  BY <1>4, <1>5
<1>7. QED
  BY <1>6 DEF Largest

\* Functions on a finite set to natural numbers do not decrease for ever.
Below(S, f, g) == \A x \in S : f[x] <= g[x]

LEMMA MinimalFunction ==
  ASSUME NEW S, IsFiniteSet(S), NEW F \in SUBSET [S -> Nat], F # {}
  PROVE  \E f \in F : \A g \in F : Below(S, g, f) => g = f
<1>1. PICK n \in Nat : ExistsSurjection(1 .. n, S)
  BY FS_NatSurjection
<1>2. PICK e \in [1 .. n -> S] : \A x \in S : \E i \in 1 .. n : e[i] = x
  BY <1>1 DEF ExistsSurjection, Surjection, Range
<1> DEFINE Fixed(i, f) == \A g \in F : Below(S, g, f) => \A j \in 1 .. i : g[e[j]] = f[e[j]]
           A == {i \in 0 .. n : \E f \in F : Fixed(i, f)}
<1>3. 0 \in A
  <2>1. PICK f \in F : TRUE
    OBVIOUS
  <2>2. Fixed(0, f)
    OBVIOUS
  <2>3. QED
    BY <2>2
<1>4. \A i \in 0 .. n - 1 : i \in A => i + 1 \in A
  <2> SUFFICES ASSUME NEW i \in 0 .. n - 1, i \in A
               PROVE  i + 1 \in A
    OBVIOUS
  <2>1. PICK f \in F : Fixed(i, f)
    OBVIOUS
  <2> DEFINE y == e[i + 1]
             G == {g \in F : Below(S, g, f)}
             V == {g[y] : g \in G}
  <2>2. y \in S /\ i + 1 \in 1 .. n
    BY <1>2
  <2>3. f \in G
    BY DEF Below
  <2>4. V \in SUBSET Nat /\ V # {}
    BY <2>2, <2>3
  <2>5. PICK v \in V : \A w \in V : v <= w
    <3> HIDE DEF V
    <3>1. QED
      BY <2>4, LeastNatural
  <2>6. PICK g \in G : g[y] = v
    OBVIOUS
  <2>7. ASSUME NEW h \in F, Below(S, h, g), NEW j \in 1 .. i + 1
        PROVE  h[e[j]] = g[e[j]]
    <3>1. h \in [S -> Nat] /\ g \in [S -> Nat] /\ f \in [S -> Nat]
      OBVIOUS
    <3>2. Below(S, h, f)
      BY <2>6, <2>7, <3>1 DEF Below
    <3>3. CASE j = i + 1
      <4>1. h[y] \in V
        BY <3>2
      <4>2. v <= h[y] /\ h[y] <= g[y]
        BY <2>2, <2>5, <2>7, <4>1 DEF Below
      <4>3. h[y] \in Nat /\ g[y] \in Nat
        BY <2>2, <3>1
      <4>4. h[y] = g[y]
        <5>1. g[y] = v
          BY <2>6
        <5> HIDE DEF y, G, V
        <5>2. QED
          BY <5>1, <4>2, <4>3
      <4>5. QED
        BY <3>3, <4>4
    <3>4. CASE j # i + 1
      <4>1. j \in 1 .. i
        BY <3>4
      <4>2. h[e[j]] = f[e[j]] /\ g[e[j]] = f[e[j]]
        BY <2>1, <2>6, <3>2, <4>1
      <4>3. QED
        BY <4>2
    <3>5. QED
      BY <3>3, <3>4
  <2>8. g \in F /\ Fixed(i + 1, g) /\ i + 1 \in 0 .. n
    BY <2>6, <2>7
  <2>9. QED
    BY <2>8
<1>5. n \in A
  <2> HIDE DEF A
  <2>1. \A i \in 0 .. n : i \in A
    BY <1>3, <1>4, Upward
  <2>2. QED
    BY <2>1
<1>6. PICK f \in F : Fixed(n, f)
  BY <1>5
<1>7. ASSUME NEW g \in F, Below(S, g, f)
      PROVE  g = f
  <2>1. \A x \in S : g[x] = f[x]
    BY <1>2, <1>6, <1>7
  <2>2. g \in [S -> Nat] /\ f \in [S -> Nat]
    OBVIOUS
  <2>3. QED
    BY <2>1, <2>2
<1>8. QED
  BY <1>7

-----------------------------------------------------------------------------
(* Rounds: next is applied until nothing changes.                          *)

Settled(D, next) == {d \in D : next[d] = d}

RunsOn(D, next, f) == \A d \in D : f[d] = IF next[d] = d THEN d ELSE f[next[d]]

LEMMA RoundsExist ==
  ASSUME NEW D, NEW next \in [D -> D], Grounded(D, Settled(D, next), next)
  PROVE  \E f \in [D -> D] : RunsOn(D, next, f)
<1> DEFINE root == Settled(D, next)
           base == [d \in D |-> d]
           step == [x \in D \X D |-> x[2]]
<1>1. base \in [D -> D] /\ step \in [D \X D -> D]
  OBVIOUS
<1>2. HasParentFunction(D, D, root, next, base, step)
  <2> HIDE DEF root, base, step
  <2>1. Grounded(D, root, next)
    BY DEF root
  <2>2. QED
    BY <1>1, <2>1, ParentRecursion, Zenon
<1>3. PICK f \in [D -> D] : SolvesOn(D, root, next, base, step, f)
  <2> HIDE DEF root, base, step
  <2>1. QED
    BY <1>2, Zenon DEF HasParentFunction
<1>4. ASSUME NEW d \in D
      PROVE  f[d] = IF next[d] = d THEN d ELSE f[next[d]]
  <2>1. f[d] = IF d \in root THEN base[d] ELSE step[<<d, f[next[d]]>>]
    BY <1>3 DEF SolvesOn
  <2>2. d \in root <=> next[d] = d
    BY DEF Settled
  <2>3. step[<<d, f[next[d]]>>] = f[next[d]] /\ base[d] = d
    OBVIOUS
  <2> HIDE DEF root, base, step
  <2>4. QED
    BY <2>1, <2>2, <2>3
<1>5. RunsOn(D, next, f)
  BY <1>4 DEF RunsOn
<1>6. QED
  BY <1>5

\* What every round keeps holds in the end.
LEMMA RoundsKeep ==
  ASSUME NEW D, NEW next \in [D -> D], Grounded(D, Settled(D, next), next),
         NEW f, RunsOn(D, next, f),
         NEW P \in SUBSET D, \A d \in P : next[d] \in P,
         NEW a \in P
  PROVE  f[a] \in P /\ next[f[a]] = f[a]
<1> DEFINE Good(d) == f[d] \in P /\ next[f[d]] = f[d]
           Bad == {d \in P : ~ Good(d)}
<1>1. ASSUME Bad # {}
      PROVE  FALSE
  <2>1. Bad \in SUBSET D
    OBVIOUS
  <2>2. PICK d \in Bad : d \in Settled(D, next) \/ next[d] \notin Bad
    <3> HIDE DEF Bad
    <3>1. QED
      BY <1>1, <2>1 DEF Grounded
  <2>3. d \in P /\ d \in D /\ ~ Good(d) /\ next[d] \in P
    OBVIOUS
  <2>4. f[d] = IF next[d] = d THEN d ELSE f[next[d]]
    BY <2>3 DEF RunsOn
  <2>5. CASE next[d] = d
    BY <2>3, <2>4, <2>5
  <2>6. CASE next[d] # d
    <3>1. next[d] \notin Bad
      BY <2>2, <2>6 DEF Settled
    <3>2. Good(next[d])
      BY <2>3, <3>1
    <3>3. f[d] = f[next[d]]
      BY <2>4, <2>6
    <3>4. QED
      BY <2>3, <3>2, <3>3
  <2>7. QED
    BY <2>5, <2>6
<1>2. QED
  BY <1>1

\* A set that only grows within a finite one comes to an end.
LEMMA GrowthEnds ==
  ASSUME NEW U, IsFiniteSet(U), NEW next \in [SUBSET U -> SUBSET U],
         \A d \in SUBSET U : d \subseteq next[d]
  PROVE  Grounded(SUBSET U, Settled(SUBSET U, next), next)
<1> DEFINE D == SUBSET U
<1>1. ASSUME NEW F \in SUBSET D, F # {}
      PROVE  \E d \in F : d \in Settled(D, next) \/ next[d] \notin F
  <2> DEFINE left == {Cardinality(U \ d) : d \in F}
  <2>1. ASSUME NEW d \in F
        PROVE  IsFiniteSet(U \ d) /\ Cardinality(U \ d) \in Nat
    <3>1. IsFiniteSet(U \ d)
      BY FS_Difference
    <3>2. QED
      BY <3>1, FS_CardinalityType
  <2>2. left \in SUBSET Nat /\ left # {}
    <3>1. ASSUME NEW n \in left
          PROVE  n \in Nat
      <4>1. PICK d \in F : n = Cardinality(U \ d)
        OBVIOUS
      <4>2. QED
        BY <2>1, <4>1
    <3>2. left # {}
      <4>1. PICK d \in F : TRUE
        BY <1>1
      <4>2. Cardinality(U \ d) \in left
        OBVIOUS
      <4>3. QED
        BY <4>2
    <3>3. QED
      BY <3>1, <3>2
  <2>3. PICK m \in left : \A n \in left : m <= n
    <3> HIDE DEF left
    <3>1. QED
      BY <2>2, LeastNatural
  <2>4. PICK d \in F : Cardinality(U \ d) = m
    OBVIOUS
  <2>5. CASE next[d] = d
    BY <2>5 DEF Settled
  <2>6. CASE next[d] # d
    <3>1. d \in D /\ next[d] \in D /\ d \subseteq next[d]
      OBVIOUS
    <3>2. PICK x \in next[d] : x \notin d
      BY <2>6, <3>1
    <3>3. U \ next[d] \subseteq U \ d /\ x \in U \ d /\ x \notin U \ next[d]
      BY <3>1, <3>2
    <3>4. IsFiniteSet(U \ d) /\ U \ next[d] # U \ d
      BY <2>1, <3>3
    <3>5. Cardinality(U \ next[d]) < Cardinality(U \ d)
      <4> DEFINE A == U \ d
                 B == U \ next[d]
      <4>1. B \subseteq A /\ A # B /\ IsFiniteSet(A)
        BY <3>3, <3>4
      <4> HIDE DEF A, B
      <4>2. Cardinality(B) <= Cardinality(A) /\ (Cardinality(B) = Cardinality(A) => B = A)
        BY <4>1, FS_Subset
      <4>3. Cardinality(A) \in Nat /\ Cardinality(B) \in Nat
        BY <4>1, FS_Subset, FS_CardinalityType
      <4>4. Cardinality(B) < Cardinality(A)
        BY <4>1, <4>2, <4>3
      <4>5. QED
        BY <4>4 DEF A, B
    <3>6. next[d] \notin F
      <4>1. ASSUME next[d] \in F
            PROVE  FALSE
        <5>1. Cardinality(U \ next[d]) \in left
          BY <4>1
        <5>2. m <= Cardinality(U \ next[d]) /\ Cardinality(U \ next[d]) < m
          <6> HIDE DEF left
          <6>1. QED
            BY <2>3, <2>4, <3>5, <5>1
        <5>3. m \in Nat /\ Cardinality(U \ next[d]) \in Nat
          BY <2>1, <2>4, <4>1
        <5>4. QED
          BY <5>2, <5>3
      <4>2. QED
        BY <4>1
    <3>7. QED
      BY <3>6
  <2>7. QED
    BY <2>5, <2>6
<1>2. \A d \in D \ Settled(D, next) : next[d] \in D
  OBVIOUS
<1>3. QED
  <2> HIDE DEF D
  <2>1. Grounded(D, Settled(D, next), next)
    BY <1>1, <1>2 DEF Grounded
  <2>2. QED
    BY <2>1 DEF D

\* So does a function to natural numbers that only falls.
LEMMA DescentEnds ==
  ASSUME NEW S, IsFiniteSet(S), NEW b \in Nat, NEW next \in [[S -> 0 .. b] -> [S -> 0 .. b]],
         \A d \in [S -> 0 .. b] : Below(S, next[d], d)
  PROVE  Grounded([S -> 0 .. b], Settled([S -> 0 .. b], next), next)
<1> DEFINE D == [S -> 0 .. b]
<1>1. ASSUME NEW F \in SUBSET D, F # {}
      PROVE  \E d \in F : d \in Settled(D, next) \/ next[d] \notin F
  <2>1. F \in SUBSET [S -> Nat]
    <3>1. ASSUME NEW d \in D
          PROVE  d \in [S -> Nat]
      <4>1. \A x \in S : d[x] \in Nat
        OBVIOUS
      <4>2. QED
        BY <4>1
    <3>2. QED
      BY <3>1
  <2>2. PICK d \in F : \A g \in F : Below(S, g, d) => g = d
    BY <1>1, <2>1, MinimalFunction
  <2>3. CASE next[d] \in F
    <3>1. d \in D /\ Below(S, next[d], d)
      OBVIOUS
    <3>2. next[d] = d
      BY <2>2, <2>3, <3>1
    <3>3. QED
      BY <3>1, <3>2 DEF Settled
  <2>4. QED
    BY <2>3
<1>2. \A d \in D \ Settled(D, next) : next[d] \in D
  OBVIOUS
<1>3. QED
  <2> HIDE DEF D
  <2>1. Grounded(D, Settled(D, next), next)
    BY <1>1, <1>2 DEF Grounded
  <2>2. QED
    BY <2>1 DEF D

-----------------------------------------------------------------------------
(* Distances.                                                              *)

LEMMA InftyIs == INFTY \in Nat
BY DEF INFTY

StepsIn(S, steps) == \A e \in steps : e[1] \in S /\ e[2] \in S /\ e[3] \in Nat

\* A step of the set leads from x to the target at a cost of c.
StepAt(x, d, steps, c) == \E e \in steps : e[1] = x /\ d[e[2]] < INFTY /\ c = e[3] + d[e[2]]

\* No step shortens a way.
NoShorter(d, steps) == \A e \in steps : d[e[2]] < INFTY => d[e[1]] <= e[3] + d[e[2]]

LEMMA RelaxedIs ==
  ASSUME NEW S, NEW steps, StepsIn(S, steps), NEW d \in [S -> 0 .. INFTY]
  PROVE  LET r == Relaxed(d, steps) IN
         /\ r \in [S -> 0 .. INFTY] /\ Below(S, r, d)
         /\ \A e \in steps : d[e[2]] < INFTY => r[e[1]] <= e[3] + d[e[2]]
         /\ \A x \in S : r[x] = d[x] \/ StepAt(x, d, steps, r[x])
<1> DEFINE r == Relaxed(d, steps)
           V(x) == {d[x]} \cup {e[3] + d[e[2]] : e \in {g \in steps : g[1] = x /\ d[g[2]] < INFTY}}
<1>1. r = [x \in S |-> Least(V(x))]
  BY DEF Relaxed
<1>2. ASSUME NEW x \in S
      PROVE  /\ r[x] \in V(x) /\ \A k \in V(x) : r[x] <= k
             /\ r[x] \in 0 .. INFTY /\ r[x] <= d[x]
             /\ r[x] = d[x] \/ StepAt(x, d, steps, r[x])
  <2>1. d[x] \in V(x) /\ d[x] \in 0 .. INFTY
    OBVIOUS
  <2>2. V(x) \in SUBSET Nat
    <3>1. ASSUME NEW e \in steps, e[1] = x
          PROVE  e[3] + d[e[2]] \in Nat
      <4>1. e[2] \in S /\ e[3] \in Nat
        BY DEF StepsIn
      <4>2. d[e[2]] \in Nat
        BY <4>1
      <4>3. QED
        BY <4>1, <4>2
    <3>2. d[x] \in Nat
      OBVIOUS
    <3>3. QED
      BY <3>1, <3>2
  <2>3. Least(V(x)) \in V(x) /\ \A k \in V(x) : Least(V(x)) <= k
    <3> HIDE DEF V
    <3>1. QED
      BY <2>1, <2>2, LeastIn
  <2>4. r[x] = Least(V(x))
    <3> HIDE DEF V, r
    <3>1. QED
      BY <1>1
  <2>5. r[x] \in V(x) /\ (\A k \in V(x) : r[x] <= k) /\ r[x] \in Nat
    <3> HIDE DEF V, r
    <3>1. QED
      BY <2>2, <2>3, <2>4
  <2>6. r[x] <= d[x]
    <3> HIDE DEF V, r
    <3>1. QED
      BY <2>1, <2>5
  <2>7. r[x] \in 0 .. INFTY
    <3> HIDE DEF V, r
    <3>1. QED
      BY <2>1, <2>5, <2>6, InftyIs
  <2>8. r[x] = d[x] \/ StepAt(x, d, steps, r[x])
    <3> HIDE DEF r
    <3>1. QED
      BY <2>5 DEF StepAt
  <2>9. QED
    <3> HIDE DEF V, r
    <3>1. QED
      BY <2>5, <2>6, <2>7, <2>8
<1>3. r \in [S -> 0 .. INFTY] /\ Below(S, r, d)
  <2>1. \A x \in S : r[x] \in 0 .. INFTY /\ r[x] <= d[x]
    <3> HIDE DEF V, r
    <3>1. QED
      BY <1>2
  <2>2. r = [x \in S |-> r[x]]
    <3> HIDE DEF V
    <3>1. QED
      BY <1>1
  <2> HIDE DEF r
  <2>3. QED
    BY <2>1, <2>2 DEF Below
<1>4. ASSUME NEW e \in steps, d[e[2]] < INFTY
      PROVE  r[e[1]] <= e[3] + d[e[2]]
  <2>1. e[1] \in S
    BY DEF StepsIn
  <2>2. e[3] + d[e[2]] \in V(e[1])
    BY <1>4
  <2> HIDE DEF V, r
  <2>3. QED
    BY <1>2, <2>1, <2>2
<1>5. QED
  <2> HIDE DEF V, r
  <2>1. /\ \A e \in steps : d[e[2]] < INFTY => r[e[1]] <= e[3] + d[e[2]]
        /\ \A x \in S : r[x] = d[x] \/ StepAt(x, d, steps, r[x])
    BY <1>2, <1>4
  <2>2. QED
    BY <1>3, <2>1 DEF r

\* What holds of the estimates in every round: each is the cost of some way.
Justified(S, steps, targets, d) ==
  /\ d \in [S -> 0 .. INFTY]
  /\ \A x \in S \cap targets : d[x] = 0
  /\ \A x \in S \ targets : d[x] < INFTY =>
       \E e \in steps : e[1] = x /\ d[e[2]] < INFTY /\ e[3] + d[e[2]] <= d[x]

LEMMA RelaxedJustified ==
  ASSUME NEW S, NEW steps, StepsIn(S, steps), NEW targets, NEW d, Justified(S, steps, targets, d)
  PROVE  Justified(S, steps, targets, Relaxed(d, steps))
<1> DEFINE r == Relaxed(d, steps)
<1>1. d \in [S -> 0 .. INFTY]
  BY DEF Justified
<1>2. /\ r \in [S -> 0 .. INFTY] /\ Below(S, r, d)
      /\ \A e \in steps : d[e[2]] < INFTY => r[e[1]] <= e[3] + d[e[2]]
      /\ \A x \in S : r[x] = d[x] \/ StepAt(x, d, steps, r[x])
  BY <1>1, RelaxedIs
<1> HIDE DEF r
<1>3. ASSUME NEW x \in S \cap targets
      PROVE  r[x] = 0
  <2>1. d[x] = 0 /\ r[x] <= d[x] /\ r[x] \in 0 .. INFTY
    BY <1>2 DEF Justified, Below
  <2>2. QED
    BY <2>1
<1>4. ASSUME NEW x \in S \ targets, r[x] < INFTY
      PROVE  \E e \in steps : e[1] = x /\ r[e[2]] < INFTY /\ e[3] + r[e[2]] <= r[x]
  <2>1. \E e \in steps : e[1] = x /\ d[e[2]] < INFTY /\ e[3] + d[e[2]] <= r[x]
    <3>1. CASE r[x] = d[x]
      BY <1>4, <3>1 DEF Justified
    <3>2. CASE StepAt(x, d, steps, r[x])
      <4>1. PICK e \in steps : e[1] = x /\ d[e[2]] < INFTY /\ r[x] = e[3] + d[e[2]]
        BY <3>2 DEF StepAt
      <4>2. r[x] <= r[x]
        BY <1>2
      <4>3. QED
        BY <4>1, <4>2
    <3>3. QED
      BY <1>2, <3>1, <3>2
  <2>2. PICK e \in steps : e[1] = x /\ d[e[2]] < INFTY /\ e[3] + d[e[2]] <= r[x]
    BY <2>1
  <2>3. e[2] \in S /\ e[3] \in Nat
    BY DEF StepsIn
  <2>4. r[e[2]] <= d[e[2]] /\ r[e[2]] \in 0 .. INFTY /\ d[e[2]] \in 0 .. INFTY /\ r[x] \in 0 .. INFTY
    BY <1>1, <1>2, <2>3 DEF Below
  <2>5. r[e[2]] < INFTY /\ e[3] + r[e[2]] <= r[x]
    BY <2>2, <2>3, <2>4, InftyIs
  <2>6. QED
    BY <2>2, <2>5
<1>5. Justified(S, steps, targets, r)
  BY <1>2, <1>3, <1>4 DEF Justified
<1>6. QED
  BY <1>5 DEF r

\* What every round keeps holds of the distances, and another round changes
\* nothing.
LEMMA DistancesKeep ==
  ASSUME NEW S, IsFiniteSet(S), NEW steps, StepsIn(S, steps), NEW targets,
         NEW P \in SUBSET [S -> 0 .. INFTY], \A d \in P : Relaxed(d, steps) \in P,
         [x \in S |-> IF x \in targets THEN 0 ELSE INFTY] \in P
  PROVE  LET r == Distances(S, steps, targets) IN r \in P /\ Relaxed(r, steps) = r
<1> DEFINE D == [S -> 0 .. INFTY]
           next == [d \in D |-> Relaxed(d, steps)]
           Next1(f) == [d \in D |-> IF Relaxed(d, steps) = d THEN d ELSE f[Relaxed(d, steps)]]
           shortened == CHOOSE f : f = Next1(f)
           start == [x \in S |-> IF x \in targets THEN 0 ELSE INFTY]
<1>1. ASSUME NEW d \in D
      PROVE  next[d] \in D /\ next[d] = Relaxed(d, steps) /\ Below(S, next[d], d)
  BY RelaxedIs
<1>2. next \in [D -> D]
  <2> HIDE DEF D
  <2>1. QED
    BY <1>1
<1>3. Grounded(D, Settled(D, next), next)
  <2> HIDE DEF next
  <2>1. QED
    BY <1>1, <1>2, DescentEnds, InftyIs
<1> HIDE DEF D, next
<1>4. PICK f \in [D -> D] : RunsOn(D, next, f)
  BY <1>2, <1>3, RoundsExist
<1>5. f = Next1(f)
  <2>1. f = [d \in D |-> f[d]]
    OBVIOUS
  <2>2. \A d \in D : f[d] = IF Relaxed(d, steps) = d THEN d ELSE f[Relaxed(d, steps)]
    BY <1>1, <1>4 DEF RunsOn
  <2>3. QED
    BY <2>1, <2>2
<1>6. shortened = Next1(shortened)
  <2> HIDE DEF Next1
  <2>1. QED
    BY <1>5
<1> HIDE DEF shortened
<1>7. RunsOn(D, next, shortened)
  <2>1. \A d \in D : shortened[d] = IF Relaxed(d, steps) = d THEN d ELSE shortened[Relaxed(d, steps)]
    BY <1>6
  <2>2. QED
    BY <1>1, <2>1 DEF RunsOn
<1>8. P \in SUBSET D /\ \A d \in P : next[d] \in P
  <2>1. P \in SUBSET D
    BY DEF D
  <2>2. QED
    BY <1>1, <2>1
<1>9. start \in P
  OBVIOUS
<1> HIDE DEF start
<1>10. shortened[start] \in P /\ next[shortened[start]] = shortened[start]
  BY <1>2, <1>3, <1>7, <1>8, <1>9, RoundsKeep
<1>11. Relaxed(shortened[start], steps) = shortened[start]
  BY <1>1, <1>8, <1>10
<1>12. Distances(S, steps, targets) = shortened[start]
  BY DEF Distances, shortened, start, D
<1>13. QED
  BY <1>10, <1>11, <1>12

\* In the end every distance is the cost of a way, and no way is cheaper.
LEMMA DistancesAre ==
  ASSUME NEW S, IsFiniteSet(S), NEW steps, StepsIn(S, steps), NEW targets
  PROVE  /\ Justified(S, steps, targets, Distances(S, steps, targets))
         /\ NoShorter(Distances(S, steps, targets), steps)
<1> DEFINE P == {d \in [S -> 0 .. INFTY] : Justified(S, steps, targets, d)}
           start == [x \in S |-> IF x \in targets THEN 0 ELSE INFTY]
           r == Distances(S, steps, targets)
<1>1. start \in P
  <2>1. \A x \in S : start[x] = IF x \in targets THEN 0 ELSE INFTY
    OBVIOUS
  <2>2. start \in [S -> 0 .. INFTY]
    BY InftyIs
  <2>3. ASSUME NEW x \in S \ targets, start[x] < INFTY
        PROVE  FALSE
    BY <2>3, InftyIs
  <2> HIDE DEF start
  <2>4. QED
    BY <2>1, <2>2, <2>3 DEF Justified
<1>2. \A d \in P : Relaxed(d, steps) \in P
  <2>1. ASSUME NEW d \in P
        PROVE  Relaxed(d, steps) \in P
    <3>1. Justified(S, steps, targets, Relaxed(d, steps))
      BY RelaxedJustified
    <3>2. QED
      BY <3>1 DEF Justified
  <2>2. QED
    BY <2>1
<1>3. r \in P /\ Relaxed(r, steps) = r
  <2>1. P \in SUBSET [S -> 0 .. INFTY]
    OBVIOUS
  <2> HIDE DEF P
  <2>2. QED
    BY <1>1, <1>2, <2>1, DistancesKeep
<1>4. Justified(S, steps, targets, r) /\ r \in [S -> 0 .. INFTY]
  BY <1>3
<1> HIDE DEF r, P, start
<1>5. NoShorter(r, steps)
  BY <1>3, <1>4, RelaxedIs DEF NoShorter
<1>6. QED
  BY <1>4, <1>5 DEF r

\* What no step lowers by more than it costs, and is 0 at the targets, bounds
\* the distances from below.
LEMMA PotentialBelow ==
  ASSUME NEW S, IsFiniteSet(S), NEW steps, StepsIn(S, steps), NEW targets,
         NEW phi \in [S -> Nat], \A x \in S \cap targets : phi[x] = 0,
         \A e \in steps : phi[e[1]] <= e[3] + phi[e[2]],
         NEW x \in S, Distances(S, steps, targets)[x] < INFTY
  PROVE  phi[x] <= Distances(S, steps, targets)[x]
<1> DEFINE P == {d \in [S -> 0 .. INFTY] : \A y \in S : d[y] < INFTY => phi[y] <= d[y]}
           start == [y \in S |-> IF y \in targets THEN 0 ELSE INFTY]
<1>1. start \in P
  <2>1. \A y \in S : start[y] = IF y \in targets THEN 0 ELSE INFTY
    OBVIOUS
  <2>2. start \in [S -> 0 .. INFTY]
    BY InftyIs
  <2> HIDE DEF start
  <2>3. ASSUME NEW y \in S, start[y] < INFTY
        PROVE  phi[y] <= start[y]
    <3>1. y \in targets
      BY <2>1, <2>3, InftyIs
    <3>2. QED
      BY <2>1, <3>1
  <2>4. QED
    BY <2>2, <2>3
<1>2. ASSUME NEW d \in P
      PROVE  Relaxed(d, steps) \in P
  <2> DEFINE r == Relaxed(d, steps)
  <2>1. r \in [S -> 0 .. INFTY] /\ \A y \in S : r[y] = d[y] \/ StepAt(y, d, steps, r[y])
    BY RelaxedIs
  <2> HIDE DEF r
  <2>2. ASSUME NEW y \in S, r[y] < INFTY
        PROVE  phi[y] <= r[y]
    <3>1. CASE r[y] = d[y]
      BY <2>2, <3>1
    <3>2. CASE StepAt(y, d, steps, r[y])
      <4>1. PICK e \in steps : e[1] = y /\ d[e[2]] < INFTY /\ r[y] = e[3] + d[e[2]]
        BY <3>2 DEF StepAt
      <4>2. e[2] \in S /\ e[3] \in Nat
        BY DEF StepsIn
      <4>3. phi[y] <= e[3] + phi[e[2]] /\ phi[e[2]] <= d[e[2]]
        BY <4>1, <4>2
      <4>4. phi[y] \in Nat /\ phi[e[2]] \in Nat /\ d[e[2]] \in 0 .. INFTY
        BY <4>2
      <4>5. QED
        BY <4>1, <4>2, <4>3, <4>4, InftyIs
    <3>3. QED
      BY <2>1, <3>1, <3>2
  <2>3. r \in P
    BY <2>1, <2>2
  <2>4. QED
    BY <2>3 DEF r
<1>3. Distances(S, steps, targets) \in P
  <2>1. P \in SUBSET [S -> 0 .. INFTY]
    OBVIOUS
  <2> HIDE DEF P
  <2>2. QED
    BY <1>1, <1>2, <2>1, DistancesKeep
<1>4. QED
  BY <1>3

-----------------------------------------------------------------------------
(* Tasks and states.                                                       *)

LEMMA FactIs ==
  ASSUME NEW T, IsTask(T), NEW f \in FactsOf(T)
  PROVE  f = <<f[1], f[2]>> /\ f[1] \in Vars(T) /\ f[2] \in Nat /\ f[2] < T.dom[f[1]]
<1>1. PICK v \in Vars(T) : f \in {<<v, d>> : d \in 0 .. T.dom[v] - 1}
  BY DEF FactsOf
<1>2. PICK d \in 0 .. T.dom[v] - 1 : f = <<v, d>>
  BY <1>1
<1>3. T.dom[v] \in Nat
  BY DEF IsTask, Vars
<1>4. QED
  BY <1>2, <1>3

LEMMA DomainsBounded ==
  ASSUME NEW T, IsTask(T)
  PROVE  \E b \in Nat : \A v \in Vars(T) : T.dom[v] \in 0 .. b
<1> DEFINE n == Len(T.dom)
           Bounds(i, b) == \A v \in 1 .. i : T.dom[v] <= b
           A == {i \in 0 .. n : \E b \in Nat : Bounds(i, b)}
<1>1. n \in Nat /\ Vars(T) = 1 .. n /\ \A v \in 1 .. n : T.dom[v] \in Nat
  BY DEF IsTask, Vars
<1>2. 0 \in A
  <2>1. Bounds(0, 0) /\ 0 \in 0 .. n
    BY <1>1
  <2>2. QED
    BY <2>1
<1>3. \A i \in 0 .. n - 1 : i \in A => i + 1 \in A
  <2> HIDE DEF n
  <2> SUFFICES ASSUME NEW i \in 0 .. n - 1, i \in A
               PROVE  i + 1 \in A
    OBVIOUS
  <2>1. PICK b \in Nat : Bounds(i, b)
    OBVIOUS
  <2>2. i + 1 \in 1 .. n /\ i + 1 \in 0 .. n
    BY <1>1
  <2>3. b + T.dom[i + 1] \in Nat /\ T.dom[i + 1] \in Nat
    BY <1>1, <2>2
  <2>4. ASSUME NEW v \in 1 .. i + 1
        PROVE  T.dom[v] <= b + T.dom[i + 1]
    <3>1. CASE v = i + 1
      BY <2>3, <3>1
    <3>2. CASE v # i + 1
      <4>1. v \in 1 .. i /\ v \in 1 .. n
        BY <1>1, <2>2, <3>2
      <4>2. T.dom[v] <= b /\ T.dom[v] \in Nat
        BY <1>1, <2>1, <4>1
      <4>3. QED
        BY <2>3, <4>2
    <3>3. QED
      BY <3>1, <3>2
  <2>5. Bounds(i + 1, b + T.dom[i + 1])
    BY <2>4
  <2> HIDE DEF Bounds
  <2>6. QED
    BY <2>2, <2>3, <2>5
<1>4. n \in A
  <2> HIDE DEF A, n
  <2>1. \A i \in 0 .. n : i \in A
    BY <1>1, <1>2, <1>3, Upward
  <2>2. QED
    BY <1>1, <2>1
<1>5. PICK b \in Nat : Bounds(n, b)
  BY <1>4
<1>6. ASSUME NEW v \in Vars(T)
      PROVE  T.dom[v] \in 0 .. b
  <2>1. v \in 1 .. n /\ T.dom[v] \in Nat
    BY <1>1
  <2>2. T.dom[v] <= b
    BY <1>5, <2>1
  <2>3. QED
    BY <2>1, <2>2
<1>7. QED
  BY <1>6

LEMMA DomainIs ==
  ASSUME NEW T, IsTask(T), NEW v \in Vars(T)
  PROVE  v \in Nat /\ T.dom[v] \in Nat
<1>1. T.dom[v] \in Nat
  BY DomainsBounded
<1>2. T.dom \in Seq(Nat \ {0, 1}) /\ v \in DOMAIN T.dom
  BY DEF IsTask, Vars
<1>3. QED
  BY <1>1, <1>2

LEMMA StatesAre ==
  ASSUME NEW T, IsTask(T)
  PROVE  StatesOf(T) = {s \in [Vars(T) -> Nat] : \A v \in Vars(T) : s[v] < T.dom[v]}
<1> DEFINE top == Largest(Range(T.dom))
<1>1. ASSUME NEW v \in Vars(T)
      PROVE  top \in Nat /\ T.dom[v] <= top /\ T.dom[v] \in Nat
  <2>1. PICK b \in Nat : \A w \in Vars(T) : T.dom[w] \in 0 .. b
    BY DomainsBounded
  <2>2. Range(T.dom) \in SUBSET (0 .. b) /\ T.dom[v] \in Range(T.dom)
    BY <2>1 DEF Range, Vars
  <2>3. top \in Range(T.dom) /\ \A k \in Range(T.dom) : k <= top
    BY <2>2, LargestIn
  <2> HIDE DEF top
  <2>4. QED
    BY <2>2, <2>3
<1>2. ASSUME NEW s, s \in StatesOf(T)
      PROVE  s \in [Vars(T) -> Nat] /\ \A v \in Vars(T) : s[v] < T.dom[v]
  <2>1. s \in [Vars(T) -> 0 .. top - 1] /\ \A v \in Vars(T) : s[v] < T.dom[v]
    BY <1>2 DEF StatesOf
  <2> HIDE DEF top
  <2>2. \A v \in Vars(T) : s[v] \in Nat
    BY <1>1, <2>1
  <2>3. QED
    BY <2>1, <2>2
<1>3. ASSUME NEW s \in [Vars(T) -> Nat], \A v \in Vars(T) : s[v] < T.dom[v]
      PROVE  s \in StatesOf(T)
  <2> HIDE DEF top
  <2>1. \A v \in Vars(T) : s[v] \in 0 .. top - 1
    BY <1>1, <1>3
  <2>2. s \in [Vars(T) -> 0 .. top - 1]
    BY <2>1
  <2>3. QED
    BY <1>3, <2>2 DEF StatesOf, top
<1>4. QED
  BY <1>2, <1>3

LEMMA StatesFinite ==
  ASSUME NEW T, IsTask(T)
  PROVE  IsFiniteSet(StatesOf(T))
<1>1. PICK b \in Nat : \A v \in Vars(T) : T.dom[v] \in 0 .. b
  BY DomainsBounded
<1> DEFINE n == Len(T.dom)
           P == (1 .. n) \X (0 .. b)
           graph == [s \in StatesOf(T) |-> {<<v, s[v]>> : v \in 1 .. n}]
<1>2. n \in Nat /\ Vars(T) = 1 .. n
  BY DEF IsTask, Vars
<1>3. IsFiniteSet(SUBSET P)
  <2>1. IsFiniteSet(1 .. n) /\ IsFiniteSet(0 .. b)
    BY <1>2, FS_Interval
  <2>2. IsFiniteSet(P)
    BY <2>1, FS_Product
  <2> HIDE DEF P
  <2>3. QED
    BY <2>2, FS_SUBSET
<1>4. ASSUME NEW s \in StatesOf(T)
      PROVE  /\ s \in [1 .. n -> Nat] /\ \A v \in 1 .. n : s[v] \in 0 .. b
             /\ graph[s] = {<<v, s[v]>> : v \in 1 .. n} /\ graph[s] \in SUBSET P
  <2>1. s \in [1 .. n -> Nat] /\ \A v \in 1 .. n : s[v] < T.dom[v] /\ T.dom[v] \in 0 .. b
    BY <1>1, <1>2, StatesAre
  <2>2. \A v \in 1 .. n : s[v] \in 0 .. b
    <3> HIDE DEF n
    <3>1. QED
      BY <2>1
  <2>3. graph[s] = {<<v, s[v]>> : v \in 1 .. n}
    OBVIOUS
  <2> HIDE DEF n, graph
  <2>4. QED
    BY <2>1, <2>2, <2>3
<1>5. graph \in [StatesOf(T) -> SUBSET P]
  <2> HIDE DEF P
  <2>1. QED
    BY <1>4
<1>6. ASSUME NEW r \in StatesOf(T), NEW s \in StatesOf(T), graph[r] = graph[s]
      PROVE  r = s
  <2> HIDE DEF graph, n
  <2>1. ASSUME NEW v \in 1 .. n
        PROVE  r[v] = s[v]
    <3>1. <<v, r[v]>> \in graph[r]
      BY <1>4
    <3>2. <<v, r[v]>> \in {<<w, s[w]>> : w \in 1 .. n}
      BY <1>4, <1>6, <3>1
    <3>3. QED
      BY <3>2
  <2>2. r = [v \in 1 .. n |-> r[v]] /\ s = [v \in 1 .. n |-> s[v]]
    BY <1>4
  <2>3. QED
    BY <2>1, <2>2, Zenon
<1>7. graph \in Injection(StatesOf(T), SUBSET P)
  <2> HIDE DEF graph, P
  <2>1. QED
    BY <1>5, <1>6 DEF Injection, IsInjective
<1>8. QED
  <2> HIDE DEF graph, P
  <2>1. QED
    BY <1>3, <1>7, FS_Injection

-----------------------------------------------------------------------------
(* Operators without conditional effects.                                  *)

LEMMA ElementOf ==
  ASSUME NEW E, NEW q \in Seq(E), NEW i \in DOMAIN q
  PROVE  q[i] \in E /\ i \in 1 .. Len(q)
OBVIOUS

LEMMA ElementsOf ==
  ASSUME NEW E, NEW q \in Seq(E)
  PROVE  Range(q) \subseteq E
BY DEF Range

Effects(T) == [cond : SUBSET FactsOf(T), fact : FactsOf(T)]

LEMMA OperatorIs ==
  ASSUME NEW T, IsTask(T), NEW o \in OpsOf(T)
  PROVE  /\ T.ops[o].cost \in Nat
         /\ Range(T.ops[o].pre) \subseteq FactsOf(T)
         /\ T.ops[o].effs \in Seq(Effects(T))
         /\ EffectFacts(T.ops[o]) \subseteq FactsOf(T)
<1> DEFINE E == [pre : Seq(FactsOf(T)), cost : Nat, effs : Seq(Effects(T))]
<1>1. T.ops \in Seq(E) /\ o \in DOMAIN T.ops
  BY DEF IsTask, OpsOf, Effects
<1>2. T.ops[o] \in E
  <2> HIDE DEF E
  <2>1. QED
    BY <1>1, ElementOf
<1>3. T.ops[o].pre \in Seq(FactsOf(T)) /\ T.ops[o].cost \in Nat /\ T.ops[o].effs \in Seq(Effects(T))
  BY <1>2
<1>4. Range(T.ops[o].pre) \subseteq FactsOf(T) /\ Range(T.ops[o].effs) \subseteq Effects(T)
  BY <1>3, ElementsOf
<1>5. ASSUME NEW e \in Range(T.ops[o].effs)
      PROVE  e.fact \in FactsOf(T)
  BY <1>4 DEF Effects
<1>6. QED
  BY <1>3, <1>4, <1>5 DEF EffectFacts

\* Positions of the effects on a variable; the last of them is what counts.
Writes(o, v) == {i \in DOMAIN o.effs : o.effs[i].fact[1] = v}
Written(o, v) == o.effs[Largest(Writes(o, v))].fact[2]

LEMMA WrittenIs ==
  ASSUME NEW T, IsTask(T), NEW o \in OpsOf(T), NEW v, Writes(T.ops[o], v) # {}
  PROVE  <<v, Written(T.ops[o], v)>> \in EffectFacts(T.ops[o])
<1> DEFINE effs == T.ops[o].effs
           k == Largest(Writes(T.ops[o], v))
<1>1. effs \in Seq(Effects(T))
  BY OperatorIs
<1>2. Writes(T.ops[o], v) \in SUBSET (0 .. Len(effs)) /\ Len(effs) \in Nat
  BY <1>1 DEF Writes
<1>3. k \in Writes(T.ops[o], v)
  BY <1>2, LargestIn
<1>4. k \in DOMAIN effs /\ effs[k].fact[1] = v
  BY <1>3 DEF Writes
<1>5. effs[k] \in Range(effs) /\ effs[k].fact \in FactsOf(T)
  <2>1. effs[k] \in Effects(T)
    BY <1>1, <1>4, ElementOf
  <2>2. QED
    BY <1>4, <2>1 DEF Range, Effects
<1>6. effs[k].fact = <<v, effs[k].fact[2]>>
  BY <1>4, <1>5, FactIs
<1>7. effs[k].fact \in EffectFacts(T.ops[o])
  BY <1>5 DEF EffectFacts
<1>8. QED
  BY <1>6, <1>7 DEF Written

\* The state after an operator.
LEMMA SuccessorIs ==
  ASSUME NEW T, IsTask(T), ~ has_conditional_effects(T), NEW o \in OpsOf(T), NEW s \in StatesOf(T)
  PROVE  LET r == successor(T.ops[o], s) IN
         /\ r \in StatesOf(T)
         /\ \A v \in Vars(T) :
              r[v] = IF Writes(T.ops[o], v) = {} THEN s[v] ELSE Written(T.ops[o], v)
<1> DEFINE r == successor(T.ops[o], s)
<1>1. \A i \in DOMAIN T.ops[o].effs : T.ops[o].effs[i].cond = {}
  BY DEF has_conditional_effects, Range
<1>2. \A v : Fired(T.ops[o], s, v) = Writes(T.ops[o], v)
  BY <1>1 DEF Fired, Writes, Holds
<1>3. s \in [Vars(T) -> Nat] /\ \A v \in Vars(T) : s[v] < T.dom[v]
  BY StatesAre
<1>4. r = [v \in Vars(T) |-> IF Writes(T.ops[o], v) = {} THEN s[v] ELSE Written(T.ops[o], v)]
  BY <1>2, <1>3 DEF successor, Written
<1> HIDE DEF r
<1>5. ASSUME NEW v \in Vars(T)
      PROVE  r[v] \in Nat /\ r[v] < T.dom[v]
  <2>1. CASE Writes(T.ops[o], v) = {}
    BY <1>3, <1>4, <2>1
  <2>2. CASE Writes(T.ops[o], v) # {}
    <3> DEFINE f == <<v, Written(T.ops[o], v)>>
    <3>1. f \in FactsOf(T)
      BY <2>2, WrittenIs, OperatorIs
    <3>2. f[2] \in Nat /\ f[2] < T.dom[f[1]]
      <4> HIDE DEF f
      <4>1. QED
        BY <3>1, FactIs
    <3>3. r[v] = Written(T.ops[o], v)
      BY <1>4, <2>2
    <3>4. QED
      BY <3>2, <3>3
  <2>3. QED
    BY <2>1, <2>2
<1>6. r \in StatesOf(T)
  <2>1. r \in [Vars(T) -> Nat]
    <3>1. r = [v \in Vars(T) |-> r[v]]
      BY <1>4
    <3>2. QED
      BY <1>5, <3>1
  <2>2. QED
    BY <1>5, <2>1, StatesAre
<1>7. QED
  BY <1>4, <1>6 DEF r

\* An operator that makes a fact true is one of its achievers.
LEMMA AchieverIs ==
  ASSUME NEW T, IsTask(T), ~ has_conditional_effects(T), NEW o \in OpsOf(T), NEW s \in StatesOf(T),
         NEW f \in FactsOf(T), s[f[1]] # f[2], successor(T.ops[o], s)[f[1]] = f[2]
  PROVE  o \in achievers(T, f)
<1>1. f = <<f[1], f[2]>> /\ f[1] \in Vars(T)
  BY FactIs
<1>2. Writes(T.ops[o], f[1]) # {} /\ Written(T.ops[o], f[1]) = f[2]
  BY <1>1, SuccessorIs
<1>3. f \in EffectFacts(T.ops[o])
  BY <1>1, <1>2, WrittenIs
<1>4. QED
  BY <1>3 DEF achievers

\* An operator stays applicable after one that does not disable it.
LEMMA StaysApplicable ==
  ASSUME NEW T, IsTask(T), ~ has_conditional_effects(T), NEW s \in StatesOf(T),
         NEW o \in OpsOf(T), NEW p \in OpsOf(T), is_applicable(T.ops[p], s), ~ can_disable(T, o, p)
  PROVE  is_applicable(T.ops[p], successor(T.ops[o], s))
<1> DEFINE r == successor(T.ops[o], s)
<1>1. ASSUME NEW f \in Range(T.ops[p].pre)
      PROVE  r[f[1]] = f[2]
  <2>1. f[1] \in Vars(T) /\ s[f[1]] = f[2]
    BY OperatorIs, FactIs DEF is_applicable, Holds
  <2>2. r[f[1]] = IF Writes(T.ops[o], f[1]) = {} THEN s[f[1]] ELSE Written(T.ops[o], f[1])
    BY <2>1, SuccessorIs
  <2> HIDE DEF r
  <2>3. CASE Writes(T.ops[o], f[1]) # {} /\ Written(T.ops[o], f[1]) # f[2]
    <3> DEFINE g == <<f[1], Written(T.ops[o], f[1])>>
    <3>1. g \in EffectFacts(T.ops[o]) /\ f[1] = g[1] /\ f[2] # g[2]
      BY <2>3, WrittenIs
    <3> HIDE DEF g
    <3>2. g[1] \in conflicting_vars(EffectFacts(T.ops[o]), Range(T.ops[p].pre))
      BY <3>1 DEF conflicting_vars
    <3>3. QED
      BY <3>2 DEF can_disable
  <2>4. QED
    BY <2>1, <2>2, <2>3
<1>2. QED
  BY <1>1 DEF is_applicable, Holds

\* Operators that do not conflict may be swapped.
LEMMA SuccessorsCommute ==
  ASSUME NEW T, IsTask(T), ~ has_conditional_effects(T), NEW s \in StatesOf(T),
         NEW o \in OpsOf(T), NEW p \in OpsOf(T), ~ can_conflict(T, o, p)
  PROVE  successor(T.ops[o], successor(T.ops[p], s)) = successor(T.ops[p], successor(T.ops[o], s))
<1> DEFINE so == successor(T.ops[o], s)
           sp == successor(T.ops[p], s)
           sop == successor(T.ops[p], so)
           spo == successor(T.ops[o], sp)
           Val(q, v, d) == IF Writes(T.ops[q], v) = {} THEN d ELSE Written(T.ops[q], v)
<1>1. so \in StatesOf(T) /\ sp \in StatesOf(T)
  BY SuccessorIs
<1>2. sop \in StatesOf(T) /\ spo \in StatesOf(T)
  <2> HIDE DEF so, sp
  <2>1. QED
    BY <1>1, SuccessorIs
<1>3. ASSUME NEW v \in Vars(T)
      PROVE  sop[v] = spo[v]
  <2>1. so[v] = Val(o, v, s[v]) /\ sp[v] = Val(p, v, s[v])
    BY SuccessorIs
  <2>2. sop[v] = Val(p, v, so[v]) /\ spo[v] = Val(o, v, sp[v])
    <3> HIDE DEF so, sp
    <3>1. QED
      BY <1>1, SuccessorIs
  <2>3. CASE Writes(T.ops[o], v) # {} /\ Writes(T.ops[p], v) # {}
    <3> DEFINE f == <<v, Written(T.ops[o], v)>>
               g == <<v, Written(T.ops[p], v)>>
    <3>1. f \in EffectFacts(T.ops[o]) /\ g \in EffectFacts(T.ops[p])
      BY <2>3, WrittenIs
    <3>2. f[1] = g[1] /\ f[2] = Written(T.ops[o], v) /\ g[2] = Written(T.ops[p], v)
      OBVIOUS
    <3> HIDE DEF f, g
    <3>3. f[2] = g[2]
      <4>1. CASE f[2] # g[2]
        <5>1. f[1] \in conflicting_vars(EffectFacts(T.ops[o]), EffectFacts(T.ops[p]))
          BY <3>1, <3>2, <4>1 DEF conflicting_vars
        <5>2. QED
          BY <5>1 DEF can_conflict
      <4>2. QED
        BY <4>1
    <3> HIDE DEF so, sp, sop, spo
    <3>4. QED
      BY <2>2, <2>3, <3>2, <3>3
  <2>4. CASE Writes(T.ops[o], v) = {} \/ Writes(T.ops[p], v) = {}
    <3> HIDE DEF so, sp, sop, spo
    <3>1. QED
      BY <2>1, <2>2, <2>4
  <2>5. QED
    BY <2>3, <2>4
<1>4. sop = [v \in Vars(T) |-> sop[v]] /\ spo = [v \in Vars(T) |-> spo[v]]
  <2> HIDE DEF sop, spo
  <2>1. sop \in [Vars(T) -> Nat] /\ spo \in [Vars(T) -> Nat]
    BY <1>2, StatesAre
  <2>2. QED
    BY <2>1
<1>5. sop = spo
  <2> HIDE DEF sop, spo
  <2>1. QED
    BY <1>3, <1>4, Zenon
<1>6. QED
  BY <1>5

\* No variable has a value in x that it cannot get from that in s.
Within(T, s, x) == \A v \in Vars(T) : x[v] \in recurse_forwards(T, v, s[v])

LEMMA WithinItself ==
  ASSUME NEW T, IsTask(T), NEW s \in StatesOf(T)
  PROVE  Within(T, s, s)
<1>1. ASSUME NEW v \in Vars(T)
      PROVE  s[v] \in 0 .. T.dom[v] - 1
  <2>1. s[v] \in Nat /\ s[v] < T.dom[v] /\ T.dom[v] \in Nat
    BY StatesAre, DomainIs
  <2>2. QED
    BY <2>1
<1>2. QED
  BY <1>1 DEF Within, recurse_forwards

\* Operators that are applicable in such a state are active, and lead to another.
LEMMA WithinActive ==
  ASSUME NEW T, IsTask(T), ~ has_conditional_effects(T), NEW s \in StatesOf(T), NEW x \in StatesOf(T),
         Within(T, s, x), NEW o \in OpsOf(T), is_applicable(T.ops[o], x)
  PROVE  o \in active_ops(T, s) /\ Within(T, s, successor(T.ops[o], x))
<1> DEFINE y == successor(T.ops[o], x)
           pre == Range(T.ops[o].pre)
<1>1. ASSUME NEW f \in pre
      PROVE  f[1] \in Vars(T) /\ x[f[1]] = f[2] /\ f[2] \in recurse_forwards(T, f[1], s[f[1]])
  <2>1. f[1] \in Vars(T) /\ x[f[1]] = f[2]
    BY OperatorIs, FactIs DEF is_applicable, Holds
  <2>2. QED
    BY <2>1 DEF Within
<1>2. o \in active_ops(T, s)
  BY <1>1 DEF active_ops
<1>3. y \in StatesOf(T)
  BY SuccessorIs
<1>4. ASSUME NEW v \in Vars(T)
      PROVE  y[v] \in recurse_forwards(T, v, s[v])
  <2>1. y[v] = IF Writes(T.ops[o], v) = {} THEN x[v] ELSE Written(T.ops[o], v)
    BY SuccessorIs
  <2>2. y[v] \in 0 .. T.dom[v] - 1
    <3> HIDE DEF y
    <3>1. y[v] \in Nat /\ y[v] < T.dom[v] /\ T.dom[v] \in Nat
      BY <1>3, StatesAre, DomainIs
    <3>2. QED
      BY <3>1
  <2> HIDE DEF y
  <2>3. CASE Writes(T.ops[o], v) = {}
    BY <2>1, <2>3 DEF Within
  <2>4. CASE Writes(T.ops[o], v) # {}
    <3> DEFINE D == 0 .. T.dom[v] - 1
               from == {f[2] : f \in {g \in pre : g[1] = v}}
               to == {f[2] : f \in {g \in EffectFacts(T.ops[o]) : g[1] = v}}
    <3>1. y[v] \in to
      <4> DEFINE h == <<v, Written(T.ops[o], v)>>
      <4>1. h \in EffectFacts(T.ops[o]) /\ h[1] = v /\ h[2] = y[v]
        BY <2>1, <2>4, WrittenIs
      <4> HIDE DEF h
      <4>2. QED
        BY <4>1
    <3>2. ASSUME NEW V \in SUBSET D, s[v] \in V, IsClosed(T, v, V)
          PROVE  y[v] \in V
      <4>1. x[v] \in V
        BY <3>2 DEF Within, recurse_forwards
      <4>2. from = {} \/ from \cap V # {} => to \subseteq V
        BY <3>2 DEF IsClosed
      <4>3. CASE from = {}
        <5> HIDE DEF from, to
        <5>1. QED
          BY <3>1, <4>2, <4>3
      <4>4. CASE from # {}
        <5>1. PICK f \in pre : f[1] = v
          BY <4>4
        <5>2. f[2] = x[v]
          BY <1>1, <5>1
        <5>3. f[2] \in from
          BY <5>1
        <5> HIDE DEF from, to, pre
        <5>4. QED
          BY <3>1, <4>1, <4>2, <5>2, <5>3
      <4>5. QED
        BY <4>3, <4>4
    <3>3. QED
      BY <2>2, <3>2 DEF recurse_forwards
  <2>5. QED
    BY <2>3, <2>4
<1>5. QED
  BY <1>2, <1>4 DEF Within

-----------------------------------------------------------------------------
(* The measure of plans.                                                   *)

StepCost(T, o) == 1000 * T.ops[o].cost + 1

LEMMA TransitionIs ==
  ASSUME NEW t \in DOMAIN Tasks
  PROVE  /\ \A e \in Transitions[t] : \E o \in OpsOf(Tasks[t]), s \in StatesOf(Tasks[t]) :
              /\ is_applicable(Tasks[t].ops[o], s)
              /\ e = <<s, successor(Tasks[t].ops[o], s), Tasks[t].ops[o].cost, o>>
         /\ \A o \in OpsOf(Tasks[t]), s \in StatesOf(Tasks[t]) :
              is_applicable(Tasks[t].ops[o], s) =>
                <<s, successor(Tasks[t].ops[o], s), Tasks[t].ops[o].cost, o>> \in Transitions[t]
<1> DEFINE T == Tasks[t]
           From(o) == {x \in StatesOf(T) : is_applicable(T.ops[o], x)}
           By(o) == {<<s, successor(T.ops[o], s), T.ops[o].cost, o>> : s \in From(o)}
<1>1. Transitions[t] = UNION {By(o) : o \in OpsOf(T)}
  BY DEF Transitions
<1>2. ASSUME NEW e \in Transitions[t]
      PROVE  \E o \in OpsOf(T), s \in StatesOf(T) :
               is_applicable(T.ops[o], s) /\ e = <<s, successor(T.ops[o], s), T.ops[o].cost, o>>
  <2>1. PICK o \in OpsOf(T) : e \in By(o)
    <3> HIDE DEF By, T
    <3>1. QED
      BY <1>1
  <2> HIDE DEF T
  <2>2. QED
    BY <2>1
<1>3. ASSUME NEW o \in OpsOf(T), NEW s \in StatesOf(T), is_applicable(T.ops[o], s)
      PROVE  <<s, successor(T.ops[o], s), T.ops[o].cost, o>> \in Transitions[t]
  <2> HIDE DEF T
  <2>1. <<s, successor(T.ops[o], s), T.ops[o].cost, o>> \in By(o)
    BY <1>3
  <2> HIDE DEF By
  <2>2. QED
    BY <1>1, <2>1
<1>4. QED
  BY <1>2, <1>3

LEMMA MeasureIs ==
  ASSUME NEW t \in DOMAIN Tasks, ~ has_conditional_effects(Tasks[t])
  PROVE  LET T == Tasks[t] R == PlanMeasure[t] IN
         /\ R \in [StatesOf(T) -> 0 .. INFTY]
         /\ \A s \in StatesOf(T), o \in OpsOf(T) :
              is_applicable(T.ops[o], s) /\ R[successor(T.ops[o], s)] < INFTY =>
                R[s] <= StepCost(T, o) + R[successor(T.ops[o], s)]
         /\ \A s \in StatesOf(T) : ~ is_goal_state(T, s) /\ R[s] < INFTY =>
              \E o \in OpsOf(T) :
                /\ is_applicable(T.ops[o], s) /\ R[successor(T.ops[o], s)] < INFTY
                /\ StepCost(T, o) + R[successor(T.ops[o], s)] <= R[s]
<1> DEFINE T == Tasks[t]
           R == PlanMeasure[t]
           S == StatesOf(T)
           steps == {<<e[1], e[2], 1000 * e[3] + 1>> : e \in Transitions[t]}
           goals == {s \in S : is_goal_state(T, s)}
<1>1. IsTask(T)
  BY TasksAssumption DEF TasksAssumption
<1>2. R = Distances(S, steps, goals)
  BY DEF PlanMeasure
<1>3. ASSUME NEW g \in steps
      PROVE  \E o \in OpsOf(T), s \in S : /\ is_applicable(T.ops[o], s)
                                        /\ g = <<s, successor(T.ops[o], s), StepCost(T, o)>>
  <2>1. PICK e \in Transitions[t] : g = <<e[1], e[2], 1000 * e[3] + 1>>
    OBVIOUS
  <2>2. PICK o \in OpsOf(T), s \in S :
          is_applicable(T.ops[o], s) /\ e = <<s, successor(T.ops[o], s), T.ops[o].cost, o>>
    BY TransitionIs
  <2> HIDE DEF T, S
  <2>3. e[1] = s /\ e[2] = successor(T.ops[o], s) /\ e[3] = T.ops[o].cost
    BY <2>2
  <2>4. QED
    BY <2>1, <2>2, <2>3 DEF StepCost
<1>4. ASSUME NEW o \in OpsOf(T), NEW s \in S, is_applicable(T.ops[o], s)
      PROVE  <<s, successor(T.ops[o], s), StepCost(T, o)>> \in steps
  <2> DEFINE e == <<s, successor(T.ops[o], s), T.ops[o].cost, o>>
  <2>1. e \in Transitions[t]
    BY <1>4, TransitionIs
  <2>2. <<e[1], e[2], 1000 * e[3] + 1>> \in steps
    <3> HIDE DEF e
    <3>1. QED
      BY <2>1
  <2>3. e[1] = s /\ e[2] = successor(T.ops[o], s) /\ e[3] = T.ops[o].cost
    OBVIOUS
  <2> HIDE DEF e, steps, T
  <2>4. QED
    BY <2>2, <2>3 DEF StepCost
<1> HIDE DEF steps, goals, R, T, S
<1>5. ASSUME NEW o \in OpsOf(T), NEW s \in S
      PROVE  StepCost(T, o) \in Nat /\ successor(T.ops[o], s) \in S
  <2>1. T.ops[o].cost \in Nat /\ successor(T.ops[o], s) \in S
    BY <1>1, OperatorIs, SuccessorIs DEF S, T
  <2>2. QED
    BY <2>1 DEF StepCost
<1>6. StepsIn(S, steps)
  BY <1>3, <1>5 DEF StepsIn
<1>7. Justified(S, steps, goals, R) /\ NoShorter(R, steps)
  BY <1>1, <1>2, <1>6, StatesFinite, DistancesAre DEF S
<1>8. R \in [S -> 0 .. INFTY]
  BY <1>7 DEF Justified
<1>9. ASSUME NEW s \in S, NEW o \in OpsOf(T), is_applicable(T.ops[o], s), R[successor(T.ops[o], s)] < INFTY
      PROVE  R[s] <= StepCost(T, o) + R[successor(T.ops[o], s)]
  <2> DEFINE g == <<s, successor(T.ops[o], s), StepCost(T, o)>>
  <2>1. g \in steps /\ g[1] = s /\ g[2] = successor(T.ops[o], s) /\ g[3] = StepCost(T, o)
    BY <1>4, <1>9
  <2> HIDE DEF g
  <2>2. QED
    BY <1>7, <1>9, <2>1 DEF NoShorter
<1>10. ASSUME NEW s \in S, ~ is_goal_state(T, s), R[s] < INFTY
       PROVE  \E o \in OpsOf(T) :
                /\ is_applicable(T.ops[o], s) /\ R[successor(T.ops[o], s)] < INFTY
                /\ StepCost(T, o) + R[successor(T.ops[o], s)] <= R[s]
  <2>1. s \in S \ goals
    BY <1>10 DEF goals
  <2>2. PICK g \in steps : g[1] = s /\ R[g[2]] < INFTY /\ g[3] + R[g[2]] <= R[s]
    BY <1>7, <1>10, <2>1 DEF Justified
  <2>3. PICK o \in OpsOf(T), r \in S :
          is_applicable(T.ops[o], r) /\ g = <<r, successor(T.ops[o], r), StepCost(T, o)>>
    BY <1>3
  <2>4. g[1] = r /\ g[2] = successor(T.ops[o], r) /\ g[3] = StepCost(T, o)
    BY <2>3
  <2>5. QED
    BY <2>2, <2>3, <2>4
<1>11. QED
  BY <1>8, <1>9, <1>10 DEF R, S, T

-----------------------------------------------------------------------------
(* Closed sets of stubborn operators.                                      *)

\* Facts that are false in s and all of whose active achievers are in B.
Guarded(T, s, B) ==
  {f \in FactsOf(T) : s[f[1]] # f[2] /\ achievers(T, f) \cap active_ops(T, s) \subseteq B}

\* B has what the rules ask for operator o.
IsHandled(T, s, B, o) ==
  IF ~ is_applicable(T.ops[o], s) THEN Range(T.ops[o].pre) \cap Guarded(T, s, B) # {}
  ELSE \A p \in active_ops(T, s) \ {o} :
         /\ can_conflict(T, o, p) \/ can_disable(T, p, o) => p \in B
         /\ can_disable(T, o, p) => p \in B \/ Range(T.ops[p].pre) \cap Guarded(T, s, B) # {}

\* State x is reached from s on the way of a best plan by operators that are
\* not in B: what is guarded is still false, what is in B and applicable in
\* s still is, and what starts a best plan in x starts one in s.
OnTheWay(t, s, B, x) ==
  LET T == Tasks[t] R == PlanMeasure[t] IN
  /\ x \in StatesOf(T) /\ R[x] < INFTY /\ Within(T, s, x)
  /\ \A f \in Guarded(T, s, B) : x[f[1]] # f[2]
  /\ \A o \in B : is_applicable(T.ops[o], s) =>
       /\ is_applicable(T.ops[o], x)
       /\ R[successor(T.ops[o], x)] < INFTY /\ StepCost(T, o) + R[successor(T.ops[o], x)] <= R[x] =>
            R[successor(T.ops[o], s)] < INFTY /\ StepCost(T, o) + R[successor(T.ops[o], s)] <= R[s]

\* An operator that is not in B leads on.
LEMMA OnAndOn ==
  ASSUME NEW t \in DOMAIN Tasks, ~ has_conditional_effects(Tasks[t]),
         NEW s \in StatesOf(Tasks[t]), NEW B \in SUBSET OpsOf(Tasks[t]),
         \A o \in B : IsHandled(Tasks[t], s, B, o),
         NEW x, OnTheWay(t, s, B, x), NEW p \in OpsOf(Tasks[t]) \ B,
         is_applicable(Tasks[t].ops[p], x), PlanMeasure[t][successor(Tasks[t].ops[p], x)] < INFTY,
         StepCost(Tasks[t], p) + PlanMeasure[t][successor(Tasks[t].ops[p], x)] <= PlanMeasure[t][x]
  PROVE  OnTheWay(t, s, B, successor(Tasks[t].ops[p], x))
<1> DEFINE T == Tasks[t]
           R == PlanMeasure[t]
           y == successor(T.ops[p], x)
<1>1. IsTask(T)
  BY TasksAssumption DEF TasksAssumption
<1>2. /\ x \in StatesOf(T) /\ R[x] < INFTY /\ Within(T, s, x)
      /\ \A f \in Guarded(T, s, B) : x[f[1]] # f[2]
  BY DEF OnTheWay
<1>3. p \in active_ops(T, s) /\ Within(T, s, y) /\ y \in StatesOf(T)
  BY <1>1, <1>2, WithinActive, SuccessorIs
<1>4. ASSUME NEW f \in Guarded(T, s, B)
      PROVE  y[f[1]] # f[2]
  <2>1. CASE y[f[1]] = f[2]
    <3>1. p \in achievers(T, f)
      BY <1>1, <1>2, <2>1, AchieverIs DEF Guarded
    <3>2. p \in B
      BY <1>3, <3>1 DEF Guarded
    <3>3. QED
      BY <3>2
  <2>2. QED
    BY <2>1
<1>5. ASSUME NEW o \in B, is_applicable(T.ops[o], s)
      PROVE  /\ is_applicable(T.ops[o], y)
             /\ R[successor(T.ops[o], y)] < INFTY /\ StepCost(T, o) + R[successor(T.ops[o], y)] <= R[y] =>
                  R[successor(T.ops[o], s)] < INFTY /\ StepCost(T, o) + R[successor(T.ops[o], s)] <= R[s]
  <2> DEFINE z == successor(T.ops[o], x)
  <2>1. is_applicable(T.ops[o], x) /\ o \in OpsOf(T) /\ o # p
    BY <1>5 DEF OnTheWay
  <2>2. ~ can_conflict(T, o, p) /\ ~ can_disable(T, p, o)
    BY <1>3, <1>5, <2>1 DEF IsHandled
  <2>3. ~ can_disable(T, o, p)
    <3>1. CASE can_disable(T, o, p)
      <4>1. PICK f \in Range(T.ops[p].pre) : f \in Guarded(T, s, B)
        BY <1>3, <1>5, <2>1, <3>1 DEF IsHandled
      <4>2. x[f[1]] = f[2]
        BY <4>1 DEF is_applicable, Holds
      <4>3. QED
        BY <1>2, <4>1, <4>2
    <3>2. QED
      BY <3>1
  <2>4. is_applicable(T.ops[o], y) /\ is_applicable(T.ops[p], z)
    BY <1>1, <1>2, <2>1, <2>2, <2>3, StaysApplicable
  <2>5. successor(T.ops[o], y) = successor(T.ops[p], z)
    BY <1>1, <1>2, <2>1, <2>2, SuccessorsCommute
  <2>6. z \in StatesOf(T)
    BY <1>1, <1>2, <2>1, SuccessorIs
  <2>7. ASSUME R[successor(T.ops[o], y)] < INFTY, StepCost(T, o) + R[successor(T.ops[o], y)] <= R[y]
        PROVE  R[successor(T.ops[o], s)] < INFTY /\ StepCost(T, o) + R[successor(T.ops[o], s)] <= R[s]
    <3> DEFINE w == successor(T.ops[o], y)
    <3>1. R[z] <= StepCost(T, p) + R[w]
      <4>1. R[successor(T.ops[p], z)] < INFTY
        BY <2>5, <2>7
      <4>2. R[z] <= StepCost(T, p) + R[successor(T.ops[p], z)]
        BY <2>4, <2>6, <4>1, MeasureIs
      <4>3. QED
        BY <2>5, <4>2
    <3>2. R \in [StatesOf(T) -> 0 .. INFTY]
      BY MeasureIs
    <3>3. w \in StatesOf(T)
      BY <1>1, <1>3, <2>1, SuccessorIs
    <3>4. StepCost(T, o) \in Nat /\ StepCost(T, p) \in Nat
      <4>1. T.ops[o].cost \in Nat /\ T.ops[p].cost \in Nat
        BY <1>1, <2>1, OperatorIs
      <4>2. QED
        BY <4>1 DEF StepCost
    <3>5. R[z] \in Nat /\ R[w] \in Nat /\ R[y] \in Nat /\ R[x] \in Nat
      <4> HIDE DEF y, z, w, R, T
      <4>1. QED
        BY <1>2, <1>3, <2>6, <3>2, <3>3
    <3>6. StepCost(T, p) + R[y] <= R[x] /\ StepCost(T, o) + R[w] <= R[y]
      BY <2>7
    <3>7. StepCost(T, o) + R[z] <= R[x]
      <4> HIDE DEF y, z, w, R, T
      <4>1. QED
        BY <3>1, <3>4, <3>5, <3>6
    <3>8. R[z] < INFTY
      <4> HIDE DEF y, z, w, R, T
      <4>1. QED
        BY <1>2, <3>4, <3>5, <3>7, InftyIs
    <3>9. QED
      BY <1>5, <3>7, <3>8 DEF OnTheWay
  <2>8. QED
    BY <2>4, <2>7
<1>6. QED
  <2> HIDE DEF y
  <2>1. OnTheWay(t, s, B, y)
    BY <1>3, <1>4, <1>5 DEF OnTheWay, y
  <2>2. QED
    BY <2>1 DEF y

\* A best plan starts with an operator of a closed set.
LEMMA ClosedKeepsPlans ==
  ASSUME NEW t \in DOMAIN Tasks, ~ has_conditional_effects(Tasks[t]),
         NEW s \in StatesOf(Tasks[t]), NEW B \in SUBSET OpsOf(Tasks[t]),
         Tasks[t].goal \cap Guarded(Tasks[t], s, B) # {},
         \A o \in B : IsHandled(Tasks[t], s, B, o), PlanMeasure[t][s] < INFTY
  PROVE  \E e \in Transitions[t] :
           /\ e[1] = s /\ e[4] \in B
           /\ PlanMeasure[t][s] = 1000 * e[3] + 1 + PlanMeasure[t][e[2]]
<1> DEFINE T == Tasks[t]
           R == PlanMeasure[t]
           Way == {x \in StatesOf(T) : OnTheWay(t, s, B, x)}
           M == {R[x] : x \in Way}
<1>1. IsTask(T)
  BY TasksAssumption DEF TasksAssumption
<1>2. R \in [StatesOf(T) -> 0 .. INFTY]
  BY MeasureIs
<1>3. s \in Way
  BY <1>1, WithinItself DEF OnTheWay, Guarded
<1>4. PICK x \in Way : \A y \in Way : R[x] <= R[y]
  <2>1. M \in SUBSET Nat /\ M # {}
    <3>1. \A y \in StatesOf(T) : R[y] \in Nat
      <4> HIDE DEF R, T
      <4>1. QED
        BY <1>2
    <3> HIDE DEF R, T
    <3>2. QED
      BY <1>3, <3>1
  <2>2. PICK m \in M : \A n \in M : m <= n
    <3> HIDE DEF M
    <3>1. QED
      BY <2>1, LeastNatural
  <2> HIDE DEF Way, R
  <2>3. QED
    BY <2>2
<1>5. /\ x \in StatesOf(T) /\ R[x] < INFTY /\ OnTheWay(t, s, B, x)
      /\ \A f \in Guarded(T, s, B) : x[f[1]] # f[2]
  BY DEF OnTheWay
<1>6. ~ is_goal_state(T, x)
  BY <1>5 DEF is_goal_state, Holds
<1>7. PICK p \in OpsOf(T) :
        /\ is_applicable(T.ops[p], x) /\ R[successor(T.ops[p], x)] < INFTY
        /\ StepCost(T, p) + R[successor(T.ops[p], x)] <= R[x]
  BY <1>5, <1>6, MeasureIs
<1> DEFINE y == successor(T.ops[p], x)
<1>8. y \in StatesOf(T) /\ StepCost(T, p) \in Nat /\ StepCost(T, p) > 0
  <2>1. T.ops[p].cost \in Nat /\ y \in StatesOf(T)
    BY <1>1, <1>5, OperatorIs, SuccessorIs
  <2>2. QED
    BY <2>1 DEF StepCost
<1>9. p \in B
  <2>1. CASE p \notin B
    <3>1. OnTheWay(t, s, B, y)
      BY <1>5, <1>7, <2>1, OnAndOn
    <3>2. R[x] <= R[y]
      <4> HIDE DEF y, R, T
      <4>1. QED
        BY <1>4, <1>8, <3>1
    <3>3. R[x] \in Nat /\ R[y] \in Nat
      <4> HIDE DEF y, R, T
      <4>1. QED
        BY <1>2, <1>5, <1>8
    <3>4. StepCost(T, p) + R[y] <= R[x]
      BY <1>7
    <3> HIDE DEF y, R, T
    <3>5. QED
      BY <1>8, <3>2, <3>3, <3>4
  <2>2. QED
    BY <2>1
<1>10. is_applicable(T.ops[p], s)
  <2>1. CASE ~ is_applicable(T.ops[p], s)
    <3>1. PICK f \in Range(T.ops[p].pre) : f \in Guarded(T, s, B)
      BY <1>9, <2>1 DEF IsHandled
    <3>2. x[f[1]] = f[2]
      BY <1>7, <3>1 DEF is_applicable, Holds
    <3>3. QED
      BY <1>5, <3>1, <3>2
  <2>2. QED
    BY <2>1
<1> DEFINE r == successor(T.ops[p], s)
           e == <<s, r, T.ops[p].cost, p>>
<1>11. R[r] < INFTY /\ StepCost(T, p) + R[r] <= R[s]
  BY <1>5, <1>7, <1>9, <1>10 DEF OnTheWay
<1>12. R[s] <= StepCost(T, p) + R[r]
  BY <1>10, <1>11, MeasureIs
<1>13. R[s] = StepCost(T, p) + R[r]
  <2>1. r \in StatesOf(T)
    BY <1>1, SuccessorIs
  <2>2. R[s] \in Nat /\ R[r] \in Nat
    <3> HIDE DEF r, R, T
    <3>1. QED
      BY <1>2, <1>3, <2>1
  <2> HIDE DEF r, R, T
  <2>3. QED
    BY <1>8, <1>11, <1>12, <2>2
<1>14. e \in Transitions[t]
  BY <1>10, TransitionIs
<1>15. e[1] = s /\ e[2] = r /\ e[3] = T.ops[p].cost /\ e[4] = p
  OBVIOUS
<1>16. e[4] \in B /\ R[s] = 1000 * e[3] + 1 + R[e[2]]
  <2>1. StepCost(T, p) = 1000 * T.ops[p].cost + 1
    BY DEF StepCost
  <2> HIDE DEF e, r, R, T
  <2>2. QED
    BY <1>9, <1>13, <1>15, <2>1
<1>17. QED
  <2> HIDE DEF e, r
  <2>1. QED
    BY <1>14, <1>15, <1>16

-----------------------------------------------------------------------------
(* Marks.                                                                  *)

Marks(T) ==
  [stubborn : SUBSET OpsOf(T), queue : SUBSET OpsOf(T), written : SUBSET Vars(T), nes : SUBSET FactsOf(T)]

\* What is in nes is guarded by the operators that are stubborn.
MarksAre(T, s, x) ==
  x \in Marks(T) /\ x.queue \subseteq x.stubborn /\ x.nes \subseteq Guarded(T, s, x.stubborn)

\* From x to y operators were marked, all of which are to be handled.
Grows(T, s, x, y) ==
  MarksAre(T, s, y) /\ x.stubborn \subseteq y.stubborn /\ y.queue = x.queue \cup (y.stubborn \ x.stubborn)

LEMMA GrowsOn ==
  ASSUME NEW T, NEW s, NEW x, NEW y, NEW z, Grows(T, s, x, y), Grows(T, s, y, z)
  PROVE  Grows(T, s, x, z)
BY DEF Grows

LEMMA StandsStill ==
  ASSUME NEW T, NEW s, NEW x, MarksAre(T, s, x)
  PROVE  Grows(T, s, x, x)
BY DEF Grows, MarksAre

\* With more operators no less is guarded or handled.
LEMMA MoreGuarded ==
  ASSUME NEW T, NEW s, NEW B, NEW C, B \subseteq C
  PROVE  Guarded(T, s, B) \subseteq Guarded(T, s, C)
BY DEF Guarded

LEMMA MoreHandled ==
  ASSUME NEW T, NEW s, NEW B, NEW C, B \subseteq C, NEW o, IsHandled(T, s, B, o)
  PROVE  IsHandled(T, s, C, o)
<1>1. Guarded(T, s, B) \subseteq Guarded(T, s, C)
  BY MoreGuarded
<1>2. QED
  BY <1>1 DEF IsHandled

LEMMA MarkIs ==
  ASSUME NEW T, IsTask(T), NEW s, NEW x, MarksAre(T, s, x), NEW ops \in SUBSET OpsOf(T)
  PROVE  LET y == mark_as_stubborn(T, s, x, ops) IN
         Grows(T, s, x, y) /\ y.stubborn = x.stubborn \cup ops /\ y.nes = x.nes
<1> DEFINE new == ops \ x.stubborn
           applicable == {o \in new : is_applicable(T.ops[o], s)}
           more == UNION {{f[1] : f \in EffectFacts(T.ops[o])} : o \in applicable}
           y == mark_as_stubborn(T, s, x, ops)
<1>1. x \in Marks(T)
  BY DEF MarksAre
<1>2. y = [x EXCEPT !.stubborn = @ \cup new, !.queue = @ \cup new, !.written = @ \cup more]
  BY DEF mark_as_stubborn
<1>3. more \subseteq Vars(T)
  <2>1. ASSUME NEW o \in OpsOf(T), NEW f \in EffectFacts(T.ops[o])
        PROVE  f[1] \in Vars(T)
    BY OperatorIs, FactIs
  <2>2. QED
    BY <2>1
<1> HIDE DEF new, more, y
<1>4. new \subseteq OpsOf(T)
  BY DEF new
<1>5. /\ y.stubborn = x.stubborn \cup new /\ y.queue = x.queue \cup new
      /\ y.nes = x.nes /\ y \in Marks(T)
  BY <1>1, <1>2, <1>3, <1>4 DEF Marks
<1>6. y.stubborn = x.stubborn \cup ops /\ new = y.stubborn \ x.stubborn
  BY <1>5 DEF new
<1>7. Guarded(T, s, x.stubborn) \subseteq Guarded(T, s, y.stubborn)
  BY <1>6, MoreGuarded
<1>8. MarksAre(T, s, y)
  BY <1>5, <1>7 DEF MarksAre
<1>9. QED
  BY <1>5, <1>6, <1>8 DEF Grows, y

LEMMA NesIs ==
  ASSUME NEW T, IsTask(T), NEW s, NEW x, MarksAre(T, s, x), NEW f \in FactsOf(T), s[f[1]] # f[2]
  PROVE  LET y == add_nes_for_fact(T, s, x, f) IN
         Grows(T, s, x, y) /\ f \in Guarded(T, s, y.stubborn)
<1> DEFINE ops == achievers(T, f) \cap active_ops(T, s)
           m == mark_as_stubborn(T, s, x, ops)
           y == add_nes_for_fact(T, s, x, f)
<1>1. ops \in SUBSET OpsOf(T)
  BY DEF achievers
<1>2. Grows(T, s, x, m) /\ m.stubborn = x.stubborn \cup ops
  <2> HIDE DEF ops
  <2>1. QED
    BY <1>1, MarkIs
<1>3. y = [m EXCEPT !.nes = @ \cup {f}]
  BY DEF add_nes_for_fact
<1>4. f \in Guarded(T, s, m.stubborn)
  <2>1. ops \subseteq m.stubborn
    <3> HIDE DEF ops, m
    <3>1. QED
      BY <1>2
  <2> HIDE DEF m
  <2>2. QED
    BY <2>1 DEF Guarded
<1> HIDE DEF m, y, ops
<1>5. m \in Marks(T) /\ m.nes \subseteq Guarded(T, s, m.stubborn) /\ m.queue \subseteq m.stubborn
  BY <1>2 DEF Grows, MarksAre
<1>6. y.stubborn = m.stubborn /\ y.queue = m.queue /\ y.nes = m.nes \cup {f} /\ y \in Marks(T)
  BY <1>3, <1>5 DEF Marks
<1>7. MarksAre(T, s, y)
  BY <1>4, <1>5, <1>6 DEF MarksAre
<1>8. QED
  BY <1>2, <1>4, <1>6, <1>7 DEF Grows, y

LEMMA UnsatisfiedIs ==
  ASSUME NEW T, IsTask(T), NEW s, NEW F \in SUBSET FactsOf(T), \E f \in F : s[f[1]] # f[2]
  PROVE  LET u == find_unsatisfied_condition(s, F) IN u \in F /\ s[u[1]] # u[2]
<1> DEFINE open == {f \in F : s[f[1]] # f[2]}
           V == {f[1] : f \in open}
<1>1. V \in SUBSET Nat /\ V # {}
  <2>1. \A f \in F : f[1] \in Nat
    BY FactIs, DomainIs
  <2>2. QED
    BY <2>1
<1>2. PICK v \in V : \A w \in V : v <= w
  <2> HIDE DEF V
  <2>1. QED
    BY <1>1, LeastNatural
<1>3. \E f \in open : \A g \in open : f[1] <= g[1]
  <2>1. PICK f \in open : f[1] = v
    OBVIOUS
  <2>2. \A g \in open : g[1] \in V
    OBVIOUS
  <2> HIDE DEF V, open
  <2>3. QED
    BY <1>2, <2>1, <2>2
<1>4. find_unsatisfied_condition(s, F) \in open
  BY <1>3 DEF find_unsatisfied_condition
<1>5. QED
  BY <1>4

LEMMA S5Is ==
  ASSUME NEW T, IsTask(T), NEW s, NEW x, MarksAre(T, s, x),
         NEW o \in OpsOf(T), ~ is_applicable(T.ops[o], s)
  PROVE  LET y == apply_s5(T, s, x, o) IN
         Grows(T, s, x, y) /\ Range(T.ops[o].pre) \cap Guarded(T, s, y.stubborn) # {}
<1> DEFINE pre == Range(T.ops[o].pre)
           written == {f \in pre : s[f[1]] # f[2] /\ f[1] \in x.written}
           F == IF written # {} THEN written ELSE pre
           u == find_unsatisfied_condition(s, F)
           y == apply_s5(T, s, x, o)
<1>1. pre \subseteq FactsOf(T) /\ \E f \in pre : s[f[1]] # f[2]
  BY OperatorIs DEF is_applicable, Holds
<1>2. F \in SUBSET FactsOf(T) /\ F \subseteq pre /\ \E f \in F : s[f[1]] # f[2]
  <2> HIDE DEF pre
  <2>1. QED
    BY <1>1
<1>3. u \in F /\ s[u[1]] # u[2]
  <2> HIDE DEF F
  <2>1. QED
    BY <1>2, UnsatisfiedIs
<1>4. u \in pre /\ u \in FactsOf(T)
  <2> HIDE DEF F, u, pre
  <2>1. QED
    BY <1>1, <1>2, <1>3
<1>5. y = IF u \in x.nes THEN x ELSE add_nes_for_fact(T, s, x, u)
  BY DEF apply_s5
<1> HIDE DEF u, F, pre, y
<1>6. Grows(T, s, x, y) /\ u \in Guarded(T, s, y.stubborn)
  <2>1. CASE u \in x.nes
    <3>1. u \in Guarded(T, s, x.stubborn)
      BY <2>1 DEF MarksAre
    <3>2. QED
      BY <1>5, <2>1, <3>1, StandsStill
  <2>2. CASE u \notin x.nes
    BY <1>3, <1>4, <1>5, <2>2, NesIs
  <2>3. QED
    BY <2>1, <2>2
<1>7. QED
  BY <1>4, <1>6 DEF y, pre

\* What handling operator o does to the marks x it was taken from.
Handles(T, s, o, x, y) == Grows(T, s, x, y) /\ IsHandled(T, s, y.stubborn, o)

LEMMA ActiveOperator ==
  ASSUME NEW T, NEW s, NEW p \in active_ops(T, s)
  PROVE  p \in OpsOf(T)
BY DEF active_ops

LEMMA SimpleIs ==
  ASSUME NEW T, IsTask(T), NEW s, NEW x, MarksAre(T, s, x), NEW o \in OpsOf(T)
  PROVE  Handles(T, s, o, x, handle_simple(T, s, x, o))
<1> DEFINE y == handle_simple(T, s, x, o)
<1>1. CASE is_applicable(T.ops[o], s)
  <2> DEFINE ops == {p \in OpsOf(T) \ {o} : interfere(T, o, p)}
  <2>1. y = mark_as_stubborn(T, s, x, ops)
    BY <1>1 DEF handle_simple
  <2>2. ops \in SUBSET OpsOf(T)
    OBVIOUS
  <2>3. Grows(T, s, x, y) /\ y.stubborn = x.stubborn \cup ops
    <3> HIDE DEF ops, y
    <3>1. QED
      BY <2>1, <2>2, MarkIs
  <2>4. ASSUME NEW p \in active_ops(T, s) \ {o}, can_conflict(T, o, p) \/ can_disable(T, p, o) \/ can_disable(T, o, p)
        PROVE  p \in y.stubborn
    <3>1. p \in ops
      BY <2>4, ActiveOperator DEF interfere
    <3> HIDE DEF ops, y
    <3>2. QED
      BY <2>3, <3>1
  <2> HIDE DEF ops, y
  <2>5. IsHandled(T, s, y.stubborn, o)
    BY <1>1, <2>4 DEF IsHandled
  <2>6. QED
    BY <2>3, <2>5 DEF Handles, y
<1>2. CASE ~ is_applicable(T.ops[o], s)
  <2> DEFINE pre == Range(T.ops[o].pre)
             u == find_unsatisfied_condition(s, pre)
  <2>1. pre \in SUBSET FactsOf(T) /\ \E f \in pre : s[f[1]] # f[2]
    BY <1>2, OperatorIs DEF is_applicable, Holds
  <2>2. u \in pre /\ s[u[1]] # u[2]
    <3> HIDE DEF pre
    <3>1. QED
      BY <2>1, UnsatisfiedIs
  <2>3. y = mark_as_stubborn(T, s, x, achievers(T, u))
    BY <1>2 DEF handle_simple
  <2>4. achievers(T, u) \in SUBSET OpsOf(T)
    BY DEF achievers
  <2> HIDE DEF y, u
  <2>5. Grows(T, s, x, y) /\ y.stubborn = x.stubborn \cup achievers(T, u)
    BY <2>3, <2>4, MarkIs
  <2>6. u \in Guarded(T, s, y.stubborn)
    BY <2>1, <2>2, <2>5 DEF Guarded
  <2>7. IsHandled(T, s, y.stubborn, o)
    BY <1>2, <2>2, <2>6 DEF IsHandled
  <2>8. QED
    BY <2>5, <2>7 DEF Handles, y
<1>3. QED
  BY <1>1, <1>2

\* What the loop over the disabled operators does with one of them.
LEMMA DisabledIs ==
  ASSUME NEW T, IsTask(T), NEW s, NEW x, MarksAre(T, s, x), NEW o \in OpsOf(T),
         NEW p \in OpsOf(T), can_disable(T, o, p)
  PROVE  LET y == handle_disabled(T, s, x, o, p) IN
         /\ Grows(T, s, x, y)
         /\ p \in y.stubborn \/ Range(T.ops[p].pre) \cap Guarded(T, s, y.stubborn) # {}
<1> DEFINE pre == Range(T.ops[p].pre)
           applies == \E v \in disabled_vars(T, o, p) : <<v, s[v]>> \in pre
           y == handle_disabled(T, s, x, o, p)
<1>1. CASE applies
  <2>1. y = mark_as_stubborn(T, s, x, {p})
    BY <1>1 DEF handle_disabled
  <2> HIDE DEF y
  <2>2. Grows(T, s, x, y) /\ y.stubborn = x.stubborn \cup {p}
    BY <2>1, MarkIs
  <2>3. QED
    BY <2>2 DEF y
<1>2. CASE ~ applies
  <2>1. y = apply_s5(T, s, x, p)
    BY <1>2 DEF handle_disabled
  <2>2. ~ is_applicable(T.ops[p], s)
    <3>1. PICK v \in disabled_vars(T, o, p) : TRUE
      BY DEF can_disable, disabled_vars
    <3>2. PICK g \in pre : g[1] = v
      BY <3>1 DEF disabled_vars, conflicting_vars
    <3>3. g = <<g[1], g[2]>>
      BY OperatorIs, FactIs
    <3>4. s[v] # g[2]
      BY <1>2, <3>1, <3>2, <3>3
    <3>5. QED
      BY <3>2, <3>4 DEF is_applicable, Holds
  <2> HIDE DEF y, pre
  <2>3. QED
    BY <2>1, <2>2, S5Is DEF y
<1>3. QED
  BY <1>1, <1>2

\* Marks that the loop over the disabled operators goes through.
DisabledBy(T, s, o) == {p \in active_ops(T, s) \ {o} : can_disable(T, o, p)}

MarkedFrom(T, s, o, a, f) ==
  [p \in 0 .. Len(T.ops) |->
     IF p = 0 THEN a
     ELSE IF p \in DisabledBy(T, s, o) THEN handle_disabled(T, s, f[p - 1], o, p) ELSE f[p - 1]]

LEMMA OperatorsAre ==
  ASSUME NEW T, IsTask(T)
  PROVE  Len(T.ops) \in Nat /\ OpsOf(T) = 1 .. Len(T.ops)
<1> DEFINE E == [pre : Seq(FactsOf(T)), cost : Nat, effs : Seq([cond : SUBSET FactsOf(T), fact : FactsOf(T)])]
<1>1. T.ops \in Seq(E)
  BY DEF IsTask
<1> HIDE DEF E
<1>2. QED
  BY <1>1 DEF OpsOf

\* The loop has a solution, which grows and handles what is disabled.
LEMMA LoopExists ==
  ASSUME NEW T, IsTask(T), NEW s, NEW o \in OpsOf(T), NEW a, MarksAre(T, s, a)
  PROVE  \E f : f = MarkedFrom(T, s, o, a, f)
<1> DEFINE n == Len(T.ops)
           V == {x \in Marks(T) : MarksAre(T, s, x)}
           D == DisabledBy(T, s, o)
           next(x, p) == IF p \in D THEN handle_disabled(T, s, x, o, p) ELSE x
           step == [y \in V \X (1 .. n) |-> next(y[1], y[2])]
<1>1. n \in Nat /\ OpsOf(T) = 1 .. n
  BY OperatorsAre
<1>2. a \in V
  BY DEF MarksAre
<1>3. ASSUME NEW x \in V, NEW p \in 1 .. n
      PROVE  next(x, p) \in V
  <2>1. CASE p \in D
    <3>1. Grows(T, s, x, handle_disabled(T, s, x, o, p))
      BY <1>1, <2>1, DisabledIs DEF DisabledBy
    <3>2. QED
      BY <2>1, <3>1 DEF Grows, MarksAre
  <2>2. CASE p \notin D
    BY <2>2
  <2>3. QED
    BY <2>1, <2>2
<1>4. step \in [V \X (1 .. n) -> V]
  <2> HIDE DEF V, n, next
  <2>1. QED
    BY <1>3
<1>5. HasPrefixFunction(n, V, a, step)
  <2> HIDE DEF V, n, step
  <2>1. QED
    BY <1>1, <1>2, <1>4, PrefixRecursion, Zenon
<1>6. PICK f \in [0 .. n -> V] : f[0] = a /\ \A p \in 1 .. n : f[p] = step[<<f[p - 1], p>>]
  <2> HIDE DEF V, n, step
  <2>1. QED
    BY <1>5, Zenon DEF HasPrefixFunction
<1>7. ASSUME NEW p \in 0 .. n
      PROVE  f[p] = IF p = 0 THEN a
                    ELSE IF p \in D THEN handle_disabled(T, s, f[p - 1], o, p) ELSE f[p - 1]
  <2>1. CASE p = 0
    BY <1>6, <2>1
  <2>2. CASE p # 0
    <3>1. p \in 1 .. n /\ p - 1 \in 0 .. n
      <4> HIDE DEF n
      <4>1. QED
        BY <1>1, <2>2
    <3>2. f[p - 1] \in V
      <4> HIDE DEF n, V
      <4>1. QED
        BY <3>1
    <3>3. step[<<f[p - 1], p>>] = next(f[p - 1], p)
      <4> HIDE DEF n, V, next
      <4>1. QED
        BY <3>1, <3>2
    <3>4. f[p] = step[<<f[p - 1], p>>]
      BY <1>6, <3>1
    <3> HIDE DEF step, n, V, D
    <3>5. QED
      BY <2>2, <3>3, <3>4
  <2>3. QED
    BY <2>1, <2>2
<1>8. f = MarkedFrom(T, s, o, a, f)
  <2>1. f = [p \in 0 .. n |-> f[p]]
    <3> HIDE DEF n, V
    <3>1. QED
      OBVIOUS
  <2>2. QED
    BY <1>7, <2>1 DEF MarkedFrom
<1>9. QED
  BY <1>8

LEMMA LoopIs ==
  ASSUME NEW T, IsTask(T), NEW s, NEW o \in OpsOf(T), NEW a, MarksAre(T, s, a),
         NEW f, f = MarkedFrom(T, s, o, a, f)
  PROVE  /\ Grows(T, s, a, f[Len(T.ops)])
         /\ \A p \in DisabledBy(T, s, o) :
              LET B == f[Len(T.ops)].stubborn IN
              p \in B \/ Range(T.ops[p].pre) \cap Guarded(T, s, B) # {}
<1> DEFINE n == Len(T.ops)
           D == DisabledBy(T, s, o)
           Done(p, B) == p \in B \/ Range(T.ops[p].pre) \cap Guarded(T, s, B) # {}
           Loop(i) == Grows(T, s, a, f[i]) /\ \A p \in D : p <= i => Done(p, f[i].stubborn)
           A == {i \in 0 .. n : Loop(i)}
<1>1. n \in Nat /\ OpsOf(T) = 1 .. n
  BY OperatorsAre
<1>2. ASSUME NEW i \in 0 .. n
      PROVE  f[i] = IF i = 0 THEN a
                    ELSE IF i \in D THEN handle_disabled(T, s, f[i - 1], o, i) ELSE f[i - 1]
  <2> DEFINE F(i1) == IF i1 = 0 THEN a
                      ELSE IF i1 \in D THEN handle_disabled(T, s, f[i1 - 1], o, i1) ELSE f[i1 - 1]
  <2>1. f = [p \in 0 .. n |-> F(p)]
    BY DEF MarkedFrom
  <2> HIDE DEF F, n
  <2>2. f[i] = F(i)
    BY <2>1
  <2>3. QED
    BY <2>2 DEF F
<1>3. \A p \in D : p \in 1 .. n /\ p \in OpsOf(T) /\ can_disable(T, o, p)
  BY <1>1, ActiveOperator DEF DisabledBy
<1> HIDE DEF n, D
<1>4. 0 \in A
  <2>1. f[0] = a /\ 0 \in 0 .. n
    BY <1>1, <1>2
  <2>2. Grows(T, s, a, f[0])
    BY <2>1, StandsStill
  <2>3. \A p \in D : ~ (p <= 0)
    BY <1>1, <1>3
  <2> HIDE DEF Done
  <2>4. QED
    BY <2>1, <2>2, <2>3
<1>5. \A i \in 0 .. n - 1 : i \in A => i + 1 \in A
  <2> SUFFICES ASSUME NEW i \in 0 .. n - 1, i \in A
               PROVE  i + 1 \in A
    OBVIOUS
  <2> DEFINE x == f[i]
             y == f[i + 1]
  <2>1. i \in 0 .. n /\ i + 1 \in 0 .. n /\ i + 1 # 0 /\ i + 1 - 1 = i
    BY <1>1
  <2>2. y = IF i + 1 \in D THEN handle_disabled(T, s, x, o, i + 1) ELSE x
    BY <1>2, <2>1
  <2>3. Grows(T, s, a, x) /\ \A p \in D : p <= i => Done(p, x.stubborn)
    OBVIOUS
  <2>4. Grows(T, s, x, y) /\ (i + 1 \in D => Done(i + 1, y.stubborn))
    <3> HIDE DEF x, y
    <3>1. MarksAre(T, s, x)
      BY <2>3 DEF Grows
    <3>2. CASE i + 1 \in D
      BY <1>3, <2>2, <3>1, <3>2, DisabledIs
    <3>3. CASE i + 1 \notin D
      BY <2>2, <3>1, <3>3, StandsStill
    <3>4. QED
      BY <3>2, <3>3
  <2> HIDE DEF x, y
  <2>5. ASSUME NEW p \in D, p <= i + 1
        PROVE  Done(p, y.stubborn)
    <3>1. CASE p = i + 1
      BY <2>4, <3>1
    <3>2. CASE p # i + 1
      <4>1. p <= i
        BY <1>1, <1>3, <2>5, <3>2
      <4>2. Done(p, x.stubborn)
        BY <2>3, <4>1
      <4>3. x.stubborn \subseteq y.stubborn
        BY <2>4 DEF Grows
      <4>4. QED
        BY <4>2, <4>3, MoreGuarded
    <3>3. QED
      BY <3>1, <3>2
  <2>6. Grows(T, s, a, y)
    BY <2>3, <2>4, GrowsOn
  <2> HIDE DEF Done
  <2>7. Loop(i + 1)
    BY <2>5, <2>6 DEF y
  <2> HIDE DEF Loop
  <2>8. QED
    BY <2>1, <2>7
<1>6. n \in A
  <2> HIDE DEF A
  <2>1. \A i \in 0 .. n : i \in A
    BY <1>1, <1>4, <1>5, Upward
  <2>2. QED
    BY <1>1, <2>1
<1>7. \A p \in D : p <= n
  BY <1>1, <1>3
<1>8. QED
  BY <1>6, <1>7 DEF n, D

LEMMA EcIs ==
  ASSUME NEW T, IsTask(T), NEW s, NEW x, MarksAre(T, s, x), NEW o \in OpsOf(T)
  PROVE  Handles(T, s, o, x, handle_ec(T, s, x, o))
<1> DEFINE y == handle_ec(T, s, x, o)
<1>1. CASE ~ is_applicable(T.ops[o], s)
  <2>1. y = apply_s5(T, s, x, o)
    BY <1>1 DEF handle_ec
  <2> HIDE DEF y
  <2>2. Grows(T, s, x, y) /\ Range(T.ops[o].pre) \cap Guarded(T, s, y.stubborn) # {}
    BY <1>1, <2>1, S5Is
  <2>3. QED
    BY <1>1, <2>2 DEF Handles, IsHandled, y
<1>2. CASE is_applicable(T.ops[o], s)
  <2> DEFINE ops == conflicting_and_disabling(T, o) \cap active_ops(T, s)
             a == mark_as_stubborn(T, s, x, ops)
             f == CHOOSE g : g = MarkedFrom(T, s, o, a, g)
  <2>1. y = f[Len(T.ops)]
    BY <1>2 DEF handle_ec, MarkedFrom, DisabledBy
  <2>2. ops \in SUBSET OpsOf(T)
    BY DEF conflicting_and_disabling
  <2>3. Grows(T, s, x, a) /\ a.stubborn = x.stubborn \cup ops
    <3> HIDE DEF ops
    <3>1. QED
      BY <2>2, MarkIs
  <2> HIDE DEF y, a
  <2>4. MarksAre(T, s, a)
    BY <2>3 DEF Grows
  <2>5. f = MarkedFrom(T, s, o, a, f)
    BY <2>4, LoopExists
  <2> HIDE DEF f
  <2>6. /\ Grows(T, s, a, y)
        /\ \A p \in DisabledBy(T, s, o) :
             p \in y.stubborn \/ Range(T.ops[p].pre) \cap Guarded(T, s, y.stubborn) # {}
    BY <2>1, <2>4, <2>5, LoopIs
  <2>7. Grows(T, s, x, y)
    BY <2>3, <2>6, GrowsOn
  <2>8. ASSUME NEW p \in active_ops(T, s) \ {o}, can_conflict(T, o, p) \/ can_disable(T, p, o)
        PROVE  p \in y.stubborn
    <3>1. p \in ops
      BY <2>8, ActiveOperator DEF conflicting_and_disabling
    <3> HIDE DEF ops
    <3>2. QED
      BY <2>3, <2>6, <3>1 DEF Grows
  <2> HIDE DEF ops
  <2>9. IsHandled(T, s, y.stubborn, o)
    BY <1>2, <2>6, <2>8 DEF IsHandled, DisabledBy
  <2>10. QED
    BY <2>7, <2>9 DEF Handles, y
<1>3. QED
  BY <1>1, <1>2

-----------------------------------------------------------------------------
(* The invariant of StubbornSets.                                          *)

\* While a state is pruned: the marks are sound, a goal that is open is
\* guarded by the stubborn operators, and those that are not in the queue are
\* handled.
StubbornInv ==
  LET T == Tasks[sTask] IN
  /\ sTask \in DOMAIN Tasks
  /\ sKind = "none" => sMarks.queue = {}
  /\ sKind # "none" =>
       /\ ~ has_conditional_effects(T)
       /\ sState \in StatesOf(T)
       /\ MarksAre(T, sState, sMarks)
       /\ T.goal \cap Guarded(T, sState, sMarks.stubborn) # {}
       /\ \A o \in sMarks.stubborn \ sMarks.queue : IsHandled(T, sState, sMarks.stubborn, o)

StubbornStart ==
  \E t \in DOMAIN Tasks :
    StubbornIdle(t) \/ \E s \in StatesOf(Tasks[t]), kind \in {"simple", "ec"} : StubbornInit(t, s, kind)

LEMMA NoMarksAre ==
  ASSUME NEW T, NEW s
  PROVE  MarksAre(T, s, NoMarks) /\ NoMarks.stubborn = {} /\ NoMarks.queue = {}
BY DEF MarksAre, Marks, NoMarks

LEMMA StartHolds ==
  ASSUME StubbornStart
  PROVE  StubbornInv
<1>1. PICK t \in DOMAIN Tasks :
        StubbornIdle(t) \/ \E s \in StatesOf(Tasks[t]), kind \in {"simple", "ec"} : StubbornInit(t, s, kind)
  BY DEF StubbornStart
<1>2. CASE StubbornIdle(t)
  <2>1. sTask = t /\ sKind = "none" /\ sMarks.queue = {}
    BY <1>2, NoMarksAre DEF StubbornIdle
  <2>2. QED
    BY <2>1 DEF StubbornInv
<1>3. ASSUME NEW s \in StatesOf(Tasks[t]), NEW kind \in {"simple", "ec"}, StubbornInit(t, s, kind)
      PROVE  StubbornInv
  <2> DEFINE T == Tasks[t]
             u == find_unsatisfied_condition(s, T.goal)
  <2>1. IsTask(T)
    BY TasksAssumption DEF TasksAssumption
  <2>2. ~ has_conditional_effects(T) /\ sTask = t /\ sState = s /\ sKind = kind
    BY <1>3 DEF StubbornInit
  <2>3. T.goal \in SUBSET FactsOf(T)
    BY <2>1 DEF IsTask
  <2>4. \E f \in T.goal : s[f[1]] # f[2]
    BY <1>3 DEF StubbornInit, is_goal_state, Holds
  <2>5. u \in T.goal /\ s[u[1]] # u[2]
    <3> HIDE DEF T
    <3>1. QED
      BY <2>1, <2>3, <2>4, UnsatisfiedIs
  <2>6. sMarks = IF kind = "simple" THEN mark_as_stubborn(T, s, NoMarks, achievers(T, u))
                 ELSE add_nes_for_fact(T, s, NoMarks, u)
    BY <1>3 DEF StubbornInit
  <2> HIDE DEF T, u
  <2>7. u \in FactsOf(T) /\ achievers(T, u) \in SUBSET OpsOf(T)
    BY <2>3, <2>5 DEF achievers
  <2>8. Grows(T, s, NoMarks, sMarks) /\ u \in Guarded(T, s, sMarks.stubborn)
    <3>1. CASE kind = "simple"
      <4>1. sMarks = mark_as_stubborn(T, s, NoMarks, achievers(T, u))
        BY <2>6, <3>1
      <4>2. Grows(T, s, NoMarks, sMarks) /\ sMarks.stubborn = NoMarks.stubborn \cup achievers(T, u)
        <5>1. MarksAre(T, s, NoMarks)
          BY NoMarksAre
        <5>2. QED
          BY <2>1, <2>7, <4>1, <5>1, MarkIs
      <4>3. u \in Guarded(T, s, sMarks.stubborn)
        BY <2>5, <2>7, <4>2 DEF Guarded
      <4>4. QED
        BY <4>2, <4>3
    <3>2. CASE kind # "simple"
      <4>1. sMarks = add_nes_for_fact(T, s, NoMarks, u)
        BY <2>6, <3>2
      <4>2. QED
        BY <2>1, <2>5, <2>7, <4>1, NoMarksAre, NesIs
    <3>3. QED
      BY <3>1, <3>2
  <2>9. MarksAre(T, s, sMarks) /\ sMarks.queue = sMarks.stubborn
    BY <2>8, NoMarksAre DEF Grows
  <2>10. QED
    BY <2>2, <2>5, <2>8, <2>9 DEF StubbornInv, T
<1>4. QED
  BY <1>1, <1>2, <1>3

\* An operator is taken from the queue and handled.
LEMMA HandleKeeps ==
  ASSUME StubbornInv, NEW o, handle_stubborn_operator(o)
  PROVE  StubbornInv'
<1> DEFINE T == Tasks[sTask]
           s == sState
           x == [sMarks EXCEPT !.queue = @ \ {o}]
           y == sMarks'
           B == sMarks.stubborn
           C == y.stubborn
<1>1. o \in sMarks.queue /\ UNCHANGED <<sTask, sState, sKind>>
  BY DEF handle_stubborn_operator
<1>2. /\ sTask \in DOMAIN Tasks /\ sKind # "none" /\ ~ has_conditional_effects(T)
      /\ s \in StatesOf(T) /\ MarksAre(T, s, sMarks) /\ T.goal \cap Guarded(T, s, B) # {}
      /\ \A p \in B \ sMarks.queue : IsHandled(T, s, B, p)
  BY <1>1 DEF StubbornInv
<1>3. IsTask(T)
  BY <1>2, TasksAssumption DEF TasksAssumption
<1>4. sMarks \in Marks(T) /\ sMarks.queue \subseteq B /\ sMarks.nes \subseteq Guarded(T, s, B)
  BY <1>2 DEF MarksAre
<1>5. y = IF sKind = "simple" THEN handle_simple(T, s, x, o) ELSE handle_ec(T, s, x, o)
  BY DEF handle_stubborn_operator
<1> HIDE DEF T, s, x, y
<1>6. /\ x \in Marks(T) /\ x.stubborn = B /\ x.queue = sMarks.queue \ {o} /\ x.nes = sMarks.nes
      /\ o \in OpsOf(T)
  BY <1>1, <1>4 DEF Marks, x
<1>7. MarksAre(T, s, x)
  BY <1>4, <1>6 DEF MarksAre
<1>8. Handles(T, s, o, x, y)
  <2>1. CASE sKind = "simple"
    BY <1>3, <1>5, <1>6, <1>7, <2>1, SimpleIs
  <2>2. CASE sKind # "simple"
    BY <1>3, <1>5, <1>6, <1>7, <2>2, EcIs
  <2>3. QED
    BY <2>1, <2>2
<1>9. /\ MarksAre(T, s, y) /\ B \subseteq C /\ IsHandled(T, s, C, o)
      /\ y.queue = (sMarks.queue \ {o}) \cup (C \ B)
  BY <1>6, <1>8 DEF Handles, Grows
<1>10. T.goal \cap Guarded(T, s, C) # {}
  BY <1>2, <1>9, MoreGuarded
<1>11. ASSUME NEW p \in C \ y.queue
       PROVE  IsHandled(T, s, C, p)
  <2>1. CASE p = o
    BY <1>9, <2>1
  <2>2. CASE p # o
    <3>1. p \in B \ sMarks.queue
      BY <1>9, <2>2
    <3>2. QED
      BY <1>2, <1>9, <3>1, MoreHandled
  <2>3. QED
    BY <2>1, <2>2
<1>12. QED
  BY <1>1, <1>2, <1>9, <1>10, <1>11 DEF StubbornInv, T, s, y

\* At any time while a state is pruned (stubborn_sets.cc 93-128, with
\* handle_stubborn_operator of both variants) the operators that are marked
\* and not in the queue have all that the rules ask for, and what is noted as
\* a necessary enabling set was marked completely.
THEOREM StubbornHolds == StubbornSpec => []StubbornInv
<1>1. StubbornStart => StubbornInv
  BY StartHolds
<1>2. StubbornInv /\ [StubbornNext]_stubbornVars => StubbornInv'
  <2>1. CASE StubbornNext
    BY <2>1, HandleKeeps DEF StubbornNext
  <2>2. CASE UNCHANGED stubbornVars
    BY <2>2 DEF stubbornVars, StubbornInv
  <2>3. QED
    BY <2>1, <2>2
<1>3. QED
  BY <1>1, <1>2, PTL DEF StubbornSpec, StubbornStart

\* When the queue is empty, an operator with which a best plan starts, a
\* shortest one of the cheapest, is among those that are left: pruning
\* (stubborn_sets.cc 93-128) loses neither completeness nor optimality.
THEOREM PruningCorrect == StubbornSpec => []PruningKeepsPlans
<1>1. StubbornInv => PruningKeepsPlans
  <2> SUFFICES ASSUME StubbornInv, sKind # "none", sMarks.queue = {}, PlanMeasure[sTask][sState] < INFTY
               PROVE  \E e \in Transitions[sTask] :
                        /\ e[1] = sState /\ e[4] \in sMarks.stubborn
                        /\ PlanMeasure[sTask][sState] = 1000 * e[3] + 1 + PlanMeasure[sTask][e[2]]
    BY DEF PruningKeepsPlans
  <2> DEFINE B == sMarks.stubborn
  <2>1. /\ sTask \in DOMAIN Tasks /\ ~ has_conditional_effects(Tasks[sTask])
        /\ sState \in StatesOf(Tasks[sTask]) /\ MarksAre(Tasks[sTask], sState, sMarks)
        /\ Tasks[sTask].goal \cap Guarded(Tasks[sTask], sState, B) # {}
        /\ \A o \in B \ sMarks.queue : IsHandled(Tasks[sTask], sState, B, o)
    BY DEF StubbornInv
  <2>2. B \in SUBSET OpsOf(Tasks[sTask])
    BY <2>1 DEF MarksAre, Marks
  <2>3. \A o \in B : IsHandled(Tasks[sTask], sState, B, o)
    BY <2>1
  <2>4. QED
    BY <2>1, <2>2, <2>3, ClosedKeepsPlans
<1>2. QED
  BY <1>1, StubbornHolds, PTL

-----------------------------------------------------------------------------
(* Relaxed operators.                                                      *)

LEMMA FactsFinite ==
  ASSUME NEW T, IsTask(T)
  PROVE  IsFiniteSet(FactsOf(T)) /\ IsFiniteSet(Propositions(T))
<1> DEFINE n == Len(T.dom)
<1>1. n \in Nat /\ Vars(T) = 1 .. n
  BY DEF IsTask, Vars
<1>2. PICK b \in Nat : \A v \in Vars(T) : T.dom[v] \in 0 .. b
  BY DomainsBounded
<1>3. IsFiniteSet((1 .. n) \X (0 .. b))
  <2>1. IsFiniteSet(1 .. n) /\ IsFiniteSet(0 .. b)
    BY <1>1, FS_Interval
  <2>2. QED
    BY <2>1, FS_Product
<1>4. FactsOf(T) \in SUBSET ((1 .. n) \X (0 .. b))
  <2>1. ASSUME NEW f \in FactsOf(T)
        PROVE  f \in (1 .. n) \X (0 .. b)
    <3>1. f = <<f[1], f[2]>> /\ f[1] \in Vars(T) /\ f[2] \in Nat /\ f[2] < T.dom[f[1]]
      BY FactIs
    <3>2. T.dom[f[1]] \in 0 .. b
      BY <1>2, <3>1
    <3>3. f[1] \in 1 .. n /\ f[2] \in 0 .. b
      BY <1>1, <3>1, <3>2
    <3> HIDE DEF n
    <3>4. QED
      BY <3>1, <3>3
  <2>2. QED
    BY <2>1
<1>5. IsFiniteSet(FactsOf(T))
  BY <1>3, <1>4, FS_Subset
<1>6. IsFiniteSet({artificial_precondition, artificial_goal})
  <2>1. IsFiniteSet({artificial_precondition} \cup {artificial_goal})
    BY FS_Singleton, FS_AddElement
  <2>2. {artificial_precondition} \cup {artificial_goal} = {artificial_precondition, artificial_goal}
    OBVIOUS
  <2>3. QED
    BY <2>1, <2>2
<1>7. QED
  BY <1>5, <1>6, FS_Union DEF Propositions

\* Propositions that are no facts.
LEMMA ArtificialAre ==
  ASSUME NEW T, IsTask(T)
  PROVE  /\ artificial_precondition \notin FactsOf(T) /\ artificial_goal \notin FactsOf(T)
         /\ NoProposition \notin Propositions(T) /\ artificial_precondition # artificial_goal
<1>1. \A f \in FactsOf(T) : f[1] # 0
  <2>1. ASSUME NEW f \in FactsOf(T), f[1] = 0
        PROVE  FALSE
    <3>1. f[1] \in Vars(T)
      BY FactIs
    <3>2. Vars(T) = 1 .. Len(T.dom)
      BY DEF IsTask, Vars
    <3>3. QED
      BY <2>1, <3>1, <3>2
  <2>2. QED
    BY <2>1
<1>2. QED
  BY <1>1 DEF artificial_precondition, artificial_goal, NoProposition, Propositions

LEMMA EffectIs ==
  ASSUME NEW T, IsTask(T), NEW o \in OpsOf(T)
  PROVE  /\ T.ops[o].pre \in Seq(FactsOf(T)) /\ T.ops[o].effs \in Seq(Effects(T)) /\ T.ops[o].cost \in Nat
         /\ \A e \in Range(T.ops[o].effs) :
              /\ e.fact \in FactsOf(T) /\ e.cond \subseteq FactsOf(T)
              /\ Conditions(T, o, e) \subseteq FactsOf(T)
<1>1. Range(T.ops[o].pre) \subseteq FactsOf(T) /\ T.ops[o].effs \in Seq(Effects(T)) /\ T.ops[o].cost \in Nat
  BY OperatorIs
<1>2. ASSUME NEW e \in Range(T.ops[o].effs)
      PROVE  e.fact \in FactsOf(T) /\ e.cond \subseteq FactsOf(T)
  <2>1. e \in Effects(T)
    BY <1>1, ElementsOf
  <2>2. QED
    BY <2>1 DEF Effects
<1>3. T.ops[o].pre \in Seq(FactsOf(T))
  <2> DEFINE E == [pre : Seq(FactsOf(T)), cost : Nat, effs : Seq(Effects(T))]
  <2>1. T.ops \in Seq(E) /\ o \in DOMAIN T.ops
    BY DEF IsTask, OpsOf, Effects
  <2>2. T.ops[o] \in E
    <3> HIDE DEF E
    <3>1. QED
      BY <2>1, ElementOf
  <2>3. QED
    BY <2>2
<1>4. QED
  BY <1>1, <1>2, <1>3 DEF Conditions

\* A finite set as a sequence.
LEMMA SequenceIs ==
  ASSUME NEW S, IsFiniteSet(S)
  PROVE  SetToSeq(S) \in Seq(S) /\ Range(SetToSeq(S)) = S
<1> DEFINE n == Cardinality(S)
           q == SetToSeq(S)
<1>1. n \in Nat /\ ExistsBijection(1 .. n, S)
  BY FS_CardinalityType
<1>2. \E f \in [1 .. n -> S] : IsInjective(f)
  <2>1. PICK f : f \in Bijection(1 .. n, S)
    BY <1>1 DEF ExistsBijection
  <2>2. f \in [1 .. n -> S] /\ IsInjective(f)
    BY <2>1 DEF Bijection, Injection, IsInjective
  <2>3. QED
    BY <2>2
<1>3. q \in [1 .. n -> S] /\ IsInjective(q)
  BY <1>2 DEF SetToSeq
<1>4. q \in Injection(1 .. n, S)
  BY <1>3 DEF Injection, IsInjective
<1>5. Cardinality(1 .. n) = n
  <2> HIDE DEF n
  <2>1. QED
    BY <1>1, FS_Interval
<1>6. q \in Surjection(1 .. n, S)
  <2> HIDE DEF q
  <2>1. QED
    BY <1>4, <1>5, FS_Injection
<1>7. Range(q) = S
  <2> HIDE DEF q, n
  <2>1. QED
    BY <1>3, <1>6 DEF Surjection, Range
<1>8. q \in Seq(S)
  <2> HIDE DEF q, n
  <2>1. QED
    BY <1>1, <1>3
<1>9. QED
  BY <1>7, <1>8

LEMMA RangeOfBoth ==
  ASSUME NEW E, NEW a \in Seq(E), NEW b \in Seq(E)
  PROVE  a \o b \in Seq(E) /\ Range(a \o b) = Range(a) \cup Range(b)
<1> DEFINE c == a \o b
<1>1. /\ c \in Seq(E) /\ DOMAIN a = 1 .. Len(a) /\ DOMAIN b = 1 .. Len(b) /\ DOMAIN c = 1 .. Len(a) + Len(b)
      /\ Len(a) \in Nat /\ Len(b) \in Nat
  OBVIOUS
<1>2. \A k \in 1 .. Len(a) : c[k] = a[k] /\ k \in DOMAIN c
  OBVIOUS
<1>3. \A k \in 1 .. Len(b) : c[Len(a) + k] = b[k] /\ Len(a) + k \in DOMAIN c
  OBVIOUS
<1> HIDE DEF c
<1>4. ASSUME NEW k \in DOMAIN c
      PROVE  c[k] \in Range(a) \cup Range(b)
  <2>1. CASE k <= Len(a)
    <3>1. k \in 1 .. Len(a)
      BY <1>1, <2>1
    <3>2. QED
      BY <1>1, <1>2, <3>1 DEF Range
  <2>2. CASE ~ (k <= Len(a))
    <3>1. k - Len(a) \in 1 .. Len(b) /\ Len(a) + (k - Len(a)) = k
      BY <1>1, <2>2
    <3>2. QED
      BY <1>1, <1>3, <3>1 DEF Range
  <2>3. QED
    BY <2>1, <2>2
<1>5. Range(c) = Range(a) \cup Range(b)
  <2>1. Range(c) \subseteq Range(a) \cup Range(b)
    BY <1>4 DEF Range
  <2>2. Range(a) \subseteq Range(c)
    BY <1>1, <1>2 DEF Range
  <2>3. Range(b) \subseteq Range(c)
    BY <1>1, <1>3 DEF Range
  <2>4. QED
    BY <2>1, <2>2, <2>3
<1>6. QED
  BY <1>1, <1>5 DEF c

\* Sequences one after the other.
LEMMA FlattenIs ==
  ASSUME NEW E, NEW n \in Nat, NEW q \in [1 .. n -> Seq(E)]
  PROVE  /\ FlattenSeq(q) \in Seq(E)
         /\ Range(FlattenSeq(q)) = UNION {Range(q[i]) : i \in 1 .. n}
<1>1. Len(q) = n
  OBVIOUS
<1>2. CASE n = 0
  <2>1. FlattenSeq(q) = q /\ DOMAIN q = {}
    BY <1>1, <1>2 DEF FlattenSeq
  <2>2. q \in Seq(E)
    BY <1>2
  <2>3. QED
    BY <1>2, <2>1, <2>2 DEF Range
<1>3. CASE n # 0
  <2> DEFINE step == [x \in Seq(E) \X (1 .. n) |-> x[1] \o q[x[2]]]
             Body(f) == [i \in 1 .. n |-> IF i = 1 THEN q[i] ELSE f[i - 1] \o q[i]]
             flatten == CHOOSE f : f = Body(f)
  <2>1. step \in [Seq(E) \X (1 .. n) -> Seq(E)]
    OBVIOUS
  <2>2. HasPrefixFunction(n, Seq(E), <<>>, step)
    <3>1. <<>> \in Seq(E)
      OBVIOUS
    <3> HIDE DEF step
    <3>2. QED
      BY <2>1, <3>1, PrefixRecursion
  <2>3. PICK f \in [0 .. n -> Seq(E)] : f[0] = <<>> /\ \A i \in 1 .. n : f[i] = step[<<f[i - 1], i>>]
    <3> HIDE DEF step
    <3>1. QED
      BY <2>2, Zenon DEF HasPrefixFunction
  <2>4. \A i \in 1 .. n : f[i] = f[i - 1] \o q[i]
    <3> SUFFICES ASSUME NEW i \in 1 .. n
                 PROVE  f[i] = f[i - 1] \o q[i]
      OBVIOUS
    <3>1. i - 1 \in 0 .. n
      OBVIOUS
    <3>2. <<f[i - 1], i>> \in Seq(E) \X (1 .. n)
      BY <3>1
    <3>3. step[<<f[i - 1], i>>] = f[i - 1] \o q[i]
      BY <3>2
    <3>4. QED
      BY <2>3, <3>3
  <2> DEFINE g == [i \in 1 .. n |-> f[i]]
  <2>5. g = Body(g)
    <3>1. ASSUME NEW i \in 1 .. n
          PROVE  g[i] = IF i = 1 THEN q[i] ELSE g[i - 1] \o q[i]
      <4>1. CASE i = 1
        <5>1. q[i] \in Seq(E) /\ i - 1 = 0
          BY <4>1
        <5>2. f[i] = <<>> \o q[i]
          BY <2>3, <2>4, <5>1
        <5>3. <<>> \o q[i] = q[i]
          BY <5>1
        <5>4. QED
          BY <4>1, <5>2, <5>3
      <4>2. CASE i # 1
        <5>1. i - 1 \in 1 .. n
          BY <4>2
        <5>2. g[i - 1] = f[i - 1]
          BY <5>1
        <5>3. QED
          BY <2>4, <4>2, <5>2
      <4>3. QED
        BY <4>1, <4>2
    <3>2. g = [i \in 1 .. n |-> g[i]]
      OBVIOUS
    <3> HIDE DEF g
    <3>3. QED
      BY <3>1, <3>2
  <2>6. flatten = Body(flatten)
    <3> HIDE DEF Body, g
    <3>1. QED
      BY <2>5
  <2>7. FlattenSeq(q) = flatten[n]
    BY <1>1, <1>3 DEF FlattenSeq
  <2>8. \A i \in 1 .. n : flatten[i] = IF i = 1 THEN q[i] ELSE flatten[i - 1] \o q[i]
    <3> HIDE DEF flatten
    <3>1. QED
      BY <2>6
  <2> HIDE DEF flatten
  <2> DEFINE Good(i) == /\ flatten[i] \in Seq(E)
                        /\ Range(flatten[i]) = UNION {Range(q[j]) : j \in 1 .. i}
             A == {i \in 0 .. n : i # 0 => Good(i)}
  <2>9. 0 \in A
    OBVIOUS
  <2>10. \A i \in 0 .. n - 1 : i \in A => i + 1 \in A
    <3> SUFFICES ASSUME NEW i \in 0 .. n - 1, i \in A
                 PROVE  i + 1 \in A
      OBVIOUS
    <3>1. i + 1 \in 1 .. n /\ i + 1 \in 0 .. n /\ i + 1 - 1 = i /\ q[i + 1] \in Seq(E)
      OBVIOUS
    <3>2. CASE i = 0
      <4>1. flatten[1] = q[1] /\ 1 .. 1 = {1}
        BY <2>8, <3>1, <3>2
      <4>2. Good(1)
        BY <3>1, <3>2, <4>1
      <4>3. QED
        BY <3>1, <3>2, <4>2
    <3>3. CASE i # 0
      <4>1. Good(i)
        BY <3>3
      <4>2. flatten[i + 1] = flatten[i] \o q[i + 1]
        <5>1. PICK k \in 1 .. n : k = i + 1
          BY <3>1
        <5>2. k # 1 /\ k - 1 = i
          BY <3>3, <5>1
        <5> HIDE DEF Good, Body, g, A
        <5>3. flatten[k] = flatten[k - 1] \o q[k]
          BY <2>8, <5>2
        <5>4. QED
          BY <5>1, <5>2, <5>3
      <4>3. Range(flatten[i + 1]) = Range(flatten[i]) \cup Range(q[i + 1])
        BY <3>1, <4>1, <4>2, RangeOfBoth
      <4>4. 1 .. i + 1 = (1 .. i) \cup {i + 1}
        OBVIOUS
      <4>5. Good(i + 1)
        BY <3>1, <4>1, <4>2, <4>3, <4>4
      <4> HIDE DEF Good
      <4>6. QED
        BY <3>1, <4>5
    <3>4. QED
      BY <3>2, <3>3
  <2>11. n \in A
    <3> HIDE DEF A
    <3>1. \A i \in 0 .. n : i \in A
      BY <2>9, <2>10, Upward
    <3>2. QED
      BY <3>1
  <2>12. Good(n)
    BY <1>3, <2>11
  <2>13. QED
    BY <2>7, <2>12
<1>4. QED
  BY <1>2, <1>3

RelaxedOperators(T) == [group : 0 .. Len(T.ops), pre : Seq(Propositions(T)), effs : SUBSET Propositions(T)]

Before(F) == IF F = {} THEN {artificial_precondition} ELSE F

LEMMA RelaxedOperatorIs ==
  ASSUME NEW T, IsTask(T), NEW g \in 0 .. Len(T.ops), NEW pre \in Seq(FactsOf(T)), NEW E \in SUBSET Propositions(T)
  PROVE  LET r == RelaxedOperator(g, pre, E) IN
         /\ r \in RelaxedOperators(T) /\ r.pre # <<>>
         /\ r.group = g /\ r.effs = E /\ Range(r.pre) = Before(Range(pre))
<1> DEFINE q == IF pre = <<>> THEN <<artificial_precondition>> ELSE pre
           r == RelaxedOperator(g, pre, E)
<1>1. r = [group |-> g, pre |-> q, effs |-> E]
  BY DEF RelaxedOperator
<1>2. q \in Seq(Propositions(T)) /\ q # <<>> /\ Range(q) = Before(Range(pre))
  <2>1. CASE pre = <<>>
    <3>1. q = <<artificial_precondition>> /\ artificial_precondition \in Propositions(T)
      BY <2>1 DEF Propositions
    <3>2. Range(q) = {artificial_precondition} /\ Range(pre) = {}
      BY <2>1, <3>1 DEF Range
    <3> HIDE DEF q
    <3>3. q \in Seq(Propositions(T)) /\ q # <<>>
      BY <3>1
    <3>4. QED
      BY <3>2, <3>3 DEF Before
  <2>2. CASE pre # <<>>
    <3>1. pre \in Seq(Propositions(T)) /\ 1 \in DOMAIN pre
      BY <2>2 DEF Propositions
    <3>2. Range(pre) # {}
      BY <3>1 DEF Range
    <3>3. QED
      BY <2>2, <3>1, <3>2 DEF Before
  <2>3. QED
    BY <2>1, <2>2
<1>3. QED
  <2> HIDE DEF q
  <2>1. QED
    BY <1>1, <1>2 DEF RelaxedOperators

\* Relaxed operator r stands for effect e of operator o.
Relaxes(T, r, o, e) == r.group = o /\ Range(r.pre) = Before(Conditions(T, o, e)) /\ e.fact \in r.effs

\* It stands for nothing else.
StandsFor(T, r, o) ==
  /\ r.group = o /\ r.pre # <<>>
  /\ \A q \in r.effs : \E e \in Range(T.ops[o].effs) : e.fact = q /\ Relaxes(T, r, o, e)

StandsForGoal(T, r) ==
  r.group = 0 /\ r.pre # <<>> /\ Range(r.pre) = Before(T.goal) /\ r.effs = {artificial_goal}

LEMMA BuiltIs ==
  ASSUME NEW T, IsTask(T), NEW o \in OpsOf(T)
  PROVE  LET b == build_relaxed_operator(T, o) IN
         /\ b \in Seq(RelaxedOperators(T))
         /\ \A r \in Range(b) : StandsFor(T, r, o)
         /\ \A e \in Range(T.ops[o].effs) : \E r \in Range(b) : Relaxes(T, r, o, e)
<1> DEFINE R == RelaxedOperators(T)
           op == T.ops[o]
           n == Len(op.effs)
           always == {e.fact : e \in {f \in Range(op.effs) : f.cond = {}}}
           first == IF always = {} THEN <<>> ELSE <<RelaxedOperator(o, op.pre, always)>>
           single(e) == RelaxedOperator(o, op.pre \o SetToSeq(e.cond), {e.fact})
           others == [i \in DOMAIN op.effs |-> LET e == op.effs[i] IN IF e.cond = {} THEN <<>> ELSE <<single(e)>>]
           b == build_relaxed_operator(T, o)
<1>1. /\ op.pre \in Seq(FactsOf(T)) /\ op.effs \in Seq(Effects(T))
      /\ \A e \in Range(op.effs) : e.fact \in FactsOf(T) /\ e.cond \subseteq FactsOf(T)
  BY EffectIs
<1>2. o \in 0 .. Len(T.ops) /\ o \in 1 .. Len(T.ops)
  BY OperatorsAre
<1>3. FactsOf(T) \subseteq Propositions(T)
  BY DEF Propositions
<1>4. b = first \o FlattenSeq(others)
  BY DEF build_relaxed_operator
<1> HIDE DEF b
<1>5. /\ first \in Seq(R) /\ \A r \in Range(first) : StandsFor(T, r, o)
      /\ \A e \in Range(op.effs) : e.cond = {} => \E r \in Range(first) : Relaxes(T, r, o, e)
  <2>1. \A e \in Range(op.effs) : e.cond = {} => e.fact \in always /\ Conditions(T, o, e) = Range(op.pre)
    BY DEF Conditions
  <2>2. CASE always = {}
    <3>1. first = <<>> /\ Range(first) = {}
      BY <2>2 DEF Range
    <3> HIDE DEF first, R
    <3>2. first \in Seq(R)
      BY <3>1
    <3>3. QED
      BY <2>1, <2>2, <3>1, <3>2
  <2>3. CASE always # {}
    <3> DEFINE r == RelaxedOperator(o, op.pre, always)
    <3>1. always \in SUBSET Propositions(T)
      BY <1>1, <1>3
    <3> HIDE DEF always
    <3>2. /\ r \in R /\ r.pre # <<>> /\ r.group = o /\ r.effs = always
          /\ Range(r.pre) = Before(Range(op.pre))
      BY <1>1, <1>2, <3>1, RelaxedOperatorIs
    <3>3. first = <<r>> /\ Range(first) = {r}
      BY <2>3 DEF Range
    <3> HIDE DEF r, R, first
    <3>4. first \in Seq(R)
      BY <3>2, <3>3
    <3>5. \A e \in Range(op.effs) : e.cond = {} => Relaxes(T, r, o, e)
      BY <2>1, <3>2 DEF Relaxes
    <3>6. \A q \in always : \E e \in Range(op.effs) : e.fact = q /\ e.cond = {}
      BY DEF always
    <3>7. StandsFor(T, r, o)
      BY <3>2, <3>5, <3>6 DEF StandsFor
    <3>8. QED
      BY <3>3, <3>4, <3>5, <3>7
  <2>4. QED
    BY <2>2, <2>3
<1>6. ASSUME NEW i \in 1 .. n
      PROVE  /\ others[i] \in Seq(R) /\ \A r \in Range(others[i]) : StandsFor(T, r, o)
             /\ op.effs[i].cond # {} => \E r \in Range(others[i]) : Relaxes(T, r, o, op.effs[i])
  <2> DEFINE e == op.effs[i]
             r == single(e)
             pre == op.pre \o SetToSeq(e.cond)
  <2>1. i \in DOMAIN op.effs /\ e \in Range(op.effs)
    BY <1>1 DEF Range
  <2>2. others[i] = IF e.cond = {} THEN <<>> ELSE <<r>>
    BY <2>1
  <2>3. e.fact \in FactsOf(T) /\ e.cond \subseteq FactsOf(T)
    BY <1>1, <2>1
  <2> HIDE DEF e
  <2>4. SetToSeq(e.cond) \in Seq(FactsOf(T)) /\ Range(SetToSeq(e.cond)) = e.cond
    <3>1. IsFiniteSet(e.cond)
      BY <2>3, FactsFinite, FS_Subset
    <3>2. SetToSeq(e.cond) \in Seq(e.cond) /\ Range(SetToSeq(e.cond)) = e.cond
      BY <3>1, SequenceIs
    <3>3. QED
      BY <2>3, <3>2
  <2>5. pre \in Seq(FactsOf(T)) /\ Range(pre) = Conditions(T, o, e)
    <3>1. pre \in Seq(FactsOf(T)) /\ Range(pre) = Range(op.pre) \cup Range(SetToSeq(e.cond))
      BY <1>1, <2>4, RangeOfBoth
    <3>2. QED
      BY <2>4, <3>1 DEF Conditions
  <2> HIDE DEF pre
  <2>6. {e.fact} \in SUBSET Propositions(T)
    BY <1>3, <2>3
  <2>7. r = RelaxedOperator(o, pre, {e.fact})
    BY DEF pre
  <2> HIDE DEF r, op
  <2>8. /\ r \in R /\ r.pre # <<>> /\ r.group = o /\ r.effs = {e.fact}
        /\ Range(r.pre) = Before(Range(pre))
    BY <1>2, <2>5, <2>6, <2>7, RelaxedOperatorIs
  <2>9. Relaxes(T, r, o, e) /\ StandsFor(T, r, o)
    <3>1. Relaxes(T, r, o, e)
      BY <2>5, <2>8 DEF Relaxes
    <3>2. QED
      BY <2>1, <2>8, <3>1 DEF StandsFor, op
  <2> HIDE DEF R
  <2>10. CASE e.cond = {}
    <3>1. others[i] = <<>> /\ Range(<<>>) = {} /\ <<>> \in Seq(R)
      BY <2>2, <2>10 DEF Range
    <3> HIDE DEF others
    <3>2. QED
      BY <2>10, <3>1 DEF e
  <2>11. CASE e.cond # {}
    <3>1. Range(<<r>>) = {r} /\ <<r>> \in Seq(R)
      BY <2>8 DEF Range
    <3>2. others[i] = <<r>>
      BY <2>2, <2>11
    <3> HIDE DEF others
    <3>3. QED
      BY <2>9, <2>11, <3>1, <3>2 DEF e
  <2>12. QED
    BY <2>10, <2>11
<1>7. n \in Nat /\ DOMAIN op.effs = 1 .. n
  BY <1>1
<1>8. others \in [1 .. n -> Seq(R)]
  <2>1. others = [i \in 1 .. n |-> others[i]]
    BY <1>7
  <2> HIDE DEF others, R, n
  <2>2. QED
    BY <1>6, <2>1
<1> HIDE DEF first, others, R, n
<1>9. /\ FlattenSeq(others) \in Seq(R)
      /\ Range(FlattenSeq(others)) = UNION {Range(others[i]) : i \in 1 .. n}
  BY <1>7, <1>8, FlattenIs
<1>10. b \in Seq(R) /\ Range(b) = Range(first) \cup Range(FlattenSeq(others))
  BY <1>4, <1>5, <1>9, RangeOfBoth
<1>11. ASSUME NEW r \in Range(b)
       PROVE  StandsFor(T, r, o)
  BY <1>5, <1>6, <1>9, <1>10
<1>12. ASSUME NEW e \in Range(op.effs)
       PROVE  \E r \in Range(b) : Relaxes(T, r, o, e)
  <2>1. CASE e.cond = {}
    BY <1>5, <1>10, <2>1
  <2>2. CASE e.cond # {}
    <3>1. PICK i \in 1 .. n : e = op.effs[i]
      BY <1>7 DEF Range
    <3>2. PICK r \in Range(others[i]) : Relaxes(T, r, o, op.effs[i])
      BY <1>6, <2>2, <3>1
    <3>3. r \in Range(b)
      BY <1>9, <1>10, <3>2
    <3>4. QED
      BY <3>1, <3>2, <3>3
  <2>3. QED
    BY <2>1, <2>2
<1>13. QED
  BY <1>10, <1>11, <1>12 DEF b, R

\* What the exploration needs to know of its operators.
OperatorsFit(T, ops) ==
  /\ ops \in Seq(RelaxedOperators(T))
  /\ \A i \in DOMAIN ops : StandsForGoal(T, ops[i]) \/ \E o \in OpsOf(T) : StandsFor(T, ops[i], o)
  /\ \A o \in OpsOf(T) : \A e \in Range(T.ops[o].effs) : \E i \in DOMAIN ops : Relaxes(T, ops[i], o, e)
  /\ \E i \in DOMAIN ops : StandsForGoal(T, ops[i])

LEMMA RelaxedOperatorsFit ==
  ASSUME NEW t \in DOMAIN Tasks, IsTask(Tasks[t])
  PROVE  OperatorsFit(Tasks[t], relaxed_operators[t])
<1> DEFINE T == Tasks[t]
           R == RelaxedOperators(T)
           n == Len(T.ops)
           q == [o \in OpsOf(T) |-> build_relaxed_operator(T, o)]
           goal == RelaxedOperator(0, SetToSeq(T.goal), {artificial_goal})
           ops == relaxed_operators[t]
<1>1. ops = FlattenSeq(q) \o <<goal>>
  BY DEF relaxed_operators
<1>2. n \in Nat /\ OpsOf(T) = 1 .. n /\ 0 \in 0 .. n
  BY OperatorsAre
<1> HIDE DEF T, ops, n
<1>3. ASSUME NEW o \in OpsOf(T)
      PROVE  /\ q[o] \in Seq(R) /\ \A r \in Range(q[o]) : StandsFor(T, r, o)
             /\ \A e \in Range(T.ops[o].effs) : \E r \in Range(q[o]) : Relaxes(T, r, o, e)
  <2>1. q[o] = build_relaxed_operator(T, o)
    OBVIOUS
  <2> HIDE DEF q
  <2>2. QED
    BY <2>1, BuiltIs DEF T
<1>4. q \in [1 .. n -> Seq(R)]
  <2>1. q = [o \in 1 .. n |-> q[o]]
    BY <1>2
  <2> HIDE DEF q, R
  <2>2. QED
    BY <1>2, <1>3, <2>1
<1> HIDE DEF q
<1>5. FlattenSeq(q) \in Seq(R) /\ Range(FlattenSeq(q)) = UNION {Range(q[o]) : o \in 1 .. n}
  <2> HIDE DEF R
  <2>1. QED
    BY <1>2, <1>4, FlattenIs
<1>6. goal \in R /\ StandsForGoal(T, goal)
  <2>1. IsFiniteSet(T.goal) /\ T.goal \subseteq FactsOf(T)
    <3>1. T.goal \in SUBSET FactsOf(T)
      BY DEF IsTask, T
    <3>2. QED
      BY <3>1, FactsFinite, FS_Subset DEF T
  <2>2. SetToSeq(T.goal) \in Seq(FactsOf(T)) /\ Range(SetToSeq(T.goal)) = T.goal
    <3>1. SetToSeq(T.goal) \in Seq(T.goal) /\ Range(SetToSeq(T.goal)) = T.goal
      BY <2>1, SequenceIs
    <3>2. QED
      BY <2>1, <3>1
  <2>3. {artificial_goal} \in SUBSET Propositions(T)
    BY DEF Propositions
  <2>4. /\ goal \in R /\ goal.pre # <<>> /\ goal.group = 0 /\ goal.effs = {artificial_goal}
        /\ Range(goal.pre) = Before(Range(SetToSeq(T.goal)))
    BY <1>2, <2>2, <2>3, RelaxedOperatorIs DEF T, n
  <2> HIDE DEF goal
  <2>5. QED
    BY <2>2, <2>4 DEF StandsForGoal
<1> HIDE DEF goal, R
<1>7. ops \in Seq(R) /\ Range(ops) = Range(FlattenSeq(q)) \cup {goal}
  <2>1. <<goal>> \in Seq(R) /\ Range(<<goal>>) = {goal}
    BY <1>6 DEF Range
  <2> DEFINE a == FlattenSeq(q)
             b == <<goal>>
  <2>2. a \in Seq(R) /\ b \in Seq(R) /\ Range(b) = {goal}
    BY <1>5, <2>1
  <2> HIDE DEF a, b
  <2>3. a \o b \in Seq(R) /\ Range(a \o b) = Range(a) \cup Range(b)
    BY <2>2, RangeOfBoth
  <2>4. QED
    BY <1>1, <2>2, <2>3 DEF a, b
<1>8. ASSUME NEW r \in Range(ops)
      PROVE  StandsForGoal(T, r) \/ \E o \in OpsOf(T) : StandsFor(T, r, o)
  <2>1. CASE r = goal
    BY <1>6, <2>1
  <2>2. CASE r # goal
    <3>1. PICK o \in 1 .. n : r \in Range(q[o])
      BY <1>5, <1>7, <2>2
    <3>2. QED
      BY <1>2, <1>3, <3>1
  <2>3. QED
    BY <2>1, <2>2
<1>9. ASSUME NEW o \in OpsOf(T), NEW e \in Range(T.ops[o].effs)
      PROVE  \E r \in Range(ops) : Relaxes(T, r, o, e)
  <2>1. PICK r \in Range(q[o]) : Relaxes(T, r, o, e)
    BY <1>3
  <2>2. r \in Range(ops)
    BY <1>2, <1>5, <1>7, <2>1
  <2>3. QED
    BY <2>1, <2>2
<1>10. \A i \in DOMAIN ops : ops[i] \in Range(ops)
  BY DEF Range
<1>11. \A r \in Range(ops) : \E i \in DOMAIN ops : r = ops[i]
  BY DEF Range
<1>12. goal \in Range(ops)
  BY <1>7
<1>13. \A o \in OpsOf(T) : \A e \in Range(T.ops[o].effs) : \E i \in DOMAIN ops : Relaxes(T, ops[i], o, e)
  <2>1. ASSUME NEW o \in OpsOf(T), NEW e \in Range(T.ops[o].effs)
        PROVE  \E i \in DOMAIN ops : Relaxes(T, ops[i], o, e)
    <3>1. PICK r \in Range(ops) : Relaxes(T, r, o, e)
      BY <1>9
    <3>2. QED
      BY <1>11, <3>1
  <2>2. QED
    BY <2>1
<1>14. OperatorsFit(T, ops)
  BY <1>6, <1>7, <1>8, <1>10, <1>11, <1>12, <1>13 DEF OperatorsFit, R
<1>15. QED
  BY <1>14 DEF T, ops

-----------------------------------------------------------------------------
(* Costs and the queue.                                                    *)

Values(T) == [Propositions(T) -> Nat \cup {-1}]

Better(v, offers) == {o \in offers : v[o[2]] = -1 \/ v[o[2]] > o[1]}
Best(v, offers) == {o \in Better(v, offers) : \A n \in Better(v, offers) : n[2] = o[2] => o[1] <= n[1]}
Lowered(v, offers) ==
  [p \in DOMAIN v |-> IF \E o \in Best(v, offers) : o[2] = p
                      THEN (CHOOSE o \in Best(v, offers) : o[2] = p)[1] ELSE v[p]]

LEMMA LoweredIs ==
  ASSUME NEW T, NEW v \in Values(T), NEW offers \in SUBSET (Nat \X Propositions(T))
  PROVE  LET w == Lowered(v, offers) B == Best(v, offers) IN
         /\ w \in Values(T)
         /\ \A p \in Propositions(T) :
              \/ w[p] = v[p] /\ \A o \in offers : o[2] = p => v[p] # -1 /\ v[p] <= o[1]
              \/ <<w[p], p>> \in B /\ (v[p] = -1 \/ w[p] < v[p]) /\ w[p] \in Nat
         /\ \A b \in B : b \in offers /\ b = <<w[b[2]], b[2]>>
         /\ \A o \in offers : w[o[2]] # -1 /\ w[o[2]] <= o[1]
<1> DEFINE w == Lowered(v, offers)
           B == Best(v, offers)
           A == Better(v, offers)
           P == Propositions(T)
<1>1. v \in [P -> Nat \cup {-1}] /\ DOMAIN v = P
  BY DEF Values
<1>2. ASSUME NEW o \in offers
      PROVE  o[1] \in Nat /\ o[2] \in P /\ o = <<o[1], o[2]>>
  OBVIOUS
<1>3. \A o \in B : o \in A /\ \A n \in A : n[2] = o[2] => o[1] <= n[1]
  BY DEF Best
<1>4. \A o \in offers : o \in A <=> (v[o[2]] = -1 \/ v[o[2]] > o[1])
  BY DEF Better
<1>5. A \subseteq offers
  BY DEF Better
<1> HIDE DEF P
<1>6. ASSUME NEW p \in P
      PROVE  /\ \A o \in B : o[2] = p => o = <<w[p], p>>
             /\ (\E o \in A : o[2] = p) => \E o \in B : o[2] = p
             /\ (~ \E o \in B : o[2] = p) => w[p] = v[p]
  <2>1. w[p] = IF \E o \in B : o[2] = p THEN (CHOOSE o \in B : o[2] = p)[1] ELSE v[p]
    BY <1>1 DEF Lowered
  <2> HIDE DEF w
  <2>2. ASSUME NEW o \in B, o[2] = p
        PROVE  o = <<w[p], p>>
    <3> DEFINE b == CHOOSE n \in B : n[2] = p
    <3>1. b \in B /\ b[2] = p
      BY <2>2
    <3> HIDE DEF b, B, A
    <3>2. o \in A /\ b \in A /\ o \in offers /\ b \in offers
      BY <1>3, <1>5, <2>2, <3>1
    <3>3. o[1] <= b[1] /\ b[1] <= o[1]
      BY <1>3, <2>2, <3>1, <3>2
    <3>4. o[1] = b[1]
      BY <1>2, <3>2, <3>3
    <3>5. w[p] = b[1]
      BY <2>1, <2>2 DEF b
    <3>6. QED
      BY <1>2, <2>2, <3>2, <3>4, <3>5
  <2>3. ASSUME NEW a \in A, a[2] = p
        PROVE  \E o \in B : o[2] = p
    <3> DEFINE N == {o[1] : o \in {n \in A : n[2] = p}}
    <3> HIDE DEF A, B
    <3>1. N \in SUBSET Nat /\ N # {}
      <4>1. a[1] \in N
        BY <2>3
      <4>2. ASSUME NEW m \in N
            PROVE  m \in Nat
        BY <1>2, <1>5
      <4> HIDE DEF N
      <4>3. QED
        BY <4>1, <4>2
    <3>2. PICK m \in N : \A n \in N : m <= n
      <4> HIDE DEF N
      <4>1. QED
        BY <3>1, LeastNatural
    <3>3. PICK o \in A : o[2] = p /\ o[1] = m
      OBVIOUS
    <3>4. \A n \in A : n[2] = o[2] => o[1] <= n[1]
      <4>1. \A n \in A : n[2] = p => n[1] \in N
        OBVIOUS
      <4> HIDE DEF N
      <4>2. QED
        BY <3>2, <3>3, <4>1
    <3>5. o \in B
      BY <3>4 DEF A, B, Best
    <3>6. QED
      BY <3>3, <3>5
  <2>4. QED
    BY <2>1, <2>2, <2>3
<1> HIDE DEF w, A, B
<1>7. ASSUME NEW b \in B
      PROVE  b \in offers /\ b = <<w[b[2]], b[2]>>
  BY <1>2, <1>3, <1>5, <1>6
<1>8. ASSUME NEW p \in P
      PROVE  /\ w[p] \in Nat \cup {-1}
             /\ \/ w[p] = v[p] /\ \A o \in offers : o[2] = p => v[p] # -1 /\ v[p] <= o[1]
                \/ <<w[p], p>> \in B /\ (v[p] = -1 \/ w[p] < v[p]) /\ w[p] \in Nat
  <2>1. CASE \E o \in B : o[2] = p
    <3>1. PICK o \in B : o[2] = p
      BY <2>1
    <3>2. o = <<w[p], p>> /\ o \in offers /\ o \in A
      BY <1>3, <1>6, <1>7, <3>1
    <3>3. o[1] = w[p] /\ o[1] \in Nat
      BY <1>2, <3>2
    <3>4. v[p] = -1 \/ v[p] > w[p]
      BY <1>4, <3>1, <3>2, <3>3
    <3>5. v[p] \in Nat \cup {-1}
      BY <1>1
    <3>6. QED
      BY <3>1, <3>2, <3>3, <3>4, <3>5
  <2>2. CASE ~ \E o \in B : o[2] = p
    <3>1. w[p] = v[p] /\ v[p] \in Nat \cup {-1}
      BY <1>1, <1>6, <2>2
    <3>2. ASSUME NEW o \in offers, o[2] = p
          PROVE  v[p] # -1 /\ v[p] <= o[1]
      <4>1. o \notin A
        BY <1>6, <2>2, <3>2
      <4>2. ~ (v[p] = -1 \/ v[p] > o[1])
        BY <1>4, <3>2, <4>1
      <4>3. o[1] \in Nat
        BY <1>2
      <4>4. QED
        BY <3>1, <4>2, <4>3
    <3>3. QED
      BY <3>1, <3>2
  <2>3. QED
    BY <2>1, <2>2
<1>9. w \in Values(T)
  <2>1. w = [p \in P |-> w[p]]
    BY <1>1 DEF w, Lowered
  <2>2. QED
    BY <1>8, <2>1 DEF Values, P
<1>10. ASSUME NEW o \in offers
       PROVE  w[o[2]] # -1 /\ w[o[2]] <= o[1]
  <2> DEFINE p == o[2]
  <2>1. p \in P /\ o[1] \in Nat
    BY <1>2
  <2>2. CASE w[p] = v[p] /\ \A n \in offers : n[2] = p => v[p] # -1 /\ v[p] <= n[1]
    BY <2>2
  <2>3. CASE <<w[p], p>> \in B /\ (v[p] = -1 \/ w[p] < v[p]) /\ w[p] \in Nat
    <3>1. CASE o \in A
      <4>1. <<w[p], p>>[1] <= o[1]
        BY <1>3, <2>3, <3>1
      <4>2. QED
        BY <2>3, <4>1
    <3>2. CASE o \notin A
      <4>1. ~ (v[p] = -1 \/ v[p] > o[1]) /\ v[p] \in Nat \cup {-1}
        BY <1>1, <1>4, <2>1, <3>2
      <4>2. QED
        BY <2>1, <2>3, <4>1
    <3>3. QED
      BY <3>1, <3>2
  <2>4. QED
    BY <1>8, <2>1, <2>2, <2>3
<1>11. QED
  BY <1>7, <1>8, <1>9, <1>10 DEF w, B, P

LEMMA EnqueueIs ==
  ASSUME NEW v, NEW Q, NEW offers
  PROVE  LET y == enqueue_all_necessary([hmax |-> v, queue |-> Q], offers) IN
         y.hmax = Lowered(v, offers) /\ y.queue = Q \cup Best(v, offers)
<1> DEFINE x == [hmax |-> v, queue |-> Q]
           y == [x EXCEPT !.hmax = Lowered(@, offers), !.queue = @ \cup Best(x.hmax, offers)]
<1>1. enqueue_all_necessary(x, offers) = y
  BY DEF enqueue_all_necessary, Lowered, Best, Better
<1>2. x.hmax = v /\ x.queue = Q
  OBVIOUS
<1> DEFINE g == Lowered(v, offers)
           b == Best(v, offers)
<1>3. y = [x EXCEPT !.hmax = g, !.queue = Q \cup b]
  BY <1>2
<1> HIDE DEF g, b, y
<1>4. y.hmax = g /\ y.queue = Q \cup b
  BY <1>3
<1>5. QED
  BY <1>1, <1>4 DEF g, b

\* What changes together when the operators of a proposition are updated.
Explored(T, ops) ==
  [hmax : Values(T), queue : SUBSET (Nat \X Propositions(T)),
   supporter : [DOMAIN ops -> Propositions(T) \cup {NoProposition}], supporter_cost : [DOMAIN ops -> Nat]]

LEMMA EnqueueInIs ==
  ASSUME NEW T, NEW ops, NEW x \in Explored(T, ops), NEW offers \in SUBSET (Nat \X Propositions(T))
  PROVE  LET y == enqueue_all_necessary(x, offers) IN
         /\ y \in Explored(T, ops)
         /\ y.hmax = Lowered(x.hmax, offers) /\ y.queue = x.queue \cup Best(x.hmax, offers)
         /\ y.supporter = x.supporter /\ y.supporter_cost = x.supporter_cost
<1> DEFINE y == [x EXCEPT !.hmax = Lowered(@, offers), !.queue = @ \cup Best(x.hmax, offers)]
           g == Lowered(x.hmax, offers)
           b == Best(x.hmax, offers)
<1>1. enqueue_all_necessary(x, offers) = y
  BY DEF enqueue_all_necessary, Lowered, Best, Better
<1>2. y = [x EXCEPT !.hmax = g, !.queue = x.queue \cup b]
  OBVIOUS
<1>3. g \in Values(T) /\ b \subseteq offers
  <2>1. x.hmax \in Values(T)
    BY DEF Explored
  <2>2. QED
    BY <2>1, LoweredIs DEF Best, Better
<1> HIDE DEF g, b, y
<1>4. /\ y.hmax = g /\ y.queue = x.queue \cup b
      /\ y.supporter = x.supporter /\ y.supporter_cost = x.supporter_cost
  BY <1>2 DEF Explored
<1>5. y \in Explored(T, ops)
  BY <1>2, <1>3 DEF Explored
<1>6. QED
  BY <1>1, <1>4, <1>5 DEF g, b

\* Potentials: what no operator raises by more than it costs.
IsPotential(T, ops, s, cost, phi) ==
  /\ phi \in [Propositions(T) -> Nat]
  /\ \A p \in SourcesOf(s) : phi[p] = 0
  /\ \A i \in DOMAIN ops : \A q \in ops[i].effs :
       \E p \in Range(ops[i].pre) : phi[q] <= phi[p] + CostOf(cost, ops[i])

\* No potential is above the costs.
NeverBelow(T, ops, s, cost, v) ==
  \A phi \in [Propositions(T) -> Nat] :
    IsPotential(T, ops, s, cost, phi) => \A p \in Propositions(T) : v[p] # -1 => phi[p] <= v[p]

CostsHold(T, ops, s, cost, v, Q) ==
  /\ v \in Values(T) /\ Q \in SUBSET (Nat \X Propositions(T))
  /\ \A e \in Q : v[e[2]] # -1 /\ v[e[2]] <= e[1]
  /\ \A p \in SourcesOf(s) : v[p] = 0
  /\ NeverBelow(T, ops, s, cost, v)

\* Offers that no potential is above.
OffersHold(T, ops, s, cost, offers) ==
  /\ offers \in SUBSET (Nat \X Propositions(T))
  /\ \A phi \in [Propositions(T) -> Nat] :
       IsPotential(T, ops, s, cost, phi) => \A o \in offers : phi[o[2]] <= o[1]

\* What is reached stays reached and only gets cheaper.
Falls(T, v, w) == \A p \in Propositions(T) : v[p] # -1 => w[p] # -1 /\ w[p] <= v[p]

\* The propositions a state starts with.
LEMMA SourcesAre ==
  ASSUME NEW T, IsTask(T), NEW s \in StatesOf(T)
  PROVE  FactsIn(s) \subseteq FactsOf(T) /\ SourcesOf(s) \subseteq Propositions(T)
<1>1. s \in [Vars(T) -> Nat] /\ \A x \in Vars(T) : s[x] < T.dom[x]
  BY StatesAre
<1>2. ASSUME NEW x \in Vars(T)
      PROVE  <<x, s[x]>> \in FactsOf(T)
  <2>1. T.dom[x] \in Nat /\ s[x] \in Nat /\ s[x] < T.dom[x]
    BY <1>1, DomainIs
  <2>2. s[x] \in 0 .. T.dom[x] - 1
    BY <2>1
  <2>3. QED
    BY <2>2 DEF FactsOf
<1>3. FactsIn(s) \subseteq FactsOf(T)
  BY <1>1, <1>2 DEF FactsIn
<1>4. QED
  BY <1>3 DEF SourcesOf, Propositions

LEMMA EnqueueKeeps ==
  ASSUME NEW T, IsTask(T), NEW ops, NEW s \in StatesOf(T), NEW cost, NEW v, NEW Q,
         CostsHold(T, ops, s, cost, v, Q),
         NEW offers, OffersHold(T, ops, s, cost, offers)
  PROVE  LET w == Lowered(v, offers) R == Q \cup Best(v, offers) IN
         /\ CostsHold(T, ops, s, cost, w, R) /\ Falls(T, v, w)
         /\ \A p \in Propositions(T) : w[p] = v[p] \/ <<w[p], p>> \in R
         /\ \A o \in offers : w[o[2]] # -1 /\ w[o[2]] <= o[1]
<1> DEFINE w == Lowered(v, offers)
           B == Best(v, offers)
           R == Q \cup B
           P == Propositions(T)
<1>1. v \in Values(T) /\ Q \in SUBSET (Nat \X P) /\ offers \in SUBSET (Nat \X P)
  BY DEF CostsHold, OffersHold
<1>2. /\ w \in Values(T)
      /\ \A p \in P :
           \/ w[p] = v[p] /\ \A o \in offers : o[2] = p => v[p] # -1 /\ v[p] <= o[1]
           \/ <<w[p], p>> \in B /\ (v[p] = -1 \/ w[p] < v[p]) /\ w[p] \in Nat
      /\ \A b \in B : b \in offers /\ b = <<w[b[2]], b[2]>>
      /\ \A o \in offers : w[o[2]] # -1 /\ w[o[2]] <= o[1]
  BY <1>1, LoweredIs
<1> HIDE DEF w, B
<1>3. \A p \in P : v[p] \in Nat \cup {-1} /\ w[p] \in Nat \cup {-1}
  BY <1>1, <1>2 DEF Values
<1> HIDE DEF P
<1>4. Falls(T, v, w)
  <2>1. ASSUME NEW p \in P, v[p] # -1
        PROVE  w[p] # -1 /\ w[p] <= v[p]
    <3>1. v[p] \in Nat /\ w[p] \in Nat \cup {-1}
      BY <1>3, <2>1
    <3>2. w[p] = v[p] \/ (w[p] < v[p] /\ w[p] \in Nat)
      BY <1>2, <2>1
    <3>3. QED
      BY <3>1, <3>2
  <2>2. QED
    BY <2>1 DEF Falls, P
<1>5. ASSUME NEW e \in R
      PROVE  w[e[2]] # -1 /\ w[e[2]] <= e[1]
  <2>1. CASE e \in Q
    <3>1. v[e[2]] # -1 /\ v[e[2]] <= e[1] /\ e[2] \in P /\ e[1] \in Nat
      BY <1>1, <2>1 DEF CostsHold
    <3>2. w[e[2]] # -1 /\ w[e[2]] <= v[e[2]]
      BY <1>4, <3>1 DEF Falls, P
    <3>3. QED
      BY <1>3, <3>1, <3>2
  <2>2. CASE e \in B
    BY <1>2, <2>2
  <2>3. QED
    BY <2>1, <2>2
<1>6. R \in SUBSET (Nat \X P)
  BY <1>1, <1>2
<1>7. SourcesOf(s) \subseteq P
  BY SourcesAre DEF P
<1>8. \A p \in SourcesOf(s) : w[p] = 0
  <2>1. ASSUME NEW p \in SourcesOf(s)
        PROVE  w[p] = 0
    <3>1. v[p] = 0 /\ p \in P
      BY <1>7 DEF CostsHold
    <3>2. w[p] # -1 /\ w[p] <= 0
      BY <1>4, <3>1 DEF Falls, P
    <3>3. QED
      BY <1>3, <3>1, <3>2
  <2>2. QED
    BY <2>1
<1>9. NeverBelow(T, ops, s, cost, w)
  <2>1. ASSUME NEW phi \in [P -> Nat], IsPotential(T, ops, s, cost, phi), NEW p \in P, w[p] # -1
        PROVE  phi[p] <= w[p]
    <3>1. CASE w[p] = v[p]
      BY <2>1, <3>1 DEF CostsHold, NeverBelow, P
    <3>2. CASE <<w[p], p>> \in B
      <4>1. <<w[p], p>> \in offers
        BY <1>2, <3>2
      <4>2. \A o \in offers : phi[o[2]] <= o[1]
        BY <2>1 DEF OffersHold, P
      <4>3. QED
        BY <4>1, <4>2
    <3>3. QED
      BY <1>2, <3>1, <3>2
  <2>2. QED
    BY <2>1 DEF NeverBelow, P
<1>10. CostsHold(T, ops, s, cost, w, R)
  BY <1>2, <1>5, <1>6, <1>8, <1>9 DEF CostsHold, P
<1>11. \A p \in P : w[p] = v[p] \/ <<w[p], p>> \in R
  BY <1>2
<1>12. QED
  BY <1>2, <1>4, <1>10, <1>11 DEF w, B, P

-----------------------------------------------------------------------------
(* Offers.                                                                 *)

LEMMA RelaxedOpIs ==
  ASSUME NEW T, IsTask(T), NEW ops, OperatorsFit(T, ops), NEW i \in DOMAIN ops
  PROVE  /\ ops[i].pre \in Seq(Propositions(T)) /\ ops[i].pre # <<>>
         /\ Range(ops[i].pre) \subseteq Propositions(T) /\ Range(ops[i].pre) # {}
         /\ ops[i].effs \subseteq Propositions(T)
         /\ ops[i].group = 0 \/ ops[i].group \in OpsOf(T)
         /\ DOMAIN ops = 1 .. Len(ops) /\ Len(ops) \in Nat
<1> DEFINE R == RelaxedOperators(T)
<1>1. ops \in Seq(R)
  BY DEF OperatorsFit
<1>2. ops[i] \in R /\ DOMAIN ops = 1 .. Len(ops) /\ Len(ops) \in Nat
  <2> HIDE DEF R
  <2>1. QED
    BY <1>1, ElementOf
<1>3. ops[i].pre # <<>>
  BY DEF OperatorsFit, StandsForGoal, StandsFor
<1>4. /\ ops[i].pre \in Seq(Propositions(T)) /\ ops[i].effs \subseteq Propositions(T)
      /\ ops[i].group \in 0 .. Len(T.ops)
  BY <1>2 DEF RelaxedOperators
<1>5. Range(ops[i].pre) \subseteq Propositions(T) /\ Range(ops[i].pre) # {}
  <2> DEFINE q == ops[i].pre
  <2>1. q \in Seq(Propositions(T)) /\ q # <<>>
    BY <1>3, <1>4
  <2> HIDE DEF q
  <2>2. 1 \in DOMAIN q
    BY <2>1
  <2>3. Range(q) \subseteq Propositions(T) /\ Range(q) # {}
    BY <2>1, <2>2, ElementsOf DEF Range
  <2>4. QED
    BY <2>3 DEF q
<1>6. OpsOf(T) = 1 .. Len(T.ops) /\ Len(T.ops) \in Nat
  BY OperatorsAre
<1>7. QED
  BY <1>2, <1>3, <1>4, <1>5, <1>6

Costs(T) == [OpsOf(T) -> Nat]

LEMMA CostOfIs ==
  ASSUME NEW T, IsTask(T), NEW ops, OperatorsFit(T, ops), NEW cost \in Costs(T), NEW i \in DOMAIN ops
  PROVE  CostOf(cost, ops[i]) \in Nat
BY RelaxedOpIs DEF CostOf, Costs

\* What an operator offers for a cost that all its preconditions have.
LEMMA OffersJustified ==
  ASSUME NEW T, IsTask(T), NEW ops, OperatorsFit(T, ops), NEW s, NEW cost \in Costs(T),
         NEW v \in Values(T), NeverBelow(T, ops, s, cost, v),
         NEW i \in DOMAIN ops, NEW c \in Nat,
         \A p \in Range(ops[i].pre) : v[p] # -1 /\ v[p] <= c
  PROVE  OffersHold(T, ops, s, cost, Offers(cost, ops[i], c))
<1> DEFINE d == CostOf(cost, ops[i])
           P == Propositions(T)
<1>1. d \in Nat /\ Range(ops[i].pre) \subseteq P /\ ops[i].effs \subseteq P
  BY CostOfIs, RelaxedOpIs
<1> HIDE DEF d, P
<1>2. \A o \in Offers(cost, ops[i], c) : \E q \in ops[i].effs : o = <<c + d, q>>
  BY DEF Offers, d
<1>3. Offers(cost, ops[i], c) \in SUBSET (Nat \X P)
  <2>1. c + d \in Nat
    BY <1>1
  <2>2. QED
    BY <1>1, <1>2, <2>1
<1>4. ASSUME NEW phi \in [P -> Nat], IsPotential(T, ops, s, cost, phi), NEW o \in Offers(cost, ops[i], c)
      PROVE  phi[o[2]] <= o[1]
  <2>1. PICK q \in ops[i].effs : o = <<c + d, q>>
    BY <1>2
  <2>2. PICK p \in Range(ops[i].pre) : phi[q] <= phi[p] + d
    BY <1>4 DEF IsPotential, d
  <2>3. p \in P /\ q \in P /\ v[p] # -1 /\ v[p] <= c
    BY <1>1
  <2>4. phi[p] <= v[p]
    BY <1>4, <2>3 DEF NeverBelow, P
  <2>5. v[p] \in Nat /\ phi[p] \in Nat /\ phi[q] \in Nat
    BY <2>3 DEF Values, P
  <2>6. phi[q] <= c + d
    BY <1>1, <2>2, <2>3, <2>4, <2>5
  <2>7. QED
    BY <2>1, <2>6
<1>5. QED
  BY <1>3, <1>4 DEF OffersHold, P

LEMMA AllOffersHold ==
  ASSUME NEW T, NEW ops, NEW s, NEW cost, NEW X, \A O \in X : OffersHold(T, ops, s, cost, O)
  PROVE  OffersHold(T, ops, s, cost, UNION X)
BY DEF OffersHold

-----------------------------------------------------------------------------
(* Supporters.                                                             *)

Unreached(ops, v, i) == \E p \in Range(ops[i].pre) : v[p] = -1

\* The supporter is a precondition, and its cost bounds those of all the
\* preconditions and, with that of the operator, those of the effects.
Supported(ops, cost, v, sup, sc, i) ==
  /\ sup[i] \in Range(ops[i].pre)
  /\ \A p \in Range(ops[i].pre) : v[p] # -1 /\ v[p] <= sc[i]
  /\ \A q \in ops[i].effs : v[q] # -1 /\ v[q] <= sc[i] + CostOf(cost, ops[i])

LEMMA SupportedKeeps ==
  ASSUME NEW T, IsTask(T), NEW ops, OperatorsFit(T, ops), NEW cost \in Costs(T),
         NEW v \in Values(T), NEW w \in Values(T), Falls(T, v, w),
         NEW sup, NEW sc \in [DOMAIN ops -> Nat], NEW i \in DOMAIN ops, Supported(ops, cost, v, sup, sc, i)
  PROVE  Supported(ops, cost, w, sup, sc, i)
<1> DEFINE d == CostOf(cost, ops[i])
           P == Propositions(T)
<1>1. d \in Nat /\ sc[i] \in Nat /\ Range(ops[i].pre) \subseteq P /\ ops[i].effs \subseteq P
  BY CostOfIs, RelaxedOpIs
<1>2. \A p \in P : v[p] \in Nat \cup {-1} /\ w[p] \in Nat \cup {-1} /\ (v[p] # -1 => w[p] # -1 /\ w[p] <= v[p])
  BY DEF Values, Falls
<1> HIDE DEF d, P
<1>3. ASSUME NEW p \in Range(ops[i].pre)
      PROVE  w[p] # -1 /\ w[p] <= sc[i]
  <2>1. p \in P /\ v[p] # -1 /\ v[p] <= sc[i]
    BY <1>1 DEF Supported
  <2>2. QED
    BY <1>1, <1>2, <2>1
<1>4. ASSUME NEW q \in ops[i].effs
      PROVE  w[q] # -1 /\ w[q] <= sc[i] + d
  <2>1. q \in P /\ v[q] # -1 /\ v[q] <= sc[i] + d
    BY <1>1 DEF Supported, d
  <2>2. QED
    BY <1>1, <1>2, <2>1
<1>5. QED
  BY <1>3, <1>4 DEF Supported, d

-----------------------------------------------------------------------------
(* first_exploration.                                                      *)

\* The cost of a proposition has been popped.
Closed(v, Q, p) == v[p] # -1 /\ <<v[p], p>> \notin Q

Open(ops, v, Q, i) == {j \in DOMAIN ops[i].pre : ~ Closed(v, Q, ops[i].pre[j])}

FirstHolds(T, ops, s, cost, v, Q, unsat, sup, sc) ==
  /\ CostsHold(T, ops, s, cost, v, Q)
  /\ \A p \in Propositions(T) : Closed(v, Q, p) => \A e \in Q : v[p] <= e[1]
  /\ unsat \in [DOMAIN ops -> Nat]
  /\ sup \in [DOMAIN ops -> Propositions(T) \cup {NoProposition}] /\ sc \in [DOMAIN ops -> Nat]
  /\ \A i \in DOMAIN ops :
       /\ unsat[i] = Cardinality(Open(ops, v, Q, i))
       /\ unsat[i] > 0 => sup[i] = NoProposition
       /\ unsat[i] = 0 => Supported(ops, cost, v, sup, sc, i) /\ sc[i] = v[sup[i]]

LEMMA OpenFinite ==
  ASSUME NEW T, IsTask(T), NEW ops, OperatorsFit(T, ops), NEW v, NEW Q, NEW i \in DOMAIN ops
  PROVE  /\ IsFiniteSet(Open(ops, v, Q, i)) /\ Cardinality(Open(ops, v, Q, i)) \in Nat
         /\ Cardinality(Open(ops, v, Q, i)) = 0 <=> \A p \in Range(ops[i].pre) : Closed(v, Q, p)
<1> DEFINE q == ops[i].pre
           O == Open(ops, v, Q, i)
<1>1. q \in Seq(Propositions(T))
  BY RelaxedOpIs
<1>2. O \subseteq 1 .. Len(q) /\ Len(q) \in Nat
  BY <1>1 DEF Open
<1>3. IsFiniteSet(O) /\ Cardinality(O) \in Nat
  <2>1. IsFiniteSet(1 .. Len(q))
    <3> HIDE DEF q
    <3>1. QED
      BY <1>2, FS_Interval
  <2> HIDE DEF O, q
  <2>2. QED
    BY <1>2, <2>1, FS_Subset, FS_CardinalityType
<1>4. Cardinality(O) = 0 <=> O = {}
  <2> HIDE DEF O
  <2>1. QED
    BY <1>3, FS_EmptySet
<1>5. O = {} <=> \A p \in Range(q) : Closed(v, Q, p)
  <2>1. O = {j \in DOMAIN q : ~ Closed(v, Q, q[j])}
    BY DEF Open
  <2> HIDE DEF O, q
  <2>2. QED
    BY <2>1 DEF Range
<1>6. QED
  BY <1>3, <1>4, <1>5

\* What is not current does not matter.
LEMMA OutdatedKeeps ==
  ASSUME NEW T, IsTask(T), NEW ops, OperatorsFit(T, ops), NEW s, NEW cost, NEW v, NEW Q, NEW e \in Q,
         CostsHold(T, ops, s, cost, v, Q), v[e[2]] < e[1]
  PROVE  /\ CostsHold(T, ops, s, cost, v, Q \ {e})
         /\ \A p \in Propositions(T) : <<v[p], p>> \in Q => <<v[p], p>> \in Q \ {e}
<1>1. CostsHold(T, ops, s, cost, v, Q \ {e})
  BY DEF CostsHold
<1>2. ASSUME NEW p \in Propositions(T), <<v[p], p>> = e
      PROVE  FALSE
  <2>1. e[1] = v[p] /\ e[2] = p
    BY <1>2
  <2>2. v[p] \in Nat \cup {-1}
    BY DEF CostsHold, Values
  <2>3. QED
    BY <2>1, <2>2
<1>3. QED
  BY <1>1, <1>2

LEMMA PopOutdatedFirst ==
  ASSUME NEW T, IsTask(T), NEW ops, OperatorsFit(T, ops), NEW s, NEW cost,
         NEW v, NEW Q, NEW unsat, NEW sup, NEW sc,
         FirstHolds(T, ops, s, cost, v, Q, unsat, sup, sc),
         NEW e \in Q, v[e[2]] < e[1]
  PROVE  FirstHolds(T, ops, s, cost, v, Q \ {e}, unsat, sup, sc)
<1> DEFINE R == Q \ {e}
<1>1. /\ CostsHold(T, ops, s, cost, v, R)
      /\ \A p \in Propositions(T) : <<v[p], p>> \in Q => <<v[p], p>> \in R
  BY OutdatedKeeps DEF FirstHolds
<1>2. R \subseteq Q
  OBVIOUS
<1> HIDE DEF R
<1>3. \A p \in Propositions(T) : Closed(v, R, p) <=> Closed(v, Q, p)
  BY <1>1, <1>2 DEF Closed
<1>4. ASSUME NEW i \in DOMAIN ops
      PROVE  Open(ops, v, R, i) = Open(ops, v, Q, i)
  <2>1. \A j \in DOMAIN ops[i].pre : ops[i].pre[j] \in Propositions(T)
    BY RelaxedOpIs DEF Range
  <2>2. QED
    BY <1>3, <2>1 DEF Open
<1>5. QED
  BY <1>1, <1>2, <1>3, <1>4 DEF FirstHolds, R

\* What changes when p is popped: the operators that get ready, what they
\* offer, and what is entered for them.
StillOpen(ops, unsat, p) == [i \in DOMAIN ops |-> unsat[i] - Occurrences(ops[i], p)]
GetReady(ops, unsat, p) == {i \in DOMAIN ops : unsat[i] > 0 /\ StillOpen(ops, unsat, p)[i] = 0}
OffersOf(ops, cost, I, c) == UNION {Offers(cost, ops[i], c) : i \in I}
EnteredFor(ops, I, x, f) == [i \in DOMAIN ops |-> IF i \in I THEN x ELSE f[i]]

LEMMA PopFirstKeeps ==
  ASSUME NEW T, IsTask(T), NEW ops, OperatorsFit(T, ops), NEW s \in StatesOf(T), NEW cost \in Costs(T),
         NEW v, NEW Q, NEW unsat, NEW sup, NEW sc,
         FirstHolds(T, ops, s, cost, v, Q, unsat, sup, sc),
         NEW e \in Q, \A f \in Q : e[1] <= f[1], ~ (v[e[2]] < e[1])
  PROVE  LET I == GetReady(ops, unsat, e[2])
             offers == OffersOf(ops, cost, I, v[e[2]])
         IN FirstHolds(T, ops, s, cost, Lowered(v, offers), (Q \ {e}) \cup Best(v, offers),
                       StillOpen(ops, unsat, e[2]), EnteredFor(ops, I, e[2], sup), EnteredFor(ops, I, v[e[2]], sc))
<1> DEFINE P == Propositions(T)
           p == e[2]
           c == v[p]
           left == [i \in DOMAIN ops |-> unsat[i] - Occurrences(ops[i], p)]
           ready == {i \in DOMAIN ops : unsat[i] > 0 /\ left[i] = 0}
           offers == UNION {Offers(cost, ops[i], c) : i \in ready}
           E == Q \ {e}
           w == Lowered(v, offers)
           R == E \cup Best(v, offers)
           sup2 == [i \in DOMAIN ops |-> IF i \in ready THEN p ELSE sup[i]]
           sc2 == [i \in DOMAIN ops |-> IF i \in ready THEN c ELSE sc[i]]
<1>1. /\ CostsHold(T, ops, s, cost, v, Q) /\ v \in Values(T) /\ Q \in SUBSET (Nat \X P)
      /\ NeverBelow(T, ops, s, cost, v) /\ \A q \in P : v[q] \in Nat \cup {-1}
  BY DEF FirstHolds, CostsHold, Values
<1>2. p \in P /\ c \in Nat /\ e = <<c, p>>
  <2>1. e[1] \in Nat /\ e[2] \in P /\ e = <<e[1], e[2]>>
    BY <1>1
  <2>2. c # -1 /\ c <= e[1] /\ c \in Nat \cup {-1}
    BY <1>1, <2>1 DEF CostsHold
  <2>3. c = e[1]
    BY <2>1, <2>2
  <2>4. QED
    BY <2>1, <2>2, <2>3
<1> HIDE DEF c, p, P
<1>3. CostsHold(T, ops, s, cost, v, E)
  BY <1>1 DEF CostsHold
<1>4. \A q \in P : Closed(v, E, q) <=> Closed(v, Q, q) \/ q = p
  <2>1. \A q \in P : <<v[q], q>> \in E <=> <<v[q], q>> \in Q /\ q # p
    BY <1>2 DEF c
  <2>2. v[p] # -1
    BY <1>2 DEF c
  <2>3. QED
    BY <2>1, <2>2 DEF Closed
<1>5. ~ Closed(v, Q, p)
  BY <1>2 DEF Closed, c
<1>6. \A q \in P : Closed(v, E, q) => v[q] \in Nat /\ v[q] <= c /\ \A f \in E : v[q] <= f[1]
  <2>1. ASSUME NEW q \in P, Closed(v, E, q)
        PROVE  v[q] \in Nat /\ v[q] <= c /\ \A f \in E : v[q] <= f[1]
    <3>1. v[q] \in Nat
      BY <1>1, <2>1 DEF Closed
    <3>2. CASE q = p
      <4>1. v[q] = c /\ e[1] = c
        BY <1>2, <3>2 DEF c
      <4>2. QED
        BY <1>2, <3>1, <4>1
    <3>3. CASE q # p
      <4>1. Closed(v, Q, q)
        BY <1>4, <2>1, <3>3
      <4>2. \A f \in Q : v[q] <= f[1]
        BY <4>1 DEF FirstHolds, P
      <4>3. e[1] = c
        BY <1>2
      <4>4. QED
        BY <3>1, <4>2, <4>3
    <3>4. QED
      BY <3>2, <3>3
  <2>2. QED
    BY <2>1
<1> HIDE DEF E
<1>7. ASSUME NEW i \in DOMAIN ops
      PROVE  /\ left[i] \in Nat /\ left[i] = Cardinality(Open(ops, v, E, i))
             /\ left[i] = 0 <=> \A q \in Range(ops[i].pre) : Closed(v, E, q)
             /\ unsat[i] = 0 => p \notin Range(ops[i].pre)
             /\ unsat[i] > 0 /\ left[i] = 0 => p \in Range(ops[i].pre)
             /\ unsat[i] \in Nat
             /\ unsat[i] = 0 <=> \A q \in Range(ops[i].pre) : Closed(v, Q, q)
  <2> DEFINE O == Open(ops, v, Q, i)
             A == {j \in DOMAIN ops[i].pre : ops[i].pre[j] = p}
             N == Open(ops, v, E, i)
  <2>1. /\ IsFiniteSet(O) /\ Cardinality(O) \in Nat
        /\ Cardinality(O) = 0 <=> \A q \in Range(ops[i].pre) : Closed(v, Q, q)
        /\ IsFiniteSet(N) /\ Cardinality(N) \in Nat
        /\ Cardinality(N) = 0 <=> \A q \in Range(ops[i].pre) : Closed(v, E, q)
    BY OpenFinite
  <2>2. \A j \in DOMAIN ops[i].pre : ops[i].pre[j] \in P
    BY RelaxedOpIs DEF Range, P
  <2>3. A \subseteq O
    BY <1>5 DEF Open
  <2>4. N = O \ A
    BY <1>4, <2>2 DEF Open
  <2>5. Occurrences(ops[i], p) = Cardinality(A)
    BY DEF Occurrences
  <2>6. unsat[i] = Cardinality(O) /\ left[i] = unsat[i] - Occurrences(ops[i], p)
    BY DEF FirstHolds
  <2>7. A # {} <=> p \in Range(ops[i].pre)
    BY DEF Range
  <2> HIDE DEF A, N, O, left
  <2>8. O \cap A = A
    BY <2>3
  <2>9. Cardinality(N) = Cardinality(O) - Cardinality(A)
    <3>1. Cardinality(O \ A) = Cardinality(O) - Cardinality(O \cap A)
      BY <2>1, FS_Difference
    <3>2. QED
      BY <2>4, <2>8, <3>1
  <2>10. left[i] = Cardinality(N)
    BY <2>5, <2>6, <2>9
  <2>11. unsat[i] > 0 /\ left[i] = 0 => A # {}
    <3>1. CASE A = {}
      <4>1. N = O
        BY <2>4, <3>1
      <4>2. QED
        BY <2>6, <2>10, <4>1, <2>1
    <3>2. QED
      BY <3>1
  <2>12. unsat[i] = 0 => p \notin Range(ops[i].pre)
    BY <1>5, <2>1, <2>6
  <2>13. QED
    BY <2>1, <2>6, <2>7, <2>10, <2>11, <2>12 DEF N, O
<1> HIDE DEF left
<1>8. \A i \in ready : \A q \in Range(ops[i].pre) : v[q] # -1 /\ v[q] <= c
  <2>1. ASSUME NEW i \in ready, NEW q \in Range(ops[i].pre)
        PROVE  v[q] # -1 /\ v[q] <= c
    <3>1. Closed(v, E, q)
      BY <1>7
    <3>2. q \in P
      BY RelaxedOpIs DEF P
    <3>3. QED
      BY <1>6, <3>1, <3>2 DEF Closed
  <2>2. QED
    BY <2>1
<1>9. OffersHold(T, ops, s, cost, offers)
  <2>1. ASSUME NEW i \in ready
        PROVE  OffersHold(T, ops, s, cost, Offers(cost, ops[i], c))
    <3>1. i \in DOMAIN ops
      OBVIOUS
    <3> HIDE DEF ready
    <3>2. \A q \in Range(ops[i].pre) : v[q] # -1 /\ v[q] <= c
      BY <1>8
    <3>3. QED
      BY <1>1, <1>2, <3>1, <3>2, OffersJustified
  <2> HIDE DEF ready
  <2>2. \A O \in {Offers(cost, ops[i], c) : i \in ready} : OffersHold(T, ops, s, cost, O)
    BY <2>1
  <2>3. QED
    BY <2>2, AllOffersHold
<1>10. ASSUME NEW o \in offers
       PROVE  o[1] \in Nat /\ o[1] >= c /\ o[2] \in P
  <2>1. PICK i \in ready : o \in Offers(cost, ops[i], c)
    OBVIOUS
  <2>2. i \in DOMAIN ops
    OBVIOUS
  <2>3. CostOf(cost, ops[i]) \in Nat /\ ops[i].effs \subseteq P
    BY <2>2, CostOfIs, RelaxedOpIs DEF P
  <2> HIDE DEF ready, offers
  <2>4. PICK q \in ops[i].effs : o = <<c + CostOf(cost, ops[i]), q>>
    BY <2>1 DEF Offers
  <2>5. c + CostOf(cost, ops[i]) \in Nat /\ c + CostOf(cost, ops[i]) >= c
    BY <1>2, <2>3
  <2>6. QED
    BY <2>3, <2>4, <2>5
<1>11. \A i \in ready : \A q \in ops[i].effs : <<c + CostOf(cost, ops[i]), q>> \in offers
  BY DEF Offers
<1> HIDE DEF offers
<1>12. /\ CostsHold(T, ops, s, cost, w, R) /\ Falls(T, v, w)
       /\ \A q \in P : w[q] = v[q] \/ <<w[q], q>> \in R
       /\ \A o \in offers : w[o[2]] # -1 /\ w[o[2]] <= o[1]
  BY <1>3, <1>9, EnqueueKeeps DEF P
<1>13. /\ w \in Values(T)
       /\ \A q \in P :
            \/ w[q] = v[q] /\ \A o \in offers : o[2] = q => v[q] # -1 /\ v[q] <= o[1]
            \/ <<w[q], q>> \in Best(v, offers) /\ (v[q] = -1 \/ w[q] < v[q]) /\ w[q] \in Nat
       /\ \A b \in Best(v, offers) : b \in offers /\ b = <<w[b[2]], b[2]>>
  <2>1. offers \in SUBSET (Nat \X P)
    BY <1>9 DEF OffersHold, P
  <2>2. QED
    BY <1>1, <2>1, LoweredIs DEF P
<1>14. \A b \in Best(v, offers) : v[b[2]] = -1 \/ v[b[2]] > b[1]
  BY DEF Best, Better
<1> DEFINE B == Best(v, offers)
<1> HIDE DEF w, B
<1>15. \A q \in P : w[q] \in Nat \cup {-1}
  BY <1>13 DEF Values, P
<1>16. ASSUME NEW q \in P, Closed(v, E, q)
       PROVE  w[q] = v[q] /\ Closed(w, R, q)
  <2>1. v[q] \in Nat /\ v[q] <= c
    BY <1>6, <1>16
  <2>2. \A n \in Nat : <<n, q>> \in B => FALSE
    <3>1. ASSUME NEW n \in Nat, <<n, q>> \in B
          PROVE  FALSE
      <4>1. <<n, q>> \in offers
        BY <1>13, <3>1 DEF B
      <4>2. n >= c
        BY <1>10, <4>1
      <4>3. v[q] = -1 \/ v[q] > n
        BY <1>14, <3>1 DEF B
      <4>4. QED
        BY <1>2, <2>1, <4>2, <4>3
    <3>2. QED
      BY <3>1
  <2>3. w[q] = v[q]
    BY <1>13, <2>2 DEF B
  <2>4. <<w[q], q>> \notin R
    BY <1>16, <2>1, <2>2, <2>3 DEF Closed, B
  <2>5. QED
    BY <1>16, <2>3, <2>4 DEF Closed
<1>17. ASSUME NEW q \in P, Closed(w, R, q)
       PROVE  Closed(v, E, q)
  <2>1. w[q] = v[q]
    BY <1>12, <1>17 DEF Closed
  <2>2. QED
    BY <1>17, <2>1 DEF Closed
<1>18. \A q \in P : Closed(w, R, q) => \A f \in R : w[q] <= f[1]
  <2>1. ASSUME NEW q \in P, Closed(w, R, q), NEW f \in R
        PROVE  w[q] <= f[1]
    <3>1. Closed(v, E, q) /\ w[q] = v[q]
      BY <1>16, <1>17, <2>1
    <3>2. v[q] \in Nat /\ v[q] <= c /\ \A g \in E : v[q] <= g[1]
      BY <1>6, <3>1
    <3>3. CASE f \in E
      BY <3>1, <3>2, <3>3
    <3>4. CASE f \in B
      <4>1. f[1] \in Nat /\ f[1] >= c
        BY <1>10, <1>13, <3>4 DEF B
      <4>2. QED
        BY <1>2, <3>1, <3>2, <4>1
    <3>5. QED
      BY <3>3, <3>4 DEF B
  <2>2. QED
    BY <2>1
<1> HIDE DEF R
<1>19. ASSUME NEW i \in DOMAIN ops
       PROVE  Open(ops, w, R, i) = Open(ops, v, E, i)
  <2>1. \A j \in DOMAIN ops[i].pre : ops[i].pre[j] \in P
    BY RelaxedOpIs DEF Range, P
  <2>2. QED
    BY <1>16, <1>17, <2>1 DEF Open
<1>20. /\ left \in [DOMAIN ops -> Nat]
       /\ sup2 \in [DOMAIN ops -> P \cup {NoProposition}] /\ sc2 \in [DOMAIN ops -> Nat]
  <2>1. left \in [DOMAIN ops -> Nat]
    <3>1. left = [i \in DOMAIN ops |-> left[i]]
      BY DEF left
    <3>2. QED
      BY <1>7, <3>1
  <2>2. sup \in [DOMAIN ops -> P \cup {NoProposition}] /\ sc \in [DOMAIN ops -> Nat]
    BY DEF FirstHolds, P
  <2> HIDE DEF ready
  <2>3. QED
    BY <1>2, <2>1, <2>2
<1>21. ASSUME NEW i \in DOMAIN ops
       PROVE  /\ left[i] = Cardinality(Open(ops, w, R, i))
              /\ left[i] > 0 => sup2[i] = NoProposition
              /\ left[i] = 0 => Supported(ops, cost, w, sup2, sc2, i) /\ sc2[i] = w[sup2[i]]
  <2>1. left[i] = Cardinality(Open(ops, w, R, i))
    BY <1>7, <1>19
  <2>2. Range(ops[i].pre) \subseteq P /\ ops[i].effs \subseteq P
    BY RelaxedOpIs DEF P
  <2>3. ASSUME left[i] = 0
        PROVE  Supported(ops, cost, w, sup2, sc2, i) /\ sc2[i] = w[sup2[i]]
    <3>1. \A q \in Range(ops[i].pre) : Closed(v, E, q)
      BY <1>7, <2>3
    <3>2. CASE i \in ready
      <4>1. sup2[i] = p /\ sc2[i] = c /\ p \in Range(ops[i].pre)
        BY <1>7, <3>2
      <4>2. \A q \in ops[i].effs : <<c + CostOf(cost, ops[i]), q>> \in offers
        BY <1>11, <3>2
      <4> HIDE DEF sup2, sc2, ready
      <4>3. ASSUME NEW q \in Range(ops[i].pre)
            PROVE  w[q] # -1 /\ w[q] <= c
        <5>1. q \in P /\ Closed(v, E, q)
          BY <2>2, <3>1
        <5>2. w[q] = v[q] /\ v[q] \in Nat /\ v[q] <= c
          BY <1>6, <1>16, <5>1
        <5>3. QED
          BY <5>2
      <4>4. ASSUME NEW q \in ops[i].effs
            PROVE  w[q] # -1 /\ w[q] <= c + CostOf(cost, ops[i])
        BY <1>12, <4>2
      <4>5. w[p] = c
        <5>1. w[p] = v[p]
          BY <1>16, <2>2, <3>1, <4>1
        <5>2. QED
          BY <5>1 DEF c
      <4>6. QED
        BY <4>1, <4>3, <4>4, <4>5 DEF Supported
    <3>3. CASE i \notin ready
      <4>1. sup2[i] = sup[i] /\ sc2[i] = sc[i]
        BY <3>3
      <4>2. unsat[i] = 0
        <5>1. unsat[i] \in Nat /\ ~ (unsat[i] > 0)
          BY <1>7, <2>3, <3>3
        <5>2. QED
          BY <5>1
      <4> HIDE DEF sup2, sc2, ready
      <4>3. Supported(ops, cost, v, sup, sc, i) /\ sc[i] = v[sup[i]]
        BY <4>2 DEF FirstHolds
      <4>4. Supported(ops, cost, w, sup, sc, i)
        <5>1. sc \in [DOMAIN ops -> Nat]
          BY DEF FirstHolds
        <5>2. QED
          BY <1>1, <1>12, <1>13, <4>3, <5>1, SupportedKeeps
      <4>5. sup[i] \in Range(ops[i].pre)
        BY <4>3 DEF Supported
      <4>6. w[sup[i]] = v[sup[i]]
        BY <1>16, <2>2, <3>1, <4>5
      <4>7. QED
        BY <4>1, <4>3, <4>4, <4>6 DEF Supported
    <3>4. QED
      BY <3>2, <3>3
  <2>4. ASSUME left[i] > 0
        PROVE  sup2[i] = NoProposition
    <3>1. left[i] # 0 /\ i \notin ready
      BY <1>7, <2>4
    <3>2. unsat[i] # 0
      <4>1. CASE unsat[i] = 0
        <5>1. \A q \in Range(ops[i].pre) : Closed(v, Q, q)
          BY <1>7, <4>1
        <5>2. \A q \in Range(ops[i].pre) : Closed(v, E, q)
          BY <1>4, <2>2, <5>1
        <5>3. QED
          BY <1>7, <3>1, <5>2
      <4>2. QED
        BY <4>1
    <3>3. unsat[i] > 0
      BY <1>7, <3>2
    <3>4. sup[i] = NoProposition
      BY <3>3 DEF FirstHolds
    <3>5. QED
      BY <3>1, <3>4
  <2>5. QED
    BY <2>1, <2>3, <2>4
<1>22. FirstHolds(T, ops, s, cost, w, R, left, sup2, sc2)
  <2> HIDE DEF sup2, sc2
  <2>1. QED
    BY <1>12, <1>18, <1>20, <1>21 DEF FirstHolds, P
<1>23. /\ left = StillOpen(ops, unsat, p) /\ ready = GetReady(ops, unsat, p)
       /\ sup2 = EnteredFor(ops, ready, p, sup) /\ sc2 = EnteredFor(ops, ready, c, sc)
       /\ offers = OffersOf(ops, cost, ready, c)
  BY DEF StillOpen, GetReady, EnteredFor, OffersOf, left, offers
<1> HIDE DEF ready, sup2, sc2
<1>24. QED
  BY <1>22, <1>23 DEF w, R, B, E, c, p

-----------------------------------------------------------------------------
(* After the first exploration.                                            *)

\* The cost of the supporter has not changed since, or will be popped.
Current(v, Q, sup, sc, i) == sc[i] = v[sup[i]] \/ <<v[sup[i]], sup[i]>> \in Q

OpHolds(ops, cost, v, unsat, sup, sc, i) ==
  IF Unreached(ops, v, i) THEN unsat[i] > 0 /\ sup[i] = NoProposition
  ELSE unsat[i] = 0 /\ Supported(ops, cost, v, sup, sc, i)

MidHolds(T, ops, s, cost, v, Q, unsat, sup, sc) ==
  /\ CostsHold(T, ops, s, cost, v, Q)
  /\ sup \in [DOMAIN ops -> Propositions(T) \cup {NoProposition}] /\ sc \in [DOMAIN ops -> Nat]
  /\ \A i \in DOMAIN ops :
       /\ OpHolds(ops, cost, v, unsat, sup, sc, i)
       /\ Unreached(ops, v, i) \/ Current(v, Q, sup, sc, i)

LEMMA FirstToMid ==
  ASSUME NEW T, IsTask(T), NEW ops, OperatorsFit(T, ops), NEW s, NEW cost,
         NEW v, NEW Q, NEW unsat, NEW sup, NEW sc,
         FirstHolds(T, ops, s, cost, v, Q, unsat, sup, sc), Q = {}
  PROVE  MidHolds(T, ops, s, cost, v, Q, unsat, sup, sc)
<1>1. ASSUME NEW i \in DOMAIN ops
      PROVE  OpHolds(ops, cost, v, unsat, sup, sc, i) /\ (Unreached(ops, v, i) \/ Current(v, Q, sup, sc, i))
  <2>1. /\ Cardinality(Open(ops, v, Q, i)) \in Nat
        /\ Cardinality(Open(ops, v, Q, i)) = 0 <=> \A p \in Range(ops[i].pre) : Closed(v, Q, p)
    BY OpenFinite
  <2>2. unsat[i] = Cardinality(Open(ops, v, Q, i))
    BY DEF FirstHolds
  <2>3. (\A p \in Range(ops[i].pre) : Closed(v, Q, p)) <=> ~ Unreached(ops, v, i)
    BY DEF Closed, Unreached
  <2>4. unsat[i] = 0 <=> ~ Unreached(ops, v, i)
    BY <2>1, <2>2, <2>3
  <2>5. unsat[i] # 0 => unsat[i] > 0
    BY <2>1, <2>2
  <2>6. /\ unsat[i] > 0 => sup[i] = NoProposition
        /\ unsat[i] = 0 => Supported(ops, cost, v, sup, sc, i) /\ sc[i] = v[sup[i]]
    BY DEF FirstHolds
  <2>7. QED
    BY <2>4, <2>5, <2>6 DEF OpHolds, Current
<1>2. QED
  BY <1>1 DEF MidHolds, FirstHolds

\* Offers to what is reached already reach nothing else.
LEMMA SameReached ==
  ASSUME NEW T, NEW v \in Values(T), NEW offers \in SUBSET (Nat \X Propositions(T)),
         \A o \in offers : v[o[2]] # -1
  PROVE  \A q \in Propositions(T) : Lowered(v, offers)[q] = -1 <=> v[q] = -1
<1> DEFINE w == Lowered(v, offers)
           B == Best(v, offers)
<1>1. /\ \A q \in Propositions(T) :
           \/ w[q] = v[q] /\ \A o \in offers : o[2] = q => v[q] # -1 /\ v[q] <= o[1]
           \/ <<w[q], q>> \in B /\ (v[q] = -1 \/ w[q] < v[q]) /\ w[q] \in Nat
      /\ \A b \in B : b \in offers /\ b = <<w[b[2]], b[2]>>
  BY LoweredIs
<1> HIDE DEF w, B
<1>2. ASSUME NEW q \in Propositions(T), <<w[q], q>> \in B, w[q] \in Nat
      PROVE  v[q] # -1 /\ w[q] # -1
  <2>1. <<w[q], q>> \in offers
    BY <1>1, <1>2
  <2>2. v[q] # -1
    BY <2>1
  <2>3. QED
    BY <1>2, <2>2
<1>3. QED
  BY <1>1, <1>2 DEF w

LEMMA CurrentKeeps ==
  ASSUME NEW v, NEW w, NEW Q, NEW R, Q \subseteq R, NEW sup, NEW sc, NEW i,
         w[sup[i]] = v[sup[i]] \/ <<w[sup[i]], sup[i]>> \in R, Current(v, Q, sup, sc, i)
  PROVE  Current(w, R, sup, sc, i)
BY DEF Current

\* An operator stays supported when reached propositions get cheaper.
LEMMA OpKeeps ==
  ASSUME NEW T, IsTask(T), NEW ops, OperatorsFit(T, ops), NEW cost \in Costs(T),
         NEW v \in Values(T), NEW w \in Values(T), Falls(T, v, w),
         \A q \in Propositions(T) : w[q] = -1 <=> v[q] = -1,
         NEW unsat, NEW sup, NEW sc \in [DOMAIN ops -> Nat], NEW i \in DOMAIN ops,
         OpHolds(ops, cost, v, unsat, sup, sc, i)
  PROVE  OpHolds(ops, cost, w, unsat, sup, sc, i) /\ (Unreached(ops, w, i) <=> Unreached(ops, v, i))
<1>1. Unreached(ops, w, i) <=> Unreached(ops, v, i)
  <2>1. Range(ops[i].pre) \subseteq Propositions(T)
    BY RelaxedOpIs
  <2>2. QED
    BY <2>1 DEF Unreached
<1>2. Supported(ops, cost, v, sup, sc, i) => Supported(ops, cost, w, sup, sc, i)
  BY SupportedKeeps
<1>3. QED
  BY <1>1, <1>2 DEF OpHolds

\* Potentials for lower costs are potentials.
LEMMA CheaperNeverBelow ==
  ASSUME NEW T, IsTask(T), NEW ops, OperatorsFit(T, ops), NEW s, NEW cost \in Costs(T), NEW low \in Costs(T),
         \A o \in OpsOf(T) : low[o] <= cost[o],
         NEW v, NeverBelow(T, ops, s, cost, v)
  PROVE  NeverBelow(T, ops, s, low, v)
<1> DEFINE P == Propositions(T)
<1>1. ASSUME NEW i \in DOMAIN ops
      PROVE  /\ CostOf(low, ops[i]) <= CostOf(cost, ops[i])
             /\ CostOf(low, ops[i]) \in Nat /\ CostOf(cost, ops[i]) \in Nat
  BY CostOfIs, RelaxedOpIs DEF CostOf
<1> HIDE DEF P
<1>2. ASSUME NEW phi \in [P -> Nat], IsPotential(T, ops, s, low, phi)
      PROVE  IsPotential(T, ops, s, cost, phi)
  <2>1. ASSUME NEW i \in DOMAIN ops, NEW q \in ops[i].effs
        PROVE  \E p \in Range(ops[i].pre) : phi[q] <= phi[p] + CostOf(cost, ops[i])
    <3>1. PICK p \in Range(ops[i].pre) : phi[q] <= phi[p] + CostOf(low, ops[i])
      BY <1>2 DEF IsPotential
    <3>2. p \in P /\ q \in P
      BY RelaxedOpIs DEF P
    <3>3. phi[p] \in Nat /\ phi[q] \in Nat
      BY <3>2
    <3>4. phi[q] <= phi[p] + CostOf(cost, ops[i])
      BY <1>1, <3>1, <3>3
    <3>5. QED
      BY <3>4
  <2>2. QED
    BY <1>2, <2>1 DEF IsPotential
<1>3. QED
  BY <1>2 DEF NeverBelow, P

\* A cut: the operators in I may have become cheaper, and their effects are
\* reached again.
\* What the operators in I that are reached offer again.
RepairOffers(ops, cost, I, sup, sc) == UNION {Offers(cost, ops[i], sc[i]) : i \in {j \in I : sup[j] # NoProposition}}

LEMMA ChargeKeeps ==
  ASSUME NEW T, IsTask(T), NEW ops, OperatorsFit(T, ops), NEW s \in StatesOf(T),
         NEW cost \in Costs(T), NEW low \in Costs(T), \A o \in OpsOf(T) : low[o] <= cost[o],
         NEW v, NEW Q, NEW unsat, NEW sup, NEW sc,
         MidHolds(T, ops, s, cost, v, Q, unsat, sup, sc),
         NEW I \in SUBSET DOMAIN ops,
         \A i \in DOMAIN ops \ I : CostOf(low, ops[i]) = CostOf(cost, ops[i])
  PROVE  LET offers == RepairOffers(ops, low, I, sup, sc) IN
         MidHolds(T, ops, s, low, Lowered(v, offers), Q \cup Best(v, offers), unsat, sup, sc)
<1> DEFINE P == Propositions(T)
           J == {j \in I : sup[j] # NoProposition}
           offers == UNION {Offers(low, ops[i], sc[i]) : i \in J}
           w == Lowered(v, offers)
           R == Q \cup Best(v, offers)
<1>1. /\ CostsHold(T, ops, s, cost, v, Q) /\ v \in Values(T) /\ NeverBelow(T, ops, s, cost, v)
      /\ sup \in [DOMAIN ops -> P \cup {NoProposition}] /\ sc \in [DOMAIN ops -> Nat]
  BY DEF MidHolds, CostsHold
<1> HIDE DEF P
<1>2. NeverBelow(T, ops, s, low, v)
  BY <1>1, CheaperNeverBelow
<1>3. CostsHold(T, ops, s, low, v, Q)
  BY <1>1, <1>2 DEF CostsHold
<1>4. ASSUME NEW i \in J
      PROVE  i \in DOMAIN ops /\ Supported(ops, cost, v, sup, sc, i)
  BY DEF MidHolds, OpHolds
<1>5. \A i \in DOMAIN ops : i \in I /\ ~ Unreached(ops, v, i) => i \in J
  <2>1. ASSUME NEW i \in DOMAIN ops, i \in I, ~ Unreached(ops, v, i)
        PROVE  i \in J
    <3>1. sup[i] \in Range(ops[i].pre)
      BY <2>1 DEF MidHolds, OpHolds, Supported
    <3>2. sup[i] \in P
      BY <3>1, RelaxedOpIs DEF P
    <3>3. sup[i] # NoProposition
      BY <3>2, ArtificialAre DEF P
    <3>4. QED
      BY <2>1, <3>3
  <2>2. QED
    BY <2>1
<1> HIDE DEF J
<1>6. OffersHold(T, ops, s, low, offers)
  <2>1. ASSUME NEW i \in J
        PROVE  OffersHold(T, ops, s, low, Offers(low, ops[i], sc[i]))
    <3>1. i \in DOMAIN ops /\ sc[i] \in Nat /\ \A p \in Range(ops[i].pre) : v[p] # -1 /\ v[p] <= sc[i]
      BY <1>1, <1>4 DEF Supported
    <3>2. QED
      BY <1>1, <1>2, <3>1, OffersJustified
  <2>2. \A O \in {Offers(low, ops[i], sc[i]) : i \in J} : OffersHold(T, ops, s, low, O)
    BY <2>1
  <2>3. QED
    BY <2>2, AllOffersHold
<1>7. offers \in SUBSET (Nat \X P) /\ \A o \in offers : v[o[2]] # -1
  <2>1. offers \in SUBSET (Nat \X P)
    BY <1>6 DEF OffersHold, P
  <2>2. ASSUME NEW o \in offers
        PROVE  v[o[2]] # -1
    <3>1. PICK i \in J : o \in Offers(low, ops[i], sc[i])
      OBVIOUS
    <3>2. PICK q \in ops[i].effs : o = <<sc[i] + CostOf(low, ops[i]), q>>
      BY <3>1 DEF Offers
    <3>3. o[2] = q /\ v[q] # -1
      BY <1>4, <3>2 DEF Supported
    <3>4. QED
      BY <3>3
  <2>3. QED
    BY <2>1, <2>2
<1>8. \A i \in J : \A q \in ops[i].effs : <<sc[i] + CostOf(low, ops[i]), q>> \in offers
  BY DEF Offers
<1> HIDE DEF offers
<1>9. /\ CostsHold(T, ops, s, low, w, R) /\ Falls(T, v, w)
      /\ \A q \in P : w[q] = v[q] \/ <<w[q], q>> \in R
      /\ \A o \in offers : w[o[2]] # -1 /\ w[o[2]] <= o[1]
  BY <1>3, <1>6, EnqueueKeeps DEF P
<1>10. w \in Values(T) /\ \A q \in P : w[q] = -1 <=> v[q] = -1
  <2>1. w \in Values(T)
    BY <1>9 DEF CostsHold
  <2>2. QED
    BY <1>1, <1>7, <2>1, SameReached DEF P
<1> HIDE DEF w
<1>11. Q \subseteq R
  OBVIOUS
<1> HIDE DEF R
<1>12. ASSUME NEW i \in DOMAIN ops
       PROVE  /\ OpHolds(ops, low, w, unsat, sup, sc, i)
              /\ Unreached(ops, w, i) \/ Current(w, R, sup, sc, i)
  <2>1. /\ OpHolds(ops, cost, v, unsat, sup, sc, i)
        /\ Unreached(ops, v, i) \/ Current(v, Q, sup, sc, i)
    BY DEF MidHolds
  <2>2. OpHolds(ops, cost, w, unsat, sup, sc, i) /\ (Unreached(ops, w, i) <=> Unreached(ops, v, i))
    BY <1>1, <1>9, <1>10, <2>1, OpKeeps DEF P
  <2>3. CASE Unreached(ops, w, i)
    BY <2>2, <2>3 DEF OpHolds
  <2>4. CASE ~ Unreached(ops, w, i)
    <3>1. unsat[i] = 0 /\ Supported(ops, cost, w, sup, sc, i)
      BY <2>2, <2>4 DEF OpHolds
    <3>2. ASSUME NEW q \in ops[i].effs
          PROVE  w[q] # -1 /\ w[q] <= sc[i] + CostOf(low, ops[i])
      <4>1. CASE i \in I
        <5>1. i \in J
          BY <1>5, <2>2, <2>4, <4>1
        <5>2. <<sc[i] + CostOf(low, ops[i]), q>> \in offers
          BY <1>8, <5>1
        <5>3. QED
          BY <1>9, <5>2
      <4>2. CASE i \notin I
        BY <3>1, <4>2 DEF Supported
      <4>3. QED
        BY <4>1, <4>2
    <3>3. Supported(ops, low, w, sup, sc, i)
      BY <3>1, <3>2 DEF Supported
    <3>4. sup[i] \in P
      BY <3>1, RelaxedOpIs DEF Supported, P
    <3>5. Current(w, R, sup, sc, i)
      <4>1. w[sup[i]] = v[sup[i]] \/ <<w[sup[i]], sup[i]>> \in R
        BY <1>9, <3>4
      <4>2. QED
        BY <1>11, <2>1, <2>2, <2>4, <4>1, CurrentKeeps
    <3>6. QED
      BY <2>4, <3>1, <3>3, <3>5 DEF OpHolds
  <2>5. QED
    BY <2>3, <2>4
<1>13. MidHolds(T, ops, s, low, w, R, unsat, sup, sc)
  BY <1>1, <1>9, <1>12 DEF MidHolds, P
<1>14. QED
  BY <1>13 DEF w, R, offers, J, RepairOffers

-----------------------------------------------------------------------------
(* first_exploration_incremental.                                          *)

LEMMA NewSupporterIs ==
  ASSUME NEW P, NEW r, r.pre \in Seq(P), r.pre # <<>>, NEW v, NEW b \in Nat,
         \A p \in Range(r.pre) : v[p] \in Nat /\ v[p] <= b,
         NEW q
  PROVE  LET n == NewSupporter(r, v, q) IN n \in Range(r.pre) /\ \A p \in Range(r.pre) : v[p] <= v[n]
<1> DEFINE pre == r.pre
           dearest == {j \in DOMAIN pre : \A k \in DOMAIN pre : v[pre[k]] <= v[pre[j]]}
           V == {v[pre[j]] : j \in DOMAIN pre}
           n == NewSupporter(r, v, q)
<1>1. n = IF \E j \in dearest : pre[j] = q THEN q ELSE pre[Least(dearest)]
  BY DEF NewSupporter
<1>2. 1 \in DOMAIN pre /\ DOMAIN pre \in SUBSET Nat
  OBVIOUS
<1> HIDE DEF n, pre
<1>3. \A j \in DOMAIN pre : v[pre[j]] \in Nat /\ v[pre[j]] <= b /\ pre[j] \in Range(pre)
  BY DEF Range, pre
<1>4. V \in SUBSET (0 .. b) /\ V # {}
  <2>1. \A j \in DOMAIN pre : v[pre[j]] \in 0 .. b
    BY <1>3
  <2>2. QED
    BY <1>2, <2>1
<1>5. Largest(V) \in V /\ \A k \in V : k <= Largest(V)
  <2> HIDE DEF V
  <2>1. QED
    BY <1>4, LargestIn
<1>6. PICK j \in DOMAIN pre : v[pre[j]] = Largest(V)
  BY <1>5
<1>7. j \in dearest
  <2>1. \A k \in DOMAIN pre : v[pre[k]] \in V
    OBVIOUS
  <2> HIDE DEF V
  <2>2. \A k \in DOMAIN pre : v[pre[k]] <= v[pre[j]]
    BY <1>5, <1>6, <2>1
  <2>3. QED
    BY <2>2
<1>8. Least(dearest) \in dearest
  <2>1. dearest \in SUBSET Nat
    BY <1>2
  <2> HIDE DEF dearest
  <2>2. QED
    BY <1>7, <2>1, LeastIn
<1>9. PICK k \in dearest : n = pre[k]
  <2> HIDE DEF dearest
  <2>1. QED
    BY <1>1, <1>8
<1>10. n \in Range(pre) /\ \A p \in Range(pre) : v[p] <= v[n]
  BY <1>9 DEF Range
<1>11. QED
  BY <1>10 DEF n, pre

LoopHolds(T, ops, s, cost, unsat, x) ==
  /\ x \in Explored(T, ops)
  /\ CostsHold(T, ops, s, cost, x.hmax, x.queue)
  /\ \A k \in DOMAIN ops : OpHolds(ops, cost, x.hmax, unsat, x.supporter, x.supporter_cost, k)

\* What an update of operator i leaves and changes.
UpdatesTo(T, ops, x, y, i, p, c) ==
  /\ x.queue \subseteq y.queue
  /\ \A q \in Propositions(T) :
       /\ y.hmax[q] = x.hmax[q] \/ <<y.hmax[q], q>> \in y.queue
       /\ y.hmax[q] = -1 <=> x.hmax[q] = -1
  /\ \A k \in DOMAIN ops \ {i} : y.supporter[k] = x.supporter[k] /\ y.supporter_cost[k] = x.supporter_cost[k]
  /\ \/ y = x /\ (x.supporter[i] # p \/ x.supporter_cost[i] <= c)
     \/ y.supporter[i] \in Range(ops[i].pre) /\ y.supporter_cost[i] = x.hmax[y.supporter[i]]

LEMMA UpdateIs ==
  ASSUME NEW T, IsTask(T), OperatorsFit(T, lOps), NEW s \in StatesOf(T), lCost \in Costs(T), NEW unsat,
         NEW x, LoopHolds(T, lOps, s, lCost, unsat, x),
         NEW i \in DOMAIN lOps, NEW p \in Range(lOps[i].pre), NEW c
  PROVE  LET y == Update(x, i, p, c) IN
         LoopHolds(T, lOps, s, lCost, unsat, y) /\ UpdatesTo(T, lOps, x, y, i, p, c)
<1> DEFINE P == Propositions(T)
           r == lOps[i]
           v == x.hmax
           q == NewSupporter(r, v, p)
           z == [x EXCEPT !.supporter[i] = q, !.supporter_cost[i] = v[q]]
           offers == Offers(lCost, r, v[q])
           y == Update(x, i, p, c)
<1>1. CASE x.supporter[i] # p \/ x.supporter_cost[i] <= c
  <2>1. y = x
    BY <1>1 DEF Update
  <2> HIDE DEF y
  <2>2. UpdatesTo(T, lOps, x, y, i, p, c)
    BY <1>1, <2>1 DEF UpdatesTo
  <2>3. QED
    BY <2>1, <2>2 DEF y
<1>2. CASE ~ (x.supporter[i] # p \/ x.supporter_cost[i] <= c)
  <2>1. y = IF v[q] = x.supporter_cost[i] THEN z ELSE enqueue_all_necessary(z, offers)
    BY <1>2 DEF Update
  <2>2. /\ x \in Explored(T, lOps) /\ v \in Values(T) /\ x.queue \in SUBSET (Nat \X P)
        /\ x.supporter \in [DOMAIN lOps -> P \cup {NoProposition}] /\ x.supporter_cost \in [DOMAIN lOps -> Nat]
        /\ CostsHold(T, lOps, s, lCost, v, x.queue) /\ NeverBelow(T, lOps, s, lCost, v)
    BY DEF LoopHolds, Explored, CostsHold
  <2>3. /\ r.pre \in Seq(P) /\ r.pre # <<>> /\ Range(r.pre) \subseteq P /\ r.effs \subseteq P
    BY RelaxedOpIs
  <2> HIDE DEF y, P
  <2>4. p \in P /\ x.supporter[i] = p /\ p # NoProposition
    BY <1>2, <2>3, ArtificialAre DEF P
  <2>5. ~ Unreached(lOps, v, i) /\ Supported(lOps, lCost, v, x.supporter, x.supporter_cost, i) /\ unsat[i] = 0
    BY <2>4 DEF LoopHolds, OpHolds
  <2>6. x.supporter_cost[i] \in Nat
    BY <2>2
  <2>7. \A f \in Range(r.pre) : v[f] \in Nat /\ v[f] # -1 /\ v[f] <= x.supporter_cost[i]
    <3>1. \A f \in P : v[f] \in Nat \cup {-1}
      BY <2>2 DEF Values, P
    <3>2. QED
      BY <2>3, <2>5, <3>1 DEF Supported
  <2>8. q \in Range(r.pre) /\ \A f \in Range(r.pre) : v[f] <= v[q]
    BY <2>3, <2>6, <2>7, NewSupporterIs
  <2> HIDE DEF q
  <2>9. v[q] \in Nat /\ q \in P
    BY <2>3, <2>7, <2>8
  <2>10. /\ z \in Explored(T, lOps) /\ z.hmax = v /\ z.queue = x.queue
         /\ z.supporter = [x.supporter EXCEPT ![i] = q] /\ z.supporter_cost = [x.supporter_cost EXCEPT ![i] = v[q]]
    <3>1. [x.supporter EXCEPT ![i] = q] \in [DOMAIN lOps -> P \cup {NoProposition}]
      BY <2>2, <2>9
    <3>2. [x.supporter_cost EXCEPT ![i] = v[q]] \in [DOMAIN lOps -> Nat]
      BY <2>2, <2>9
    <3> DEFINE a == [x.supporter EXCEPT ![i] = q]
               b == [x.supporter_cost EXCEPT ![i] = v[q]]
    <3>3. z = [x EXCEPT !.supporter = a, !.supporter_cost = b]
      OBVIOUS
    <3> HIDE DEF a, b, z
    <3>4. z \in Explored(T, lOps)
      BY <2>2, <3>1, <3>2, <3>3 DEF Explored, a, b, P
    <3>5. z.hmax = v /\ z.queue = x.queue /\ z.supporter = a /\ z.supporter_cost = b
      BY <2>2, <3>3 DEF Explored
    <3>6. QED
      BY <3>4, <3>5 DEF a, b
  <2> HIDE DEF z
  <2>11. /\ z.supporter[i] = q /\ z.supporter_cost[i] = v[q]
         /\ \A k \in DOMAIN lOps \ {i} : z.supporter[k] = x.supporter[k] /\ z.supporter_cost[k] = x.supporter_cost[k]
    BY <2>2, <2>10
  <2>12. CASE v[q] = x.supporter_cost[i]
    <3>1. y = z
      BY <2>1, <2>12
    <3>2. Supported(lOps, lCost, v, z.supporter, z.supporter_cost, i)
      BY <2>5, <2>8, <2>11, <2>12 DEF Supported
    <3>3. ASSUME NEW k \in DOMAIN lOps
          PROVE  OpHolds(lOps, lCost, v, unsat, z.supporter, z.supporter_cost, k)
      <4>1. CASE k = i
        BY <2>5, <3>2, <4>1 DEF OpHolds
      <4>2. CASE k # i
        <5>1. OpHolds(lOps, lCost, v, unsat, x.supporter, x.supporter_cost, k)
          BY DEF LoopHolds
        <5>2. z.supporter[k] = x.supporter[k] /\ z.supporter_cost[k] = x.supporter_cost[k]
          BY <2>11, <4>2
        <5>3. QED
          BY <5>1, <5>2 DEF OpHolds, Supported
      <4>3. QED
        BY <4>1, <4>2
    <3>4. LoopHolds(T, lOps, s, lCost, unsat, z)
      BY <2>2, <2>10, <3>3 DEF LoopHolds
    <3>5. UpdatesTo(T, lOps, x, z, i, p, c)
      BY <2>8, <2>10, <2>11 DEF UpdatesTo
    <3>6. QED
      BY <3>1, <3>4, <3>5 DEF y
  <2>13. CASE v[q] # x.supporter_cost[i]
    <3> DEFINE w == Lowered(v, offers)
               R == x.queue \cup Best(v, offers)
    <3>1. y = enqueue_all_necessary(z, offers)
      BY <2>1, <2>13
    <3>2. OffersHold(T, lOps, s, lCost, offers)
      BY <2>2, <2>7, <2>8, <2>9, OffersJustified
    <3>3. \A o \in offers : v[o[2]] # -1
      BY <2>5 DEF Offers, Supported
    <3>4. \A f \in r.effs : <<v[q] + CostOf(lCost, r), f>> \in offers
      BY DEF Offers
    <3> HIDE DEF offers
    <3>5. offers \in SUBSET (Nat \X Propositions(T))
      BY <3>2 DEF OffersHold
    <3>6. /\ y \in Explored(T, lOps) /\ y.hmax = w /\ y.queue = R
          /\ y.supporter = z.supporter /\ y.supporter_cost = z.supporter_cost
      BY <2>10, <3>1, <3>5, EnqueueInIs
    <3>7. /\ CostsHold(T, lOps, s, lCost, w, R) /\ Falls(T, v, w)
          /\ \A f \in P : w[f] = v[f] \/ <<w[f], f>> \in R
          /\ \A o \in offers : w[o[2]] # -1 /\ w[o[2]] <= o[1]
      BY <2>2, <3>2, EnqueueKeeps DEF P
    <3>8. \A f \in P : w[f] = -1 <=> v[f] = -1
      BY <2>2, <3>3, <3>5, SameReached DEF P
    <3>9. w \in Values(T) /\ x.queue \subseteq R /\ \A f \in P : v[f] \in Nat \cup {-1} /\ w[f] \in Nat \cup {-1}
      BY <2>2, <3>7 DEF CostsHold, Values, P
    <3> HIDE DEF w, R
    <3>10. Supported(lOps, lCost, w, z.supporter, z.supporter_cost, i)
      <4>1. ASSUME NEW f \in Range(r.pre)
            PROVE  w[f] # -1 /\ w[f] <= v[q]
        <5>1. f \in P /\ v[f] \in Nat /\ v[f] # -1 /\ v[f] <= v[q]
          BY <2>3, <2>7, <2>8
        <5>2. w[f] # -1 /\ w[f] <= v[f]
          BY <3>7, <5>1 DEF Falls, P
        <5>3. QED
          BY <2>9, <3>9, <5>1, <5>2
      <4>2. ASSUME NEW f \in r.effs
            PROVE  w[f] # -1 /\ w[f] <= v[q] + CostOf(lCost, r)
        BY <3>4, <3>7
      <4>3. QED
        BY <2>8, <2>11, <4>1, <4>2 DEF Supported
    <3>11. Unreached(lOps, w, i) <=> Unreached(lOps, v, i)
      BY <2>3, <3>8 DEF Unreached
    <3>12. ASSUME NEW k \in DOMAIN lOps
           PROVE  OpHolds(lOps, lCost, w, unsat, z.supporter, z.supporter_cost, k)
      <4>1. CASE k = i
        BY <2>5, <3>10, <3>11, <4>1 DEF OpHolds
      <4>2. CASE k # i
        <5>1. OpHolds(lOps, lCost, v, unsat, x.supporter, x.supporter_cost, k)
          BY DEF LoopHolds
        <5>2. OpHolds(lOps, lCost, w, unsat, x.supporter, x.supporter_cost, k)
          BY <2>2, <3>7, <3>8, <3>9, <5>1, OpKeeps DEF P
        <5>3. z.supporter[k] = x.supporter[k] /\ z.supporter_cost[k] = x.supporter_cost[k]
          BY <2>11, <4>2
        <5>4. QED
          BY <5>2, <5>3 DEF OpHolds, Supported
      <4>3. QED
        BY <4>1, <4>2
    <3>13. LoopHolds(T, lOps, s, lCost, unsat, y)
      BY <3>6, <3>7, <3>12 DEF LoopHolds
    <3>14. UpdatesTo(T, lOps, x, y, i, p, c)
      BY <2>8, <2>11, <3>6, <3>7, <3>8, <3>9 DEF UpdatesTo, P
    <3>15. QED
      BY <3>13, <3>14 DEF y
  <2>14. QED
    BY <2>12, <2>13
<1>3. QED
  BY <1>1, <1>2

\* One operator after the other.
LoopBody(x, p, c, f) ==
  [i \in 0 .. Len(lOps) |->
     IF i = 0 THEN x
     ELSE IF p \in Range(lOps[i].pre) THEN Update(f[i - 1], i, p, c) ELSE f[i - 1]]

LEMMA LoopOfUpdates ==
  ASSUME NEW T, IsTask(T), OperatorsFit(T, lOps), NEW s \in StatesOf(T), lCost \in Costs(T), NEW unsat,
         NEW x, LoopHolds(T, lOps, s, lCost, unsat, x), NEW p, NEW c
  PROVE  \E f : f = LoopBody(x, p, c, f)
<1> DEFINE n == Len(lOps)
           V == {y \in Explored(T, lOps) : LoopHolds(T, lOps, s, lCost, unsat, y)}
           next(y, i) == IF p \in Range(lOps[i].pre) THEN Update(y, i, p, c) ELSE y
           step == [y \in V \X (1 .. n) |-> next(y[1], y[2])]
<1>1. n \in Nat /\ DOMAIN lOps = 1 .. n
  BY DEF OperatorsFit
<1>2. x \in V
  BY DEF LoopHolds
<1>3. ASSUME NEW y \in V, NEW i \in 1 .. n
      PROVE  next(y, i) \in V
  <2>1. CASE p \in Range(lOps[i].pre)
    <3>1. LoopHolds(T, lOps, s, lCost, unsat, Update(y, i, p, c))
      BY <1>1, <2>1, UpdateIs
    <3>2. QED
      BY <2>1, <3>1 DEF LoopHolds
  <2>2. CASE p \notin Range(lOps[i].pre)
    BY <2>2
  <2>3. QED
    BY <2>1, <2>2
<1>4. step \in [V \X (1 .. n) -> V]
  <2> HIDE DEF V, n, next
  <2>1. QED
    BY <1>3
<1>5. HasPrefixFunction(n, V, x, step)
  <2> HIDE DEF V, n, step
  <2>1. QED
    BY <1>1, <1>2, <1>4, PrefixRecursion, Zenon
<1>6. PICK f \in [0 .. n -> V] : f[0] = x /\ \A i \in 1 .. n : f[i] = step[<<f[i - 1], i>>]
  <2> HIDE DEF V, n, step
  <2>1. QED
    BY <1>5, Zenon DEF HasPrefixFunction
<1>7. ASSUME NEW i \in 0 .. n
      PROVE  f[i] = IF i = 0 THEN x
                    ELSE IF p \in Range(lOps[i].pre) THEN Update(f[i - 1], i, p, c) ELSE f[i - 1]
  <2>1. CASE i = 0
    BY <1>6, <2>1
  <2>2. CASE i # 0
    <3>1. i \in 1 .. n /\ i - 1 \in 0 .. n
      <4> HIDE DEF n
      <4>1. QED
        BY <1>1, <2>2
    <3>2. f[i - 1] \in V
      <4> HIDE DEF n, V
      <4>1. QED
        BY <3>1
    <3>3. step[<<f[i - 1], i>>] = next(f[i - 1], i)
      <4> HIDE DEF n, V, next
      <4>1. QED
        BY <3>1, <3>2
    <3>4. f[i] = step[<<f[i - 1], i>>]
      BY <1>6, <3>1
    <3> HIDE DEF step, n, V
    <3>5. QED
      BY <2>2, <3>3, <3>4
  <2>3. QED
    BY <2>1, <2>2
<1>8. f = LoopBody(x, p, c, f)
  <2>1. f = [i \in 0 .. n |-> f[i]]
    <3> HIDE DEF n, V
    <3>1. QED
      OBVIOUS
  <2>2. QED
    BY <1>7, <2>1 DEF LoopBody
<1>9. QED
  BY <1>8

\* Every operator that had p as its supporter is current again.
LEMMA UpdatedIs ==
  ASSUME NEW T, IsTask(T), OperatorsFit(T, lOps), NEW s \in StatesOf(T), lCost \in Costs(T), NEW unsat,
         NEW x, LoopHolds(T, lOps, s, lCost, unsat, x), NEW p \in Propositions(T), NEW c \in Nat, x.hmax[p] = c,
         \A k \in DOMAIN lOps :
           \/ Unreached(lOps, x.hmax, k)
           \/ Current(x.hmax, x.queue, x.supporter, x.supporter_cost, k)
           \/ x.supporter[k] = p
  PROVE  LET y == Updated(x, p, c) IN
         /\ LoopHolds(T, lOps, s, lCost, unsat, y)
         /\ \A k \in DOMAIN lOps :
              Unreached(lOps, y.hmax, k) \/ Current(y.hmax, y.queue, y.supporter, y.supporter_cost, k)
<1> DEFINE n == Len(lOps)
           P == Propositions(T)
           updated == CHOOSE f : f = LoopBody(x, p, c, f)
           y == Updated(x, p, c)
<1>1. n \in Nat /\ DOMAIN lOps = 1 .. n
  BY DEF OperatorsFit
<1>2. y = updated[n]
  BY DEF Updated, LoopBody
<1>3. updated = LoopBody(x, p, c, updated)
  BY LoopOfUpdates
<1> HIDE DEF updated, n, y
<1>4. \A i \in 0 .. n :
        updated[i] = IF i = 0 THEN x
                     ELSE IF p \in Range(lOps[i].pre) THEN Update(updated[i - 1], i, p, c) ELSE updated[i - 1]
  BY <1>3 DEF LoopBody, n
<1> DEFINE Cur(z, k) == Current(z.hmax, z.queue, z.supporter, z.supporter_cost, k)
           Good(i) == LET z == updated[i] IN
                      /\ LoopHolds(T, lOps, s, lCost, unsat, z)
                      /\ z.hmax[p] = c \/ <<z.hmax[p], p>> \in z.queue
                      /\ \A k \in 1 .. n :
                           Unreached(lOps, z.hmax, k) \/ Cur(z, k) \/ (k > i /\ z.supporter[k] = p)
           A == {i \in 0 .. n : Good(i)}
<1>5. 0 \in A
  <2>1. updated[0] = x /\ 0 \in 0 .. n
    BY <1>1, <1>4
  <2>2. \A k \in 1 .. n : k > 0
    BY <1>1
  <2>3. QED
    BY <1>1, <2>1, <2>2
<1>6. ASSUME NEW j \in 0 .. n - 1, j \in A
      PROVE  j + 1 \in A
  <2>1. PICK i \in 1 .. n : i = j + 1
    BY <1>1
  <2>2. i - 1 = j /\ i \in 0 .. n /\ i # 0 /\ \A k \in 1 .. n : k > j => k > i \/ k = i
    BY <1>1, <2>1
  <2> DEFINE z == updated[j]
             u == updated[i]
  <2>3. u = IF p \in Range(lOps[i].pre) THEN Update(z, i, p, c) ELSE z
    <3>1. u = IF i = 0 THEN x ELSE IF p \in Range(lOps[i].pre) THEN Update(updated[i - 1], i, p, c) ELSE updated[i - 1]
      BY <1>4, <2>2
    <3>2. QED
      BY <2>2, <3>1
  <2>4. /\ LoopHolds(T, lOps, s, lCost, unsat, z)
        /\ z.hmax[p] = c \/ <<z.hmax[p], p>> \in z.queue
        /\ \A k \in 1 .. n : Unreached(lOps, z.hmax, k) \/ Cur(z, k) \/ (k > j /\ z.supporter[k] = p)
    BY <1>6
  <2> HIDE DEF z, u, A
  <2>5. i \in DOMAIN lOps
    BY <1>1
  <2>6. CASE p \notin Range(lOps[i].pre)
    <3>1. u = z
      BY <2>3, <2>6
    <3>2. ASSUME NEW k \in 1 .. n
          PROVE  Unreached(lOps, z.hmax, k) \/ Cur(z, k) \/ (k > i /\ z.supporter[k] = p)
      <4>1. CASE k = i /\ ~ Unreached(lOps, z.hmax, i)
        <5>1. z.supporter[i] \in Range(lOps[i].pre)
          BY <2>4, <2>5, <4>1 DEF LoopHolds, OpHolds, Supported
        <5>2. QED
          BY <2>4, <2>6, <4>1, <5>1
      <4>2. CASE k # i
        BY <2>2, <2>4, <4>2
      <4>3. QED
        BY <4>1, <4>2
    <3>3. QED
      BY <2>1, <2>2, <2>4, <3>1, <3>2 DEF A, u
  <2>7. CASE p \in Range(lOps[i].pre)
    <3>1. u = Update(z, i, p, c)
      BY <2>3, <2>7
    <3>2. LoopHolds(T, lOps, s, lCost, unsat, u) /\ UpdatesTo(T, lOps, z, u, i, p, c)
      BY <2>4, <2>5, <2>7, <3>1, UpdateIs
    <3>3. /\ z.queue \subseteq u.queue
          /\ \A q \in P : /\ u.hmax[q] = z.hmax[q] \/ <<u.hmax[q], q>> \in u.queue
                          /\ u.hmax[q] = -1 <=> z.hmax[q] = -1
          /\ \A k \in DOMAIN lOps \ {i} : u.supporter[k] = z.supporter[k] /\ u.supporter_cost[k] = z.supporter_cost[k]
          /\ \/ u = z /\ (z.supporter[i] # p \/ z.supporter_cost[i] <= c)
             \/ u.supporter[i] \in Range(lOps[i].pre) /\ u.supporter_cost[i] = z.hmax[u.supporter[i]]
      BY <3>2 DEF UpdatesTo
    <3>4. u.hmax[p] = c \/ <<u.hmax[p], p>> \in u.queue
      BY <2>4, <3>3
    <3>5. ASSUME NEW k \in 1 .. n
          PROVE  Unreached(lOps, u.hmax, k) \/ Cur(u, k) \/ (k > i /\ u.supporter[k] = p)
      <4>1. k \in DOMAIN lOps /\ Range(lOps[k].pre) \subseteq P
        <5>1. k \in DOMAIN lOps
          BY <1>1
        <5>2. QED
          BY <5>1, RelaxedOpIs
      <4>2. Unreached(lOps, u.hmax, k) <=> Unreached(lOps, z.hmax, k)
        BY <3>3, <4>1 DEF Unreached
      <4>3. ASSUME Cur(z, k), ~ Unreached(lOps, z.hmax, k),
                   u.supporter[k] = z.supporter[k], u.supporter_cost[k] = z.supporter_cost[k]
            PROVE  Cur(u, k)
        <5>1. z.supporter[k] \in P
          BY <2>4, <4>1, <4>3 DEF LoopHolds, OpHolds, Supported
        <5>2. u.hmax[z.supporter[k]] = z.hmax[z.supporter[k]] \/ <<u.hmax[z.supporter[k]], z.supporter[k]>> \in u.queue
          BY <3>3, <5>1
        <5>3. QED
          BY <3>3, <4>3, <5>2 DEF Current
      <4>4. CASE k # i
        BY <2>2, <2>4, <3>3, <4>1, <4>2, <4>3, <4>4
      <4>5. CASE k = i
        <5>1. CASE u.supporter[i] \in Range(lOps[i].pre) /\ u.supporter_cost[i] = z.hmax[u.supporter[i]]
          <6>1. u.supporter[i] \in P
            BY <4>1, <4>5, <5>1
          <6>2. u.hmax[u.supporter[i]] = z.hmax[u.supporter[i]] \/ <<u.hmax[u.supporter[i]], u.supporter[i]>> \in u.queue
            BY <3>3, <6>1
          <6>3. Cur(u, i)
            BY <5>1, <6>2 DEF Current
          <6>4. QED
            BY <4>5, <6>3
        <5>2. CASE u = z /\ (z.supporter[i] # p \/ z.supporter_cost[i] <= c)
          <6>1. CASE Unreached(lOps, z.hmax, i) \/ Cur(z, i)
            BY <4>5, <5>2, <6>1
          <6>2. CASE ~ (Unreached(lOps, z.hmax, i) \/ Cur(z, i))
            <7>1. z.supporter[i] = p /\ z.supporter_cost[i] <= c
              BY <2>4, <5>2, <6>2
            <7>2. z.hmax[p] # -1 /\ z.hmax[p] <= z.supporter_cost[i]
              BY <2>4, <2>5, <2>7, <6>2 DEF LoopHolds, OpHolds, Supported
            <7>3. z.supporter_cost[i] \in Nat
              BY <2>4, <2>5 DEF LoopHolds, Explored
            <7>4. z.hmax[p] = c => z.supporter_cost[i] = z.hmax[p]
              BY <7>1, <7>2, <7>3
            <7>5. Cur(z, i)
              BY <2>4, <7>1, <7>4 DEF Current
            <7>6. QED
              BY <6>2, <7>5
          <6>3. QED
            BY <6>1, <6>2
        <5>3. QED
          BY <3>3, <5>1, <5>2
      <4>6. QED
        BY <4>4, <4>5
    <3>6. QED
      BY <2>1, <2>2, <3>2, <3>4, <3>5 DEF A, u
  <2>8. QED
    BY <2>6, <2>7
<1>7. \A i \in 0 .. n : i \in A
  <2> HIDE DEF A
  <2>1. QED
    BY <1>1, <1>5, <1>6, Upward
<1>8. Good(n)
  <2>1. n \in A
    BY <1>1, <1>7
  <2>2. QED
    BY <2>1
<1>9. \A k \in 1 .. n : ~ (k > n)
  BY <1>1
<1>10. LoopHolds(T, lOps, s, lCost, unsat, y) /\ \A k \in DOMAIN lOps : Unreached(lOps, y.hmax, k) \/ Cur(y, k)
  BY <1>1, <1>2, <1>8, <1>9
<1>11. QED
  BY <1>10 DEF y

\* A step of the incremental exploration.
LEMMA PopIncrementalKeeps ==
  ASSUME NEW T, IsTask(T), OperatorsFit(T, lOps), NEW s \in StatesOf(T), lCost \in Costs(T),
         NEW v, NEW Q, NEW unsat, NEW sup, NEW sc,
         MidHolds(T, lOps, s, lCost, v, Q, unsat, sup, sc), NEW e \in Q
  PROVE  LET p == e[2]
             x == [hmax |-> v, queue |-> Q \ {e}, supporter |-> sup, supporter_cost |-> sc]
             y == IF v[p] < e[1] THEN x ELSE Updated(x, p, v[p])
         IN MidHolds(T, lOps, s, lCost, y.hmax, y.queue, unsat, y.supporter, y.supporter_cost)
<1> DEFINE P == Propositions(T)
           p == e[2]
           E == Q \ {e}
           x == [hmax |-> v, queue |-> E, supporter |-> sup, supporter_cost |-> sc]
           y == Updated(x, p, v[p])
<1>1. /\ CostsHold(T, lOps, s, lCost, v, Q) /\ v \in Values(T) /\ Q \in SUBSET (Nat \X P)
      /\ sup \in [DOMAIN lOps -> P \cup {NoProposition}] /\ sc \in [DOMAIN lOps -> Nat]
      /\ \A q \in P : v[q] \in Nat \cup {-1}
  BY DEF MidHolds, CostsHold, Values
<1>2. e[1] \in Nat /\ p \in P /\ e = <<e[1], p>> /\ v[p] # -1 /\ v[p] <= e[1]
  BY <1>1 DEF CostsHold
<1>3. CASE v[p] < e[1]
  <2>1. /\ CostsHold(T, lOps, s, lCost, v, E)
        /\ \A q \in P : <<v[q], q>> \in Q => <<v[q], q>> \in E
    BY <1>1, <1>3, OutdatedKeeps
  <2> HIDE DEF E, P
  <2>2. ASSUME NEW i \in DOMAIN lOps
        PROVE  /\ OpHolds(lOps, lCost, v, unsat, sup, sc, i)
               /\ Unreached(lOps, v, i) \/ Current(v, E, sup, sc, i)
    <3>1. /\ OpHolds(lOps, lCost, v, unsat, sup, sc, i)
          /\ Unreached(lOps, v, i) \/ Current(v, Q, sup, sc, i)
      BY DEF MidHolds
    <3>2. ~ Unreached(lOps, v, i) => sup[i] \in P
      BY <3>1, RelaxedOpIs DEF OpHolds, Supported, P
    <3>3. QED
      BY <2>1, <3>1, <3>2 DEF Current
  <2>3. MidHolds(T, lOps, s, lCost, v, E, unsat, sup, sc)
    BY <1>1, <2>1, <2>2 DEF MidHolds, P
  <2>4. QED
    BY <1>3, <2>3 DEF E
<1>4. CASE ~ (v[p] < e[1])
  <2>1. v[p] = e[1] /\ v[p] \in Nat
    BY <1>1, <1>2, <1>4
  <2>2. x.hmax = v /\ x.queue = E /\ x.supporter = sup /\ x.supporter_cost = sc
    OBVIOUS
  <2>3. x \in Explored(T, lOps)
    BY <1>1 DEF Explored
  <2>4. CostsHold(T, lOps, s, lCost, v, E)
    BY <1>1 DEF CostsHold
  <2>5. \A n \in P : <<v[n], n>> \in Q => <<v[n], n>> \in E \/ n = p
    BY <1>2
  <2> HIDE DEF x, E, P, y
  <2>6. \A i \in DOMAIN lOps : OpHolds(lOps, lCost, v, unsat, sup, sc, i)
    BY DEF MidHolds
  <2>7. LoopHolds(T, lOps, s, lCost, unsat, x)
    BY <2>2, <2>3, <2>4, <2>6 DEF LoopHolds
  <2>8. ASSUME NEW i \in DOMAIN lOps
        PROVE  Unreached(lOps, v, i) \/ Current(v, E, sup, sc, i) \/ sup[i] = p
    <3>1. /\ OpHolds(lOps, lCost, v, unsat, sup, sc, i)
          /\ Unreached(lOps, v, i) \/ Current(v, Q, sup, sc, i)
      BY DEF MidHolds
    <3>2. ~ Unreached(lOps, v, i) => sup[i] \in P
      BY <3>1, RelaxedOpIs DEF OpHolds, Supported, P
    <3>3. QED
      BY <2>5, <3>1, <3>2 DEF Current
  <2>9. /\ LoopHolds(T, lOps, s, lCost, unsat, y)
        /\ \A k \in DOMAIN lOps :
             Unreached(lOps, y.hmax, k) \/ Current(y.hmax, y.queue, y.supporter, y.supporter_cost, k)
    BY <1>2, <2>1, <2>2, <2>7, <2>8, UpdatedIs DEF y, P
  <2>10. MidHolds(T, lOps, s, lCost, y.hmax, y.queue, unsat, y.supporter, y.supporter_cost)
    BY <2>9 DEF MidHolds, LoopHolds, Explored
  <2>11. QED
    BY <1>4, <2>10 DEF y, x, E
<1>5. QED
  BY <1>3, <1>4

-----------------------------------------------------------------------------
(* hmax, as defined.                                                       *)

LEMMA WorthIs ==
  ASSUME NEW S, NEW c \in [S -> 0 .. INFTY], NEW F \in SUBSET S
  PROVE  /\ Worth(c, F) \in 0 .. INFTY /\ \A f \in F : c[f] <= Worth(c, F)
         /\ F # {} => \E f \in F : c[f] = Worth(c, F)
         /\ F = {} => Worth(c, F) = 0
<1> DEFINE V == {c[f] : f \in F} \cup {0}
           m == Worth(c, F)
<1>1. V \in SUBSET (0 .. INFTY) /\ V # {}
  BY InftyIs
<1>2. m = Largest(V)
  BY DEF Worth
<1>3. m \in V /\ \A k \in V : k <= m
  <2> HIDE DEF V, m
  <2>1. QED
    BY <1>1, <1>2, InftyIs, LargestIn
<1>4. \A f \in F : c[f] \in V /\ c[f] \in 0 .. INFTY
  OBVIOUS
<1>5. m = 0 \/ \E f \in F : c[f] = m
  BY <1>3
<1> HIDE DEF m
<1>6. m \in 0 .. INFTY /\ \A f \in F : c[f] <= m
  BY <1>1, <1>3, <1>4
<1>7. ASSUME NEW f \in F, m = 0
      PROVE  c[f] = m
  BY <1>4, <1>6, <1>7, InftyIs
<1>8. F = {} => m = 0
  BY <1>5
<1>9. QED
  BY <1>5, <1>6, <1>7, <1>8 DEF m

\* Effect e of operator o makes f true at a cost of n.
MadeFor(T, cost, c, o, e, f, n) ==
  e.fact = f /\ Worth(c, Conditions(T, o, e)) < INFTY /\ n = cost[o] + Worth(c, Conditions(T, o, e))

LEMMA ImprovedIs ==
  ASSUME NEW T, IsTask(T), NEW cost \in Costs(T), NEW c \in [FactsOf(T) -> 0 .. INFTY]
  PROVE  LET r == Improved(T, cost, c) IN
         /\ r \in [FactsOf(T) -> 0 .. INFTY] /\ Below(FactsOf(T), r, c)
         /\ \A o \in OpsOf(T) : \A e \in Range(T.ops[o].effs) :
              Worth(c, Conditions(T, o, e)) < INFTY => r[e.fact] <= cost[o] + Worth(c, Conditions(T, o, e))
         /\ \A f \in FactsOf(T) :
              r[f] = c[f] \/ \E o \in OpsOf(T) : \E e \in Range(T.ops[o].effs) : MadeFor(T, cost, c, o, e, f, r[f])
<1> DEFINE F == FactsOf(T)
           offers(f) == UNION {{cost[o] + Worth(c, Conditions(T, o, e)) :
                                  e \in {g \in Range(T.ops[o].effs) :
                                           g.fact = f /\ Worth(c, Conditions(T, o, g)) < INFTY}} :
                                 o \in OpsOf(T)}
           r == Improved(T, cost, c)
<1>1. r = [f \in F |-> Least({c[f]} \cup offers(f))]
  BY DEF Improved
<1>2. ASSUME NEW o \in OpsOf(T), NEW e \in Range(T.ops[o].effs)
      PROVE  /\ cost[o] \in Nat /\ Worth(c, Conditions(T, o, e)) \in Nat /\ e.fact \in F
             /\ Worth(c, Conditions(T, o, e)) < INFTY => cost[o] + Worth(c, Conditions(T, o, e)) \in offers(e.fact)
  <2>1. Conditions(T, o, e) \in SUBSET F /\ e.fact \in F
    BY EffectIs
  <2>2. Worth(c, Conditions(T, o, e)) \in 0 .. INFTY
    BY <2>1, WorthIs
  <2>3. Worth(c, Conditions(T, o, e)) < INFTY => cost[o] + Worth(c, Conditions(T, o, e)) \in offers(e.fact)
    OBVIOUS
  <2> HIDE DEF offers
  <2>4. QED
    BY <2>1, <2>2, <2>3 DEF Costs
<1>3. ASSUME NEW f \in F, NEW n \in offers(f)
      PROVE  \E o \in OpsOf(T) : \E e \in Range(T.ops[o].effs) : MadeFor(T, cost, c, o, e, f, n)
  BY DEF MadeFor
<1>4. \A f \in F : offers(f) \in SUBSET Nat
  <2>1. ASSUME NEW f \in F, NEW n \in offers(f)
        PROVE  n \in Nat
    <3>1. PICK o \in OpsOf(T) : \E e \in Range(T.ops[o].effs) : MadeFor(T, cost, c, o, e, f, n)
      BY <1>3
    <3>2. PICK e \in Range(T.ops[o].effs) : MadeFor(T, cost, c, o, e, f, n)
      BY <3>1
    <3> HIDE DEF offers
    <3>3. QED
      BY <1>2, <3>2 DEF MadeFor
  <2>2. QED
    BY <2>1
<1> HIDE DEF offers
<1>5. ASSUME NEW f \in F
      PROVE  /\ r[f] \in {c[f]} \cup offers(f) /\ \A k \in {c[f]} \cup offers(f) : r[f] <= k
             /\ r[f] \in 0 .. INFTY /\ r[f] <= c[f]
  <2> DEFINE V == {c[f]} \cup offers(f)
  <2>1. V \in SUBSET Nat /\ V # {} /\ c[f] \in V /\ c[f] \in 0 .. INFTY
    <3>1. c[f] \in 0 .. INFTY
      OBVIOUS
    <3>2. QED
      BY <1>4, <3>1, InftyIs
  <2>2. r[f] = Least(V)
    BY <1>1
  <2> HIDE DEF V, r
  <2>3. r[f] \in V /\ \A k \in V : r[f] <= k
    BY <2>1, <2>2, LeastIn
  <2>4. r[f] \in Nat /\ r[f] <= c[f]
    BY <2>1, <2>3
  <2>5. r[f] \in 0 .. INFTY
    BY <2>1, <2>4, InftyIs
  <2>6. QED
    BY <2>3, <2>4, <2>5 DEF V
<1>6. r \in [F -> 0 .. INFTY]
  <2>1. r = [f \in F |-> r[f]]
    BY <1>1
  <2> HIDE DEF r
  <2>2. QED
    BY <1>5, <2>1
<1> HIDE DEF r
<1>7. ASSUME NEW o \in OpsOf(T), NEW e \in Range(T.ops[o].effs), Worth(c, Conditions(T, o, e)) < INFTY
      PROVE  r[e.fact] <= cost[o] + Worth(c, Conditions(T, o, e))
  BY <1>2, <1>5, <1>7
<1>8. ASSUME NEW f \in F
      PROVE  r[f] = c[f] \/ \E o \in OpsOf(T) : \E e \in Range(T.ops[o].effs) : MadeFor(T, cost, c, o, e, f, r[f])
  <2>1. r[f] = c[f] \/ r[f] \in offers(f)
    BY <1>5
  <2>2. QED
    BY <1>3, <2>1
<1>9. Below(F, r, c)
  BY <1>5 DEF Below
<1>10. QED
  BY <1>6, <1>7, <1>8, <1>9 DEF r

\* What every round keeps holds in the end, when nothing improves any more.
LEMMA HmaxKeeps ==
  ASSUME NEW T, IsTask(T), NEW cost \in Costs(T), NEW s,
         NEW P \in SUBSET [FactsOf(T) -> 0 .. INFTY], \A c \in P : Improved(T, cost, c) \in P,
         [f \in FactsOf(T) |-> IF f \in FactsIn(s) THEN 0 ELSE INFTY] \in P
  PROVE  LET r == Hmax(T, cost, s) IN r \in P /\ Improved(T, cost, r) = r
<1> DEFINE D == [FactsOf(T) -> 0 .. INFTY]
           next == [c \in D |-> Improved(T, cost, c)]
           Body(f) == [c \in D |-> IF Improved(T, cost, c) = c THEN c ELSE f[Improved(T, cost, c)]]
           improved == CHOOSE f : f = Body(f)
           start == [f \in FactsOf(T) |-> IF f \in FactsIn(s) THEN 0 ELSE INFTY]
<1>1. ASSUME NEW c \in D
      PROVE  next[c] \in D /\ next[c] = Improved(T, cost, c) /\ Below(FactsOf(T), next[c], c)
  BY ImprovedIs
<1>2. next \in [D -> D]
  <2> HIDE DEF D
  <2>1. QED
    BY <1>1
<1>3. Grounded(D, Settled(D, next), next)
  <2>1. IsFiniteSet(FactsOf(T))
    BY FactsFinite
  <2> HIDE DEF next
  <2>2. QED
    BY <1>1, <1>2, <2>1, DescentEnds, InftyIs
<1> HIDE DEF D, next
<1>4. PICK f \in [D -> D] : RunsOn(D, next, f)
  BY <1>2, <1>3, RoundsExist
<1>5. f = Body(f)
  <2>1. f = [c \in D |-> f[c]]
    OBVIOUS
  <2>2. \A c \in D : f[c] = IF Improved(T, cost, c) = c THEN c ELSE f[Improved(T, cost, c)]
    BY <1>1, <1>4 DEF RunsOn
  <2>3. QED
    BY <2>1, <2>2
<1>6. improved = Body(improved)
  <2> HIDE DEF Body
  <2>1. QED
    BY <1>5
<1> HIDE DEF improved
<1>7. RunsOn(D, next, improved)
  <2>1. \A c \in D : improved[c] = IF Improved(T, cost, c) = c THEN c ELSE improved[Improved(T, cost, c)]
    BY <1>6
  <2>2. QED
    BY <1>1, <2>1 DEF RunsOn
<1>8. P \in SUBSET D /\ \A c \in P : next[c] \in P
  <2>1. P \in SUBSET D
    BY DEF D
  <2>2. QED
    BY <1>1, <2>1
<1>9. start \in P
  OBVIOUS
<1> HIDE DEF start
<1>10. improved[start] \in P /\ next[improved[start]] = improved[start]
  BY <1>2, <1>3, <1>7, <1>8, <1>9, RoundsKeep
<1>11. Improved(T, cost, improved[start]) = improved[start]
  BY <1>1, <1>8, <1>10
<1>12. Hmax(T, cost, s) = improved[start]
  BY DEF Hmax, improved, start, D
<1>13. QED
  BY <1>10, <1>11, <1>12

\* It is a potential.
LEMMA HmaxIsPotential ==
  ASSUME NEW T, IsTask(T), NEW ops, OperatorsFit(T, ops), NEW s \in StatesOf(T), NEW cost \in Costs(T)
  PROVE  LET c == Hmax(T, cost, s) IN
         /\ c \in [FactsOf(T) -> 0 .. INFTY]
         /\ IsPotential(T, ops, s, cost,
                        [p \in Propositions(T) |-> IF p = artificial_precondition THEN 0
                                                   ELSE IF p = artificial_goal THEN Worth(c, T.goal) ELSE c[p]])
<1> DEFINE F == FactsOf(T)
           c == Hmax(T, cost, s)
           phi == [p \in Propositions(T) |-> IF p = artificial_precondition THEN 0
                                             ELSE IF p = artificial_goal THEN Worth(c, T.goal) ELSE c[p]]
           start == [f \in F |-> IF f \in FactsIn(s) THEN 0 ELSE INFTY]
           P == {d \in [F -> 0 .. INFTY] : \A f \in F \cap FactsIn(s) : d[f] = 0}
<1>1. start \in P
  BY InftyIs
<1>2. ASSUME NEW d \in P
      PROVE  Improved(T, cost, d) \in P
  <2> DEFINE r == Improved(T, cost, d)
  <2>1. r \in [F -> 0 .. INFTY] /\ Below(F, r, d)
    BY ImprovedIs
  <2> HIDE DEF r
  <2>2. ASSUME NEW f \in F \cap FactsIn(s)
        PROVE  r[f] = 0
    <3>1. r[f] \in 0 .. INFTY /\ r[f] <= d[f] /\ d[f] = 0
      BY <2>1 DEF Below
    <3>2. QED
      BY <3>1, InftyIs
  <2>3. r \in P
    BY <2>1, <2>2
  <2>4. QED
    BY <2>3 DEF r
<1>3. c \in P /\ Improved(T, cost, c) = c
  <2>1. P \in SUBSET [F -> 0 .. INFTY]
    OBVIOUS
  <2> HIDE DEF P, F
  <2>2. QED
    BY <1>1, <1>2, <2>1, HmaxKeeps DEF F
<1>4. c \in [F -> 0 .. INFTY] /\ \A f \in F \cap FactsIn(s) : c[f] = 0
  BY <1>3
<1> HIDE DEF c, P, start
<1>5. /\ artificial_precondition \notin F /\ artificial_goal \notin F
      /\ artificial_precondition # artificial_goal
      /\ Propositions(T) = F \cup {artificial_precondition, artificial_goal}
  BY ArtificialAre DEF Propositions
<1>6. /\ \A f \in F : phi[f] = c[f] /\ c[f] \in 0 .. INFTY
      /\ phi[artificial_precondition] = 0 /\ phi[artificial_goal] = Worth(c, T.goal)
  BY <1>4, <1>5
<1>7. T.goal \in SUBSET F
  BY DEF IsTask
<1>8. phi \in [Propositions(T) -> Nat]
  <2>1. Worth(c, T.goal) \in 0 .. INFTY
    BY <1>4, <1>7, WorthIs
  <2>2. \A f \in F : c[f] \in Nat
    BY <1>4, InftyIs
  <2>3. Worth(c, T.goal) \in Nat
    BY <2>1, InftyIs
  <2>4. QED
    BY <1>5, <2>2, <2>3
<1> HIDE DEF phi
<1>9. ASSUME NEW C \in SUBSET F
      PROVE  \E p \in Before(C) : phi[p] = Worth(c, C)
  <2>1. CASE C = {}
    BY <1>4, <1>6, <2>1, WorthIs DEF Before
  <2>2. CASE C # {}
    <3>1. PICK f \in C : c[f] = Worth(c, C)
      BY <1>4, <2>2, WorthIs
    <3>2. QED
      BY <1>6, <2>2, <3>1 DEF Before
  <2>3. QED
    BY <2>1, <2>2
<1>10. ASSUME NEW i \in DOMAIN ops, NEW q \in ops[i].effs
       PROVE  \E p \in Range(ops[i].pre) : phi[q] <= phi[p] + CostOf(cost, ops[i])
  <2>1. Range(ops[i].pre) \subseteq Propositions(T) /\ CostOf(cost, ops[i]) \in Nat /\ q \in Propositions(T)
    BY RelaxedOpIs, CostOfIs
  <2>2. CASE StandsForGoal(T, ops[i])
    <3>1. PICK p \in Before(T.goal) : phi[p] = Worth(c, T.goal)
      BY <1>7, <1>9
    <3>2. p \in Range(ops[i].pre) /\ q = artificial_goal
      BY <2>2, <3>1 DEF StandsForGoal
    <3>3. phi[q] = phi[p] /\ phi[p] \in Nat
      BY <1>6, <1>8, <2>1, <3>1, <3>2
    <3>4. phi[q] <= phi[p] + CostOf(cost, ops[i])
      BY <2>1, <3>3
    <3>5. QED
      BY <3>2, <3>4
  <2>3. CASE \E o \in OpsOf(T) : StandsFor(T, ops[i], o)
    <3>1. PICK o \in OpsOf(T) : StandsFor(T, ops[i], o)
      BY <2>3
    <3>2. PICK e \in Range(T.ops[o].effs) : e.fact = q /\ Relaxes(T, ops[i], o, e)
      BY <3>1 DEF StandsFor
    <3> DEFINE C == Conditions(T, o, e)
    <3>3. C \in SUBSET F /\ q \in F
      BY <3>2, EffectIs
    <3> HIDE DEF C
    <3>4. PICK p \in Before(C) : phi[p] = Worth(c, C)
      BY <1>9, <3>3
    <3>5. p \in Range(ops[i].pre) /\ ops[i].group = o
      BY <3>2, <3>4 DEF Relaxes, C
    <3>6. CostOf(cost, ops[i]) = cost[o]
      <4>1. o # 0
        BY OperatorsAre
      <4>2. QED
        BY <3>5, <4>1 DEF CostOf
    <3>7. phi[q] = c[q] /\ c[q] \in 0 .. INFTY /\ Worth(c, C) \in 0 .. INFTY
      BY <1>4, <1>6, <3>3, WorthIs
    <3>8. Worth(c, C) < INFTY => c[q] <= cost[o] + Worth(c, C)
      BY <1>3, <1>4, <3>2, ImprovedIs DEF C
    <3>9. phi[q] <= phi[p] + CostOf(cost, ops[i])
      BY <2>1, <3>4, <3>6, <3>7, <3>8, InftyIs
    <3>10. QED
      BY <3>5, <3>9
  <2>4. QED
    BY <2>2, <2>3 DEF OperatorsFit
<1>11. \A p \in SourcesOf(s) : phi[p] = 0
  <2>1. FactsIn(s) \subseteq F
    BY SourcesAre DEF SourcesOf
  <2>2. QED
    BY <1>4, <1>6, <2>1 DEF SourcesOf
<1>12. IsPotential(T, ops, s, cost, phi)
  BY <1>8, <1>10, <1>11 DEF IsPotential
<1>13. QED
  BY <1>4, <1>12 DEF phi, c

LEMMA HmaxHolds ==
  ASSUME NEW T, IsTask(T), NEW ops, OperatorsFit(T, ops), NEW s \in StatesOf(T), NEW cost \in Costs(T),
         NEW v, NEW Q, NEW unsat, NEW sup, NEW sc,
         MidHolds(T, ops, s, cost, v, Q, unsat, sup, sc), Q = {}
  PROVE  \A f \in FactsOf(T) : Hmax(T, cost, s)[f] = IF v[f] = -1 THEN INFTY ELSE Least({v[f], INFTY})
<1> DEFINE F == FactsOf(T)
           w == [f \in F |-> IF v[f] = -1 THEN INFTY ELSE Least({v[f], INFTY})]
           c == Hmax(T, cost, s)
           start == [f \in F |-> IF f \in FactsIn(s) THEN 0 ELSE INFTY]
           P == {d \in [F -> 0 .. INFTY] : Below(F, w, d)}
<1>1. /\ v \in Values(T) /\ NeverBelow(T, ops, s, cost, v) /\ \A p \in SourcesOf(s) : v[p] = 0
      /\ F \subseteq Propositions(T) /\ \A p \in Propositions(T) : v[p] \in Nat \cup {-1}
  BY DEF MidHolds, CostsHold, Propositions, Values
<1>2. ASSUME NEW f \in F
      PROVE  /\ w[f] \in 0 .. INFTY
             /\ v[f] = -1 => w[f] = INFTY
             /\ v[f] # -1 => w[f] <= v[f] /\ (w[f] = v[f] \/ w[f] = INFTY)
  <2>1. v[f] \in Nat \cup {-1}
    BY <1>1
  <2>2. CASE v[f] = -1
    BY <2>2, InftyIs
  <2>3. CASE v[f] # -1
    <3> DEFINE V == {v[f], INFTY}
    <3>1. V \in SUBSET Nat /\ V # {}
      BY <2>1, <2>3, InftyIs
    <3>2. w[f] = Least(V)
      BY <2>3
    <3> HIDE DEF w
    <3>3. w[f] \in V /\ \A k \in V : w[f] <= k
      <4> HIDE DEF V
      <4>1. QED
        BY <3>1, <3>2, LeastIn
    <3>4. QED
      BY <2>1, <2>3, <3>3, InftyIs
  <2>4. QED
    BY <2>2, <2>3
<1> HIDE DEF w
<1>3. start \in P
  <2>1. \A f \in F : start[f] = IF f \in FactsIn(s) THEN 0 ELSE INFTY
    OBVIOUS
  <2>2. start \in [F -> 0 .. INFTY]
    BY InftyIs
  <2> HIDE DEF start
  <2>3. ASSUME NEW f \in F
        PROVE  w[f] <= start[f]
    <3>1. CASE f \in FactsIn(s)
      <4>1. v[f] = 0
        BY <1>1, <3>1 DEF SourcesOf
      <4>2. w[f] <= 0
        BY <1>2, <4>1
      <4>3. QED
        BY <2>1, <3>1, <4>2
    <3>2. CASE f \notin FactsIn(s)
      BY <1>2, <2>1, <3>2, InftyIs
    <3>3. QED
      BY <3>1, <3>2
  <2>4. QED
    BY <2>2, <2>3 DEF Below
<1>4. ASSUME NEW d \in P
      PROVE  Improved(T, cost, d) \in P
  <2> DEFINE r == Improved(T, cost, d)
  <2>1. d \in [F -> 0 .. INFTY] /\ \A f \in F : w[f] <= d[f] /\ d[f] \in 0 .. INFTY
    BY DEF Below
  <2>2. /\ r \in [F -> 0 .. INFTY]
        /\ \A f \in F : r[f] = d[f] \/ \E o \in OpsOf(T) : \E e \in Range(T.ops[o].effs) : MadeFor(T, cost, d, o, e, f, r[f])
    BY <2>1, ImprovedIs
  <2> HIDE DEF r
  <2>3. ASSUME NEW f \in F
        PROVE  w[f] <= r[f]
    <3>1. CASE r[f] = d[f]
      BY <2>1, <3>1
    <3>2. CASE \E o \in OpsOf(T) : \E e \in Range(T.ops[o].effs) : MadeFor(T, cost, d, o, e, f, r[f])
      <4>1. PICK o \in OpsOf(T) : \E e \in Range(T.ops[o].effs) : MadeFor(T, cost, d, o, e, f, r[f])
        BY <3>2
      <4>2. PICK e \in Range(T.ops[o].effs) : MadeFor(T, cost, d, o, e, f, r[f])
        BY <4>1
      <4> DEFINE C == Conditions(T, o, e)
                 m == Worth(d, C)
      <4>3. C \in SUBSET F
        BY EffectIs
      <4> HIDE DEF C
      <4>4. m \in 0 .. INFTY /\ \A g \in C : d[g] <= m
        BY <2>1, <4>3, WorthIs
      <4> HIDE DEF m
      <4>5. e.fact = f /\ m < INFTY /\ r[f] = cost[o] + m /\ cost[o] \in Nat
        BY <4>2 DEF MadeFor, C, m, Costs
      <4>6. \A g \in C : v[g] # -1 /\ v[g] <= m
        <5>1. ASSUME NEW g \in C
              PROVE  v[g] # -1 /\ v[g] <= m
          <6>1. g \in F /\ d[g] <= m /\ w[g] <= d[g] /\ d[g] \in 0 .. INFTY /\ w[g] \in 0 .. INFTY
            BY <1>2, <2>1, <4>3, <4>4
          <6>2. w[g] < INFTY /\ w[g] <= m
            BY <4>4, <4>5, <6>1, InftyIs
          <6>3. v[g] # -1 /\ w[g] = v[g]
            BY <1>2, <6>1, <6>2, InftyIs
          <6>4. QED
            BY <6>2, <6>3
        <5>2. QED
          BY <5>1
      <4>7. PICK i \in DOMAIN ops : Relaxes(T, ops[i], o, e)
        BY DEF OperatorsFit
      <4>8. /\ ops[i].group = o /\ Range(ops[i].pre) = Before(C) /\ f \in ops[i].effs
        BY <4>5, <4>7 DEF Relaxes, C
      <4>9. \A p \in Before(C) : v[p] # -1 /\ v[p] <= m
        <5>1. v[artificial_precondition] = 0
          BY <1>1 DEF SourcesOf
        <5>2. QED
          BY <4>4, <4>6, <5>1 DEF Before
      <4>10. ~ Unreached(ops, v, i)
        BY <4>8, <4>9 DEF Unreached
      <4>11. Supported(ops, cost, v, sup, sc, i) /\ sc[i] = v[sup[i]]
        BY <4>10 DEF MidHolds, OpHolds, Current
      <4>12. sc[i] <= m /\ sc[i] \in Nat
        <5>1. sup[i] \in Before(C)
          BY <4>8, <4>11 DEF Supported
        <5>2. sc \in [DOMAIN ops -> Nat]
          BY DEF MidHolds
        <5>3. QED
          BY <4>9, <4>11, <5>1, <5>2
      <4>13. v[f] # -1 /\ v[f] <= sc[i] + cost[o]
        <5>1. CostOf(cost, ops[i]) = cost[o]
          <6>1. o # 0
            BY OperatorsAre
          <6>2. QED
            BY <4>8, <6>1 DEF CostOf
        <5>2. QED
          BY <4>8, <4>11, <5>1 DEF Supported
      <4>14. w[f] <= v[f] /\ v[f] \in Nat \cup {-1} /\ w[f] \in 0 .. INFTY
        BY <1>1, <1>2, <4>13
      <4>15. QED
        BY <4>4, <4>5, <4>12, <4>13, <4>14, InftyIs
    <3>3. QED
      BY <2>2, <3>1, <3>2
  <2>4. r \in P
    BY <2>2, <2>3 DEF Below
  <2>5. QED
    BY <2>4 DEF r
<1>5. c \in P
  <2>1. P \in SUBSET [F -> 0 .. INFTY]
    OBVIOUS
  <2> HIDE DEF P, F
  <2>2. QED
    BY <1>3, <1>4, <2>1, HmaxKeeps DEF F
<1>6. c \in [F -> 0 .. INFTY] /\ \A f \in F : w[f] <= c[f]
  BY <1>5 DEF Below
<1> DEFINE phi == [p \in Propositions(T) |-> IF p = artificial_precondition THEN 0
                                             ELSE IF p = artificial_goal THEN Worth(c, T.goal) ELSE c[p]]
<1>7. IsPotential(T, ops, s, cost, phi) /\ phi \in [Propositions(T) -> Nat]
  BY HmaxIsPotential DEF IsPotential
<1>8. \A f \in F : phi[f] = c[f]
  BY <1>1, ArtificialAre
<1> HIDE DEF phi, c
<1>9. ASSUME NEW f \in F
      PROVE  c[f] = w[f]
  <2>1. c[f] \in 0 .. INFTY /\ w[f] <= c[f] /\ w[f] \in 0 .. INFTY
    BY <1>2, <1>6
  <2>2. CASE v[f] = -1
    BY <1>2, <2>1, <2>2, InftyIs
  <2>3. CASE v[f] # -1
    <3>1. c[f] <= v[f]
      BY <1>1, <1>7, <1>8, <2>3 DEF NeverBelow
    <3>2. w[f] = v[f] \/ w[f] = INFTY
      BY <1>2, <2>3
    <3>3. QED
      BY <2>1, <3>1, <3>2, InftyIs
  <2>4. QED
    BY <2>2, <2>3
<1>10. \A f \in F : w[f] = IF v[f] = -1 THEN INFTY ELSE Least({v[f], INFTY})
  BY DEF w
<1>11. QED
  BY <1>9, <1>10 DEF c

-----------------------------------------------------------------------------
(* A cut.                                                                  *)

Closes(U, next, f) == \A d \in SUBSET U : f[d] = IF d \cup next[d] = d THEN d ELSE f[d \cup next[d]]

\* Sets that grow until nothing is added.
LEMMA ClosureIs ==
  ASSUME NEW U, IsFiniteSet(U), NEW next \in [SUBSET U -> SUBSET U]
  PROVE  /\ \E f \in [SUBSET U -> SUBSET U] : Closes(U, next, f)
         /\ \A f : Closes(U, next, f) =>
              \A A \in SUBSET SUBSET U : (\A d \in A : d \cup next[d] \in A) =>
                \A a \in A : f[a] \in A /\ next[f[a]] \subseteq f[a]
<1> DEFINE D == SUBSET U
           grow == [d \in D |-> d \cup next[d]]
<1>1. \A d \in D : grow[d] = d \cup next[d] /\ grow[d] \in D /\ d \subseteq grow[d]
  OBVIOUS
<1>2. grow \in [D -> D]
  OBVIOUS
<1> HIDE DEF grow
<1>3. Grounded(D, Settled(D, grow), grow)
  BY <1>1, <1>2, GrowthEnds
<1>4. \A f : Closes(U, next, f) <=> RunsOn(D, grow, f)
  BY <1>1 DEF Closes, RunsOn
<1> HIDE DEF D
<1>5. \E f \in [D -> D] : RunsOn(D, grow, f)
  BY <1>2, <1>3, RoundsExist
<1>6. ASSUME NEW f, Closes(U, next, f), NEW A \in SUBSET D, \A d \in A : d \cup next[d] \in A, NEW a \in A
      PROVE  f[a] \in A /\ next[f[a]] \subseteq f[a]
  <2>1. \A d \in A : grow[d] \in A
    BY <1>1, <1>6
  <2>2. RunsOn(D, grow, f)
    BY <1>4, <1>6
  <2>3. f[a] \in A /\ grow[f[a]] = f[a]
    BY <1>2, <1>3, <2>1, <2>2, RoundsKeep
  <2>4. QED
    BY <1>1, <2>3
<1>7. QED
  BY <1>4, <1>5, <1>6 DEF D

SupportersFit(T) == lSupporter \in [DOMAIN lOps -> Propositions(T) \cup {NoProposition}]

LEMMA PlateauIs ==
  ASSUME NEW T, T = Tasks[lTask], IsTask(T), SupportersFit(T),
         NEW A \in SUBSET SUBSET Propositions(T), \A Z \in A : Z \cup GoalZone(Z) \in A, NEW zone \in A
  PROVE  LET Z == mark_goal_plateau(zone) IN Z \in A /\ GoalZone(Z) \subseteq Z
<1> DEFINE P == Propositions(T)
           next == [Z \in SUBSET P |-> GoalZone(Z)]
           Body(f) == [Z \in SUBSET P |-> IF Z \cup GoalZone(Z) = Z THEN Z ELSE f[Z \cup GoalZone(Z)]]
           marked == CHOOSE f : f = Body(f)
<1>1. \A Z \in SUBSET P : next[Z] = GoalZone(Z) /\ next[Z] \in SUBSET P
  BY DEF GoalZone, SupportersFit
<1>2. next \in [SUBSET P -> SUBSET P] /\ IsFiniteSet(P)
  <2>1. \A Z \in SUBSET P : GoalZone(Z) \in SUBSET P
    BY <1>1
  <2> HIDE DEF P
  <2>2. IsFiniteSet(P)
    BY FactsFinite DEF P
  <2>3. QED
    BY <2>1, <2>2
<1> HIDE DEF next, P
<1>3. PICK f \in [SUBSET P -> SUBSET P] : Closes(P, next, f)
  BY <1>2, ClosureIs
<1>4. f = Body(f)
  <2>1. f = [Z \in SUBSET P |-> f[Z]]
    OBVIOUS
  <2>2. \A Z \in SUBSET P : f[Z] = IF Z \cup GoalZone(Z) = Z THEN Z ELSE f[Z \cup GoalZone(Z)]
    BY <1>1, <1>3 DEF Closes
  <2>3. QED
    BY <2>1, <2>2
<1>5. marked = Body(marked)
  <2> HIDE DEF Body
  <2>1. QED
    BY <1>4
<1> HIDE DEF marked
<1>6. Closes(P, next, marked)
  <2>1. \A Z \in SUBSET P : marked[Z] = IF Z \cup GoalZone(Z) = Z THEN Z ELSE marked[Z \cup GoalZone(Z)]
    BY <1>5
  <2>2. QED
    BY <1>1, <2>1 DEF Closes
<1>7. A \in SUBSET SUBSET P /\ \A Z \in A : Z \cup next[Z] \in A
  <2>1. A \in SUBSET SUBSET P
    BY DEF P
  <2>2. QED
    BY <1>1, <2>1
<1>8. marked[zone] \in A /\ next[marked[zone]] \subseteq marked[zone]
  BY <1>2, <1>6, <1>7, ClosureIs
<1>9. mark_goal_plateau(zone) = marked[zone]
  BY DEF mark_goal_plateau, marked, P
<1>10. marked[zone] \in SUBSET P
  BY <1>7, <1>8
<1>11. GoalZone(marked[zone]) \subseteq marked[zone]
  BY <1>1, <1>8, <1>10
<1>12. QED
  BY <1>8, <1>9, <1>11

LEMMA ExplorationIs ==
  ASSUME NEW T, T = Tasks[lTask], IsTask(T), OperatorsFit(T, lOps), NEW Z,
         NEW A \in SUBSET SUBSET Propositions(T), \A B \in A : B \cup BeforeGoalZone(B, Z) \in A, NEW sources \in A
  PROVE  LET B == second_exploration(sources, Z) IN B \in A /\ BeforeGoalZone(B, Z) \subseteq B
<1> DEFINE P == Propositions(T)
           next == [B \in SUBSET P |-> BeforeGoalZone(B, Z)]
           Body(f) == [B \in SUBSET P |-> IF B \cup BeforeGoalZone(B, Z) = B THEN B ELSE f[B \cup BeforeGoalZone(B, Z)]]
           explored == CHOOSE f : f = Body(f)
<1>1. \A B \in SUBSET P : next[B] = BeforeGoalZone(B, Z) /\ next[B] \in SUBSET P
  <2>1. \A i \in DOMAIN lOps : lOps[i].effs \subseteq P
    BY RelaxedOpIs
  <2>2. \A B : BeforeGoalZone(B, Z) \subseteq P
    BY <2>1 DEF BeforeGoalZone
  <2>3. QED
    BY <2>2
<1>2. next \in [SUBSET P -> SUBSET P] /\ IsFiniteSet(P)
  <2>1. \A B \in SUBSET P : BeforeGoalZone(B, Z) \in SUBSET P
    BY <1>1
  <2> HIDE DEF P
  <2>2. IsFiniteSet(P)
    BY FactsFinite DEF P
  <2>3. QED
    BY <2>1, <2>2
<1> HIDE DEF next, P
<1>3. PICK f \in [SUBSET P -> SUBSET P] : Closes(P, next, f)
  BY <1>2, ClosureIs
<1>4. f = Body(f)
  <2>1. f = [B \in SUBSET P |-> f[B]]
    OBVIOUS
  <2>2. \A B \in SUBSET P : f[B] = IF B \cup BeforeGoalZone(B, Z) = B THEN B ELSE f[B \cup BeforeGoalZone(B, Z)]
    BY <1>1, <1>3 DEF Closes
  <2>3. QED
    BY <2>1, <2>2
<1>5. explored = Body(explored)
  <2> HIDE DEF Body
  <2>1. QED
    BY <1>4
<1> HIDE DEF explored
<1>6. Closes(P, next, explored)
  <2>1. \A B \in SUBSET P : explored[B] = IF B \cup BeforeGoalZone(B, Z) = B THEN B ELSE explored[B \cup BeforeGoalZone(B, Z)]
    BY <1>5
  <2>2. QED
    BY <1>1, <2>1 DEF Closes
<1>7. A \in SUBSET SUBSET P /\ \A B \in A : B \cup next[B] \in A
  <2>1. A \in SUBSET SUBSET P
    BY DEF P
  <2>2. QED
    BY <1>1, <2>1
<1>8. explored[sources] \in A /\ next[explored[sources]] \subseteq explored[sources]
  BY <1>2, <1>6, <1>7, ClosureIs
<1>9. second_exploration(sources, Z) = explored[sources]
  BY DEF second_exploration, explored, P
<1>10. explored[sources] \in SUBSET P
  BY <1>7, <1>8
<1>11. BeforeGoalZone(explored[sources], Z) \subseteq explored[sources]
  BY <1>1, <1>8, <1>10
<1>12. QED
  BY <1>8, <1>9, <1>11

LEMMA ReachIs ==
  ASSUME NEW T, IsTask(T), NEW O \in SUBSET OpsOf(T),
         NEW A \in SUBSET SUBSET FactsOf(T), \A G \in A : G \cup Added(T, O, G) \in A, NEW F \in A
  PROVE  LET G == RelaxedReach(T, O, F) IN G \in A /\ Added(T, O, G) \subseteq G
<1> DEFINE P == FactsOf(T)
           next == [G \in SUBSET P |-> Added(T, O, G)]
           Body(f) == [G \in SUBSET P |-> IF G \cup Added(T, O, G) = G THEN G ELSE f[G \cup Added(T, O, G)]]
           reached == CHOOSE f : f = Body(f)
<1>1. \A G \in SUBSET P : next[G] = Added(T, O, G) /\ next[G] \in SUBSET P
  <2>1. \A o \in O : \A e \in Range(T.ops[o].effs) : e.fact \in P
    BY EffectIs
  <2>2. \A G : Added(T, O, G) \subseteq P
    BY <2>1 DEF Added
  <2>3. QED
    BY <2>2
<1>2. next \in [SUBSET P -> SUBSET P] /\ IsFiniteSet(P)
  <2>1. \A G \in SUBSET P : Added(T, O, G) \in SUBSET P
    BY <1>1
  <2> HIDE DEF P
  <2>2. IsFiniteSet(P)
    BY FactsFinite DEF P
  <2>3. QED
    BY <2>1, <2>2
<1> HIDE DEF next, P
<1>3. PICK f \in [SUBSET P -> SUBSET P] : Closes(P, next, f)
  BY <1>2, ClosureIs
<1>4. f = Body(f)
  <2>1. f = [G \in SUBSET P |-> f[G]]
    OBVIOUS
  <2>2. \A G \in SUBSET P : f[G] = IF G \cup Added(T, O, G) = G THEN G ELSE f[G \cup Added(T, O, G)]
    BY <1>1, <1>3 DEF Closes
  <2>3. QED
    BY <2>1, <2>2
<1>5. reached = Body(reached)
  <2> HIDE DEF Body
  <2>1. QED
    BY <1>4
<1> HIDE DEF reached
<1>6. Closes(P, next, reached)
  <2>1. \A G \in SUBSET P : reached[G] = IF G \cup Added(T, O, G) = G THEN G ELSE reached[G \cup Added(T, O, G)]
    BY <1>5
  <2>2. QED
    BY <1>1, <2>1 DEF Closes
<1>7. A \in SUBSET SUBSET P /\ \A G \in A : G \cup next[G] \in A
  <2>1. A \in SUBSET SUBSET P
    BY DEF P
  <2>2. QED
    BY <1>1, <2>1
<1>8. reached[F] \in A /\ next[reached[F]] \subseteq reached[F]
  BY <1>2, <1>6, <1>7, ClosureIs
<1>9. RelaxedReach(T, O, F) = reached[F]
  BY DEF RelaxedReach, reached, P
<1>10. reached[F] \in SUBSET P
  BY <1>7, <1>8
<1>11. Added(T, O, reached[F]) \subseteq reached[F]
  BY <1>1, <1>8, <1>10
<1>12. QED
  BY <1>8, <1>9, <1>11

\* B holds the state and not the goal, and whatever leads out of it is in the
\* cut and not free.
Separates(T, ops, s, cost, B, c) ==
  /\ SourcesOf(s) \subseteq B /\ artificial_goal \notin B
  /\ c \subseteq DOMAIN ops /\ c # {}
  /\ \A i \in c : CostOf(cost, ops[i]) > 0
  /\ \A i \in DOMAIN ops : Range(ops[i].pre) \subseteq B => i \in c \/ ops[i].effs \subseteq B

LEMMA CutIs ==
  ASSUME NEW T, T = Tasks[lTask], IsTask(T), OperatorsFit(T, lOps), lState \in StatesOf(T), lCost \in Costs(T),
         MidHolds(T, lOps, lState, lCost, lHmax, lQueue, lUnsat, lSupporter, lSupporterCost), lQueue = {},
         lHmax[artificial_goal] \notin {-1, 0}
  PROVE  \E B : Separates(T, lOps, lState, lCost, B, cut)
<1> DEFINE P == Propositions(T)
           goal == artificial_goal
           Z == mark_goal_plateau({goal})
           B == second_exploration(SourcesOf(lState), Z)
           ZA == {Y \in SUBSET P : goal \in Y /\ \A z \in Y : lHmax[z] # -1 /\ lHmax[goal] <= lHmax[z]}
           BA == {Y \in SUBSET P : SourcesOf(lState) \subseteq Y /\ \A b \in Y : lHmax[b] # -1 /\ b \notin Z}
<1>1. /\ lHmax \in Values(T) /\ NeverBelow(T, lOps, lState, lCost, lHmax)
      /\ \A p \in SourcesOf(lState) : lHmax[p] = 0
      /\ SupportersFit(T) /\ \A p \in P : lHmax[p] \in Nat \cup {-1}
      /\ goal \in P /\ SourcesOf(lState) \subseteq P /\ NoProposition \notin P
  <2>1. goal \in P /\ SourcesOf(lState) \subseteq P /\ NoProposition \notin P
    BY SourcesAre, ArtificialAre DEF Propositions
  <2>2. QED
    BY <2>1 DEF MidHolds, CostsHold, Values, SupportersFit
<1>2. ASSUME NEW i \in DOMAIN lOps, ~ Unreached(lOps, lHmax, i)
      PROVE  /\ Supported(lOps, lCost, lHmax, lSupporter, lSupporterCost, i)
             /\ lSupporterCost[i] = lHmax[lSupporter[i]]
  BY <1>2 DEF MidHolds, OpHolds, Current
<1>3. ASSUME NEW i \in DOMAIN lOps, lSupporter[i] \in P
      PROVE  ~ Unreached(lOps, lHmax, i)
  BY <1>1, <1>3 DEF MidHolds, OpHolds
<1>4. ASSUME NEW i \in DOMAIN lOps
      PROVE  Range(lOps[i].pre) \subseteq P /\ lOps[i].effs \subseteq P /\ CostOf(lCost, lOps[i]) \in Nat
  BY RelaxedOpIs, CostOfIs
<1> HIDE DEF Z, P
<1>5. lHmax[goal] \in Nat /\ lHmax[goal] > 0
  BY <1>1
<1>6. {goal} \in ZA
  BY <1>1, <1>5
<1>7. ASSUME NEW Y \in ZA
      PROVE  Y \cup GoalZone(Y) \in ZA
  <2>1. ASSUME NEW z \in GoalZone(Y)
        PROVE  z \in P /\ lHmax[z] # -1 /\ lHmax[goal] <= lHmax[z]
    <3>1. PICK i \in DOMAIN lOps : lOps[i].effs \cap Y # {} /\ CostOf(lCost, lOps[i]) = 0 /\ z = lSupporter[i] /\ z # NoProposition
      BY DEF GoalZone
    <3>2. z \in P
      BY <1>1, <3>1 DEF SupportersFit, P
    <3>3. Supported(lOps, lCost, lHmax, lSupporter, lSupporterCost, i) /\ lSupporterCost[i] = lHmax[z]
      BY <1>2, <1>3, <3>1, <3>2
    <3>4. lHmax[z] # -1
      BY <3>1, <3>3 DEF Supported
    <3>5. PICK q \in lOps[i].effs : q \in Y
      BY <3>1
    <3>6. lHmax[q] # -1 /\ lHmax[q] <= lHmax[z] + 0 /\ lHmax[goal] <= lHmax[q]
      BY <3>1, <3>3, <3>5 DEF Supported
    <3>7. lHmax[z] \in Nat \cup {-1} /\ lHmax[q] \in Nat \cup {-1}
      BY <1>1, <1>4, <3>2
    <3>8. QED
      BY <1>5, <3>2, <3>4, <3>6, <3>7
  <2>2. QED
    BY <2>1
<1>8. Z \in ZA /\ GoalZone(Z) \subseteq Z
  <2>1. ZA \in SUBSET SUBSET P
    OBVIOUS
  <2> HIDE DEF ZA
  <2>2. QED
    BY <1>1, <1>6, <1>7, <2>1, PlateauIs DEF Z, P
<1>9. goal \in Z /\ \A z \in Z : z \in P /\ lHmax[z] # -1 /\ lHmax[z] > 0
  <2>1. goal \in Z /\ \A z \in Z : z \in P /\ lHmax[z] # -1 /\ lHmax[goal] <= lHmax[z]
    BY <1>8
  <2>2. \A z \in P : lHmax[z] \in Nat \cup {-1}
    BY <1>1
  <2>3. QED
    BY <1>5, <2>1, <2>2
<1> HIDE DEF ZA, B
<1>10. SourcesOf(lState) \in BA
  <2>1. ASSUME NEW p \in SourcesOf(lState)
        PROVE  lHmax[p] # -1 /\ p \notin Z
    <3>1. lHmax[p] = 0
      BY <1>1
    <3>2. QED
      BY <1>9, <3>1
  <2>2. QED
    BY <1>1, <2>1
<1>11. ASSUME NEW Y \in BA
       PROVE  Y \cup BeforeGoalZone(Y, Z) \in BA
  <2>1. ASSUME NEW q \in BeforeGoalZone(Y, Z)
        PROVE  q \in P /\ lHmax[q] # -1 /\ q \notin Z
    <3>1. PICK i \in DOMAIN lOps : lSupporter[i] \in Y /\ ~ IntoZone(i, Z) /\ q \in lOps[i].effs
      BY DEF BeforeGoalZone
    <3>2. q \in P /\ q \notin Z
      BY <1>4, <3>1 DEF IntoZone
    <3>3. lSupporter[i] \in P
      BY <3>1
    <3>4. lHmax[q] # -1
      BY <1>2, <1>3, <3>1, <3>3 DEF Supported
    <3>5. QED
      BY <3>2, <3>4
  <2>2. QED
    BY <2>1
<1>12. B \in BA /\ BeforeGoalZone(B, Z) \subseteq B
  <2>1. BA \in SUBSET SUBSET P
    OBVIOUS
  <2> HIDE DEF BA
  <2>2. QED
    BY <1>10, <1>11, <2>1, ExplorationIs DEF B, P
<1>13. B \subseteq P /\ SourcesOf(lState) \subseteq B /\ \A b \in B : lHmax[b] # -1 /\ b \notin Z
  BY <1>12
<1> HIDE DEF BA
<1>14. cut = {i \in DOMAIN lOps : lSupporter[i] \in B /\ IntoZone(i, Z)}
  BY DEF cut, CutBefore, IntoZoneFrom, B, Z
<1> HIDE DEF goal
<1>15. ASSUME NEW i \in cut
       PROVE  i \in DOMAIN lOps /\ CostOf(lCost, lOps[i]) > 0
  <2>1. i \in DOMAIN lOps /\ lSupporter[i] \in B /\ lOps[i].effs \cap Z # {}
    BY <1>14 DEF IntoZone
  <2>2. lSupporter[i] \notin Z /\ lSupporter[i] # NoProposition
    BY <1>1, <1>13, <2>1
  <2>3. CostOf(lCost, lOps[i]) # 0
    BY <1>8, <2>1, <2>2 DEF GoalZone
  <2>4. QED
    BY <1>4, <2>1, <2>3
<1>16. ASSUME NEW i \in DOMAIN lOps, Range(lOps[i].pre) \subseteq B
       PROVE  i \in cut \/ lOps[i].effs \subseteq B
  <2>1. ~ Unreached(lOps, lHmax, i)
    BY <1>13, <1>16 DEF Unreached
  <2>2. lSupporter[i] \in B
    BY <1>2, <1>16, <2>1 DEF Supported
  <2>3. CASE IntoZone(i, Z)
    BY <1>14, <2>2, <2>3
  <2>4. CASE ~ IntoZone(i, Z)
    BY <1>12, <2>2, <2>4 DEF BeforeGoalZone
  <2>5. QED
    BY <2>3, <2>4
<1>17. goal \notin B
  BY <1>9, <1>13
<1>18. cut # {}
  <2>1. ASSUME cut = {}
        PROVE  FALSE
    <3> DEFINE phi == [p \in P |-> IF p \in B THEN 0 ELSE lHmax[goal] + 1]
    <3>1. phi \in [P -> Nat] /\ \A p \in P : phi[p] = IF p \in B THEN 0 ELSE lHmax[goal] + 1
      BY <1>5
    <3> HIDE DEF phi
    <3>2. ASSUME NEW i \in DOMAIN lOps, NEW q \in lOps[i].effs
          PROVE  \E p \in Range(lOps[i].pre) : phi[q] <= phi[p] + CostOf(lCost, lOps[i])
      <4>1. q \in P /\ CostOf(lCost, lOps[i]) \in Nat
        BY <1>4
      <4>2. CASE Range(lOps[i].pre) \subseteq B
        <5>1. q \in B
          BY <1>16, <2>1, <4>2
        <5>2. PICK p \in Range(lOps[i].pre) : TRUE
          BY RelaxedOpIs
        <5>3. p \in P
          BY <1>4
        <5>4. phi[q] = 0 /\ phi[p] \in Nat
          BY <3>1, <4>1, <5>1, <5>3
        <5>5. phi[q] <= phi[p] + CostOf(lCost, lOps[i])
          BY <4>1, <5>4
        <5>6. QED
          BY <5>5
      <4>3. CASE ~ (Range(lOps[i].pre) \subseteq B)
        <5>1. PICK p \in Range(lOps[i].pre) : p \notin B
          BY <4>3
        <5>2. p \in P
          BY <1>4
        <5>3. phi[p] = lHmax[goal] + 1 /\ (phi[q] = 0 \/ phi[q] = lHmax[goal] + 1)
          BY <3>1, <4>1, <5>1, <5>2
        <5>4. phi[q] <= phi[p] + CostOf(lCost, lOps[i])
          BY <1>5, <4>1, <5>3
        <5>5. QED
          BY <5>4
      <4>4. QED
        BY <4>2, <4>3
    <3>3. \A p \in SourcesOf(lState) : phi[p] = 0
      BY <1>1, <1>13, <3>1
    <3>4. IsPotential(T, lOps, lState, lCost, phi)
      BY <3>1, <3>2, <3>3 DEF IsPotential, P
    <3>5. phi[goal] <= lHmax[goal]
      <4>1. goal \in P /\ lHmax[goal] # -1
        BY <1>1, <1>5
      <4>2. QED
        BY <1>1, <3>1, <3>4, <4>1 DEF NeverBelow, P
    <3>6. phi[goal] = lHmax[goal] + 1
      BY <1>1, <1>17, <3>1
    <3>7. QED
      BY <1>5, <3>5, <3>6
  <2>2. QED
    BY <2>1
<1>19. Separates(T, lOps, lState, lCost, B, cut)
  BY <1>13, <1>15, <1>16, <1>17, <1>18 DEF Separates, goal
<1>20. QED
  BY <1>19

\* Operators without one of the cut's groups do not lead out of B.
LEMMA AddedStays ==
  ASSUME NEW T, IsTask(T), NEW ops, OperatorsFit(T, ops), NEW s, NEW cost, NEW B, NEW c,
         Separates(T, ops, s, cost, B, c),
         NEW O \in SUBSET OpsOf(T), \A i \in c : ops[i].group \notin O, NEW G \in SUBSET B
  PROVE  Added(T, O, G) \subseteq B
<1>1. artificial_precondition \in B
  BY DEF Separates, SourcesOf
<1>2. ASSUME NEW o \in O, Range(T.ops[o].pre) \subseteq G,
             NEW e \in Range(T.ops[o].effs), e.cond \subseteq G
      PROVE  e.fact \in B
  <2>1. PICK i \in DOMAIN ops : Relaxes(T, ops[i], o, e)
    BY DEF OperatorsFit
  <2>2. ops[i].group = o /\ Range(ops[i].pre) = Before(Conditions(T, o, e)) /\ e.fact \in ops[i].effs
    BY <2>1 DEF Relaxes
  <2>3. Conditions(T, o, e) \subseteq B
    BY <1>2 DEF Conditions
  <2>4. Range(ops[i].pre) \subseteq B
    BY <1>1, <2>2, <2>3 DEF Before
  <2>5. i \notin c
    BY <2>2
  <2>6. QED
    BY <2>2, <2>4, <2>5 DEF Separates
<1>3. QED
  BY <1>2 DEF Added

LEMMA GoalOutside ==
  ASSUME NEW T, NEW ops, OperatorsFit(T, ops), NEW s, NEW cost, NEW B, NEW c,
         Separates(T, ops, s, cost, B, c)
  PROVE  ~ (T.goal \subseteq B)
<1>1. PICK i \in DOMAIN ops : StandsForGoal(T, ops[i])
  BY DEF OperatorsFit
<1>2. /\ ops[i].group = 0 /\ Range(ops[i].pre) = Before(T.goal) /\ ops[i].effs = {artificial_goal}
  BY <1>1 DEF StandsForGoal
<1>3. i \notin c
  <2>1. CostOf(cost, ops[i]) = 0
    BY <1>2 DEF CostOf
  <2>2. i \in c => CostOf(cost, ops[i]) > 0
    BY DEF Separates
  <2>3. QED
    BY <2>1, <2>2
<1>4. ~ (Range(ops[i].pre) \subseteq B)
  BY <1>2, <1>3 DEF Separates
<1>5. artificial_precondition \in B
  BY DEF Separates, SourcesOf
<1>6. QED
  BY <1>2, <1>4, <1>5 DEF Before

Groups(ops, c) == {ops[i].group : i \in c}

LEMMA CutIsLandmark ==
  ASSUME NEW T, IsTask(T), NEW ops, OperatorsFit(T, ops), NEW s \in StatesOf(T), NEW cost, NEW B, NEW c,
         Separates(T, ops, s, cost, B, c)
  PROVE  IsLandmark(T, s, Groups(ops, c))
<1> DEFINE O == OpsOf(T) \ Groups(ops, c)
           A == {G \in SUBSET FactsOf(T) : G \subseteq B}
<1>1. \A i \in c : ops[i].group \notin O
  BY DEF Groups
<1>2. O \in SUBSET OpsOf(T)
  OBVIOUS
<1> HIDE DEF O
<1>3. ASSUME NEW G \in A
      PROVE  G \cup Added(T, O, G) \in A
  <2>1. Added(T, O, G) \subseteq B
    BY <1>1, <1>2, AddedStays
  <2>2. Added(T, O, G) \subseteq FactsOf(T)
    <3>1. \A o \in O : \A e \in Range(T.ops[o].effs) : e.fact \in FactsOf(T)
      BY <1>2, EffectIs
    <3>2. QED
      BY <3>1 DEF Added
  <2>3. QED
    BY <2>1, <2>2
<1>4. FactsIn(s) \in A
  <2>1. FactsIn(s) \subseteq FactsOf(T)
    BY SourcesAre
  <2>2. FactsIn(s) \subseteq B
    BY DEF Separates, SourcesOf
  <2>3. QED
    BY <2>1, <2>2
<1>5. RelaxedReach(T, O, FactsIn(s)) \in A
  <2>1. A \in SUBSET SUBSET FactsOf(T)
    OBVIOUS
  <2> HIDE DEF A
  <2>2. QED
    BY <1>2, <1>3, <1>4, <2>1, ReachIs
<1>6. RelaxedReach(T, O, FactsIn(s)) \subseteq B
  BY <1>5
<1>7. ~ (T.goal \subseteq RelaxedReach(T, O, FactsIn(s)))
  BY <1>6, GoalOutside
<1>8. QED
  BY <1>7 DEF IsLandmark, O

-----------------------------------------------------------------------------
(* What the cuts cost together.                                            *)

LEMMA HoldsIs ==
  ASSUME NEW T, IsTask(T), NEW x \in StatesOf(T), NEW F \in SUBSET FactsOf(T)
  PROVE  Holds(x, F) <=> F \subseteq FactsIn(x)
<1>1. DOMAIN x = Vars(T)
  BY StatesAre
<1>2. \A f \in F : f = <<f[1], f[2]>> /\ f[1] \in Vars(T)
  BY FactIs
<1>3. \A f \in F : x[f[1]] = f[2] <=> f \in FactsIn(x)
  <2>1. ASSUME NEW f \in F
        PROVE  x[f[1]] = f[2] <=> f \in FactsIn(x)
    <3>1. f = <<f[1], f[2]>> /\ f[1] \in Vars(T)
      BY <1>2
    <3>2. x[f[1]] = f[2] => f \in FactsIn(x)
      BY <1>1, <3>1 DEF FactsIn
    <3>3. ASSUME f \in FactsIn(x)
          PROVE  x[f[1]] = f[2]
      <4>1. PICK w \in DOMAIN x : f = <<w, x[w]>>
        BY <3>3 DEF FactsIn
      <4>2. f[1] = w /\ f[2] = x[w]
        BY <4>1
      <4>3. QED
        BY <4>2
    <3>4. QED
      BY <3>2, <3>3
  <2>2. QED
    BY <2>1
<1>4. QED
  BY <1>3 DEF Holds

\* The facts of a successor were there or are added.
LEMMA SuccessorReached ==
  ASSUME NEW T, IsTask(T), NEW o \in OpsOf(T), NEW x \in StatesOf(T), is_applicable(T.ops[o], x)
  PROVE  LET y == successor(T.ops[o], x) IN
         /\ y \in StatesOf(T)
         /\ FactsIn(y) \subseteq FactsIn(x) \cup Added(T, {o}, FactsIn(x))
<1> DEFINE y == successor(T.ops[o], x)
           effs == T.ops[o].effs
<1>1. x \in [Vars(T) -> Nat] /\ \A v \in Vars(T) : x[v] < T.dom[v]
  BY StatesAre
<1>2. y = [v \in Vars(T) |-> IF Fired(T.ops[o], x, v) = {} THEN x[v]
                             ELSE effs[Largest(Fired(T.ops[o], x, v))].fact[2]]
  BY <1>1 DEF successor
<1>3. effs \in Seq(Effects(T)) /\ Range(T.ops[o].pre) \subseteq FactsOf(T)
  BY OperatorIs
<1>4. Range(T.ops[o].pre) \subseteq FactsIn(x)
  BY <1>3, HoldsIs DEF is_applicable
<1> HIDE DEF y
<1>5. ASSUME NEW v \in Vars(T)
      PROVE  \/ y[v] = x[v]
             \/ <<v, y[v]>> \in Added(T, {o}, FactsIn(x)) /\ <<v, y[v]>> \in FactsOf(T)
  <2> DEFINE S == Fired(T.ops[o], x, v)
             k == Largest(S)
             e == effs[k]
  <2>1. CASE S = {}
    BY <1>2, <2>1
  <2>2. CASE S # {}
    <3>1. S \in SUBSET (0 .. Len(effs)) /\ Len(effs) \in Nat
      BY <1>3 DEF Fired
    <3>2. k \in S
      <4> HIDE DEF S
      <4>1. QED
        BY <2>2, <3>1, LargestIn
    <3>3. k \in DOMAIN effs /\ e.fact[1] = v /\ Holds(x, e.cond)
      <4> HIDE DEF k
      <4>1. QED
        BY <3>2 DEF Fired
    <3>4. y[v] = e.fact[2]
      BY <1>2, <2>2
    <3> HIDE DEF k
    <3>5. e \in Range(effs)
      BY <3>3 DEF Range
    <3> HIDE DEF e
    <3>6. e.fact \in FactsOf(T) /\ e.cond \subseteq FactsOf(T)
      BY <3>5, EffectIs
    <3>7. e.cond \subseteq FactsIn(x)
      BY <3>3, <3>6, HoldsIs
    <3>8. e.fact = <<v, y[v]>>
      BY <3>3, <3>4, <3>6, FactIs
    <3>9. e.fact \in Added(T, {o}, FactsIn(x))
      BY <1>4, <3>5, <3>7 DEF Added
    <3>10. QED
      BY <3>6, <3>8, <3>9
  <2>3. QED
    BY <2>1, <2>2
<1>6. \A v \in Vars(T) : y[v] \in Nat /\ y[v] < T.dom[v]
  <2>1. ASSUME NEW v \in Vars(T)
        PROVE  y[v] \in Nat /\ y[v] < T.dom[v]
    <3>1. CASE y[v] = x[v]
      BY <1>1, <3>1
    <3>2. CASE <<v, y[v]>> \in FactsOf(T)
      <4> DEFINE f == <<v, y[v]>>
      <4>1. f \in FactsOf(T) /\ f[1] = v /\ f[2] = y[v]
        BY <3>2
      <4> HIDE DEF f
      <4>2. QED
        BY <4>1, FactIs
    <3>3. QED
      BY <1>5, <3>1, <3>2
  <2>2. QED
    BY <2>1
<1>7. y \in StatesOf(T)
  <2>1. y = [v \in Vars(T) |-> y[v]]
    BY <1>2
  <2>2. y \in [Vars(T) -> Nat]
    BY <1>6, <2>1
  <2>3. QED
    BY <1>6, <2>2, StatesAre
<1>8. FactsIn(y) \subseteq FactsIn(x) \cup Added(T, {o}, FactsIn(x))
  <2>1. DOMAIN y = Vars(T) /\ DOMAIN x = Vars(T)
    BY <1>1, <1>2
  <2>2. QED
    BY <1>5, <2>1 DEF FactsIn
<1>9. QED
  BY <1>7, <1>8 DEF y

\* There is a potential of states that no operator lowers by more than it has
\* been charged, and that is at least the total for state s.
PartitionHolds(t, cost, s, total) ==
  LET T == Tasks[t] IN
  \E phi \in [StatesOf(T) -> Nat] :
    /\ \A x \in StatesOf(T) : is_goal_state(T, x) => phi[x] = 0
    /\ \A e \in Transitions[t] : phi[e[1]] <= (T.ops[e[4]].cost - cost[e[4]]) + phi[e[2]]
    /\ total <= phi[s]

\* A state keeps what it is charged when a set of facts is left with a charge
\* of m and not without.
LEMMA PartitionGrows ==
  ASSUME NEW t \in DOMAIN Tasks, NEW s \in StatesOf(Tasks[t]),
         NEW cost \in Costs(Tasks[t]), NEW low \in Costs(Tasks[t]),
         NEW total \in Nat, NEW m \in Nat, PartitionHolds(t, cost, s, total),
         \A o \in OpsOf(Tasks[t]) : cost[o] <= Tasks[t].ops[o].cost /\ low[o] <= cost[o],
         NEW B, FactsIn(s) \subseteq B, ~ (Tasks[t].goal \subseteq B),
         \A o \in OpsOf(Tasks[t]) :
           low[o] = cost[o] - m \/ \A G \in SUBSET B : Added(Tasks[t], {o}, G) \subseteq B
  PROVE  PartitionHolds(t, low, s, total + m)
<1> DEFINE T == Tasks[t]
           In(x) == FactsIn(x) \subseteq B
<1>1. IsTask(T)
  BY TasksAssumption DEF TasksAssumption
<1>2. PICK phi \in [StatesOf(T) -> Nat] :
        /\ \A x \in StatesOf(T) : is_goal_state(T, x) => phi[x] = 0
        /\ \A e \in Transitions[t] : phi[e[1]] <= (T.ops[e[4]].cost - cost[e[4]]) + phi[e[2]]
        /\ total <= phi[s]
  BY DEF PartitionHolds
<1> DEFINE psi == [x \in StatesOf(T) |-> IF In(x) THEN phi[x] + m ELSE phi[x]]
<1>3. /\ psi \in [StatesOf(T) -> Nat]
      /\ \A x \in StatesOf(T) : psi[x] = IF In(x) THEN phi[x] + m ELSE phi[x]
  OBVIOUS
<1> HIDE DEF psi
<1>4. ASSUME NEW x \in StatesOf(T), is_goal_state(T, x)
      PROVE  psi[x] = 0
  <2>1. T.goal \subseteq FactsIn(x)
    <3>1. T.goal \in SUBSET FactsOf(T)
      BY <1>1 DEF IsTask
    <3>2. QED
      BY <1>1, <1>4, <3>1, HoldsIs DEF is_goal_state
  <2>2. ~ In(x)
    BY <2>1
  <2>3. QED
    BY <1>2, <1>3, <1>4, <2>2
<1>5. ASSUME NEW e \in Transitions[t]
      PROVE  psi[e[1]] <= (T.ops[e[4]].cost - low[e[4]]) + psi[e[2]]
  <2>1. PICK o \in OpsOf(T), x \in StatesOf(T) :
          is_applicable(T.ops[o], x) /\ e = <<x, successor(T.ops[o], x), T.ops[o].cost, o>>
    BY TransitionIs
  <2> DEFINE y == successor(T.ops[o], x)
  <2>2. y \in StatesOf(T) /\ FactsIn(y) \subseteq FactsIn(x) \cup Added(T, {o}, FactsIn(x))
    BY <1>1, <2>1, SuccessorReached
  <2> HIDE DEF y
  <2>3. e[1] = x /\ e[2] = y /\ e[4] = o
    BY <2>1 DEF y
  <2>4. phi[x] <= (T.ops[o].cost - cost[o]) + phi[y]
    BY <1>2, <2>3
  <2>5. /\ phi[x] \in Nat /\ phi[y] \in Nat /\ T.ops[o].cost \in Nat /\ cost[o] \in Nat /\ low[o] \in Nat
        /\ cost[o] <= T.ops[o].cost /\ low[o] <= cost[o]
    BY <1>1, <2>2, OperatorIs DEF Costs
  <2>6. In(x) /\ low[o] # cost[o] - m => In(y)
    BY <2>2
  <2>7. /\ psi[x] = IF In(x) THEN phi[x] + m ELSE phi[x]
        /\ psi[y] = IF In(y) THEN phi[y] + m ELSE phi[y]
    BY <1>3, <2>2
  <2> HIDE DEF In, T
  <2>8. psi[x] <= (T.ops[o].cost - low[o]) + psi[y]
    <3>1. CASE In(x) /\ ~ In(y)
      <4>1. low[o] = cost[o] - m
        BY <2>6, <3>1
      <4>2. QED
        BY <2>4, <2>5, <2>7, <3>1, <4>1
    <3>2. CASE ~ (In(x) /\ ~ In(y))
      BY <2>4, <2>5, <2>7, <3>2
    <3>3. QED
      BY <3>1, <3>2
  <2>9. QED
    BY <2>3, <2>8
<1>6. total + m <= psi[s]
  <2>1. psi[s] = phi[s] + m /\ phi[s] \in Nat
    BY <1>3
  <2>2. QED
    BY <1>2, <2>1
<1>7. QED
  BY <1>3, <1>4, <1>5, <1>6 DEF PartitionHolds

\* It bounds what the goal costs.
LEMMA PartitionBounds ==
  ASSUME NEW t \in DOMAIN Tasks, NEW s \in StatesOf(Tasks[t]), NEW cost \in Costs(Tasks[t]),
         \A o \in OpsOf(Tasks[t]) : cost[o] <= Tasks[t].ops[o].cost,
         NEW total \in Nat, PartitionHolds(t, cost, s, total), GoalDistance[t][s] < INFTY
  PROVE  total <= GoalDistance[t][s]
<1> DEFINE T == Tasks[t]
           S == StatesOf(T)
           goals == {x \in S : is_goal_state(T, x)}
<1>1. IsTask(T) /\ IsFiniteSet(S)
  BY TasksAssumption, StatesFinite DEF TasksAssumption
<1>2. PICK phi \in [S -> Nat] :
        /\ \A x \in S : is_goal_state(T, x) => phi[x] = 0
        /\ \A e \in Transitions[t] : phi[e[1]] <= (T.ops[e[4]].cost - cost[e[4]]) + phi[e[2]]
        /\ total <= phi[s]
  BY DEF PartitionHolds
<1>3. ASSUME NEW e \in Transitions[t]
      PROVE  e[1] \in S /\ e[2] \in S /\ e[3] \in Nat /\ phi[e[1]] <= e[3] + phi[e[2]]
  <2>1. PICK o \in OpsOf(T), x \in S :
          is_applicable(T.ops[o], x) /\ e = <<x, successor(T.ops[o], x), T.ops[o].cost, o>>
    BY TransitionIs
  <2>2. successor(T.ops[o], x) \in S
    BY <1>1, <2>1, SuccessorReached
  <2>3. e[1] = x /\ e[2] \in S /\ e[3] = T.ops[o].cost /\ e[4] = o
    BY <2>1, <2>2
  <2>4. T.ops[o].cost \in Nat /\ cost[o] \in Nat
    BY <1>1, OperatorIs DEF Costs
  <2>5. phi[x] \in Nat /\ phi[e[2]] \in Nat
    BY <2>3
  <2>6. phi[x] <= (T.ops[o].cost - cost[o]) + phi[e[2]]
    BY <1>2, <2>3
  <2> HIDE DEF T, S
  <2>7. phi[x] <= T.ops[o].cost + phi[e[2]]
    BY <2>4, <2>5, <2>6
  <2>8. QED
    BY <2>3, <2>4, <2>7
<1>4. StepsIn(S, Transitions[t])
  BY <1>3 DEF StepsIn
<1>5. GoalDistance[t] = Distances(S, Transitions[t], goals)
  BY DEF GoalDistance
<1>6. \A x \in S \cap goals : phi[x] = 0
  BY <1>2
<1> HIDE DEF S, goals
<1>7. phi[s] <= GoalDistance[t][s]
  <2>1. s \in S /\ Distances(S, Transitions[t], goals)[s] < INFTY
    BY <1>5 DEF S
  <2>2. phi[s] <= Distances(S, Transitions[t], goals)[s]
    BY <1>1, <1>3, <1>4, <1>6, <2>1, PotentialBelow
  <2>3. QED
    BY <1>5, <2>2
<1>8. phi[s] \in Nat /\ GoalDistance[t][s] \in 0 .. INFTY
  <2>1. s \in S
    BY DEF S
  <2>2. Distances(S, Transitions[t], goals) \in [S -> 0 .. INFTY]
    BY <1>1, <1>4, DistancesAre DEF Justified
  <2>3. QED
    BY <1>5, <2>1, <2>2
<1>9. QED
  BY <1>2, <1>7, <1>8, InftyIs

\* In a dead end no state with facts that are reached alone is a goal.
LEMMA DeadEndHolds ==
  ASSUME NEW t \in DOMAIN Tasks, NEW ops, OperatorsFit(Tasks[t], ops), NEW s \in StatesOf(Tasks[t]),
         NEW cost \in Costs(Tasks[t]), \A o \in OpsOf(Tasks[t]) : cost[o] <= Tasks[t].ops[o].cost,
         NEW v, NEW Q, NEW unsat, NEW sup, NEW sc,
         MidHolds(Tasks[t], ops, s, cost, v, Q, unsat, sup, sc), v[artificial_goal] = -1
  PROVE  PartitionHolds(t, cost, s, INFTY)
<1> DEFINE T == Tasks[t]
           In(x) == \A f \in FactsIn(x) : v[f] # -1
           phi == [x \in StatesOf(T) |-> IF In(x) THEN INFTY ELSE 0]
<1>1. IsTask(T)
  BY TasksAssumption DEF TasksAssumption
<1>2. phi \in [StatesOf(T) -> Nat] /\ \A x \in StatesOf(T) : phi[x] = IF In(x) THEN INFTY ELSE 0
  BY InftyIs
<1> HIDE DEF phi
<1>3. \A p \in SourcesOf(s) : v[p] = 0
  BY DEF MidHolds, CostsHold
<1>4. ASSUME NEW i \in DOMAIN ops, \A p \in Range(ops[i].pre) : v[p] # -1
      PROVE  \A q \in ops[i].effs : v[q] # -1
  BY <1>4 DEF MidHolds, OpHolds, Unreached, Supported
<1>5. ASSUME NEW x \in StatesOf(T), is_goal_state(T, x)
      PROVE  phi[x] = 0
  <2>1. T.goal \subseteq FactsIn(x)
    <3>1. T.goal \in SUBSET FactsOf(T)
      BY <1>1 DEF IsTask
    <3>2. QED
      BY <1>1, <1>5, <3>1, HoldsIs DEF is_goal_state
  <2>2. ASSUME In(x)
        PROVE  FALSE
    <3>1. PICK i \in DOMAIN ops : StandsForGoal(T, ops[i])
      BY DEF OperatorsFit
    <3>2. \A p \in Range(ops[i].pre) : v[p] # -1
      <4>1. v[artificial_precondition] = 0
        BY <1>3 DEF SourcesOf
      <4>2. QED
        BY <2>1, <2>2, <3>1, <4>1 DEF StandsForGoal, Before
    <3>3. QED
      BY <1>4, <3>1, <3>2 DEF StandsForGoal
  <2>3. QED
    BY <1>2, <2>2
<1>6. ASSUME NEW e \in Transitions[t]
      PROVE  phi[e[1]] <= (T.ops[e[4]].cost - cost[e[4]]) + phi[e[2]]
  <2>1. PICK o \in OpsOf(T), x \in StatesOf(T) :
          is_applicable(T.ops[o], x) /\ e = <<x, successor(T.ops[o], x), T.ops[o].cost, o>>
    BY TransitionIs
  <2> DEFINE y == successor(T.ops[o], x)
  <2>2. y \in StatesOf(T) /\ FactsIn(y) \subseteq FactsIn(x) \cup Added(T, {o}, FactsIn(x))
    BY <1>1, <2>1, SuccessorReached
  <2> HIDE DEF y
  <2>3. e[1] = x /\ e[2] = y /\ e[4] = o
    BY <2>1 DEF y
  <2>4. ASSUME In(x)
        PROVE  In(y)
    <3>1. ASSUME NEW f \in Added(T, {o}, FactsIn(x))
          PROVE  v[f] # -1
      <4>1. PICK d \in Range(T.ops[o].effs) :
              d.fact = f /\ d.cond \subseteq FactsIn(x) /\ Range(T.ops[o].pre) \subseteq FactsIn(x)
        BY DEF Added
      <4>2. PICK i \in DOMAIN ops : Relaxes(T, ops[i], o, d)
        BY DEF OperatorsFit
      <4>3. Conditions(T, o, d) \subseteq FactsIn(x)
        BY <4>1 DEF Conditions
      <4>4. v[artificial_precondition] = 0
        BY <1>3 DEF SourcesOf
      <4>5. \A p \in Range(ops[i].pre) : v[p] # -1
        BY <2>4, <4>2, <4>3, <4>4 DEF Relaxes, Before
      <4>6. f \in ops[i].effs
        BY <4>1, <4>2 DEF Relaxes
      <4>7. QED
        BY <1>4, <4>5, <4>6
    <3>2. QED
      BY <2>2, <2>4, <3>1
  <2>5. phi[x] <= phi[y]
    BY <1>2, <2>2, <2>4, InftyIs
  <2>6. T.ops[o].cost \in Nat /\ cost[o] \in Nat /\ cost[o] <= T.ops[o].cost /\ phi[x] \in Nat /\ phi[y] \in Nat
    BY <1>1, <1>2, <2>2, OperatorIs DEF Costs
  <2> HIDE DEF T
  <2>7. phi[x] <= (T.ops[o].cost - cost[o]) + phi[y]
    BY <2>5, <2>6
  <2>8. QED
    BY <2>3, <2>7
<1>7. INFTY <= phi[s]
  <2>1. In(s)
    BY <1>3 DEF SourcesOf
  <2>2. QED
    BY <1>2, <2>1, InftyIs
<1>8. QED
  BY <1>2, <1>5, <1>6, <1>7 DEF PartitionHolds

-----------------------------------------------------------------------------
(* What an operator is charged.                                            *)

Cuts(T) == Seq((SUBSET OpsOf(T)) \X Nat)

ChargeFor(cuts, o, k) == IF o \in cuts[k][1] THEN cuts[k][2] ELSE 0

IsCharge(cuts, o, c) ==
  /\ c \in [0 .. Len(cuts) -> Nat] /\ c[0] = 0
  /\ \A k \in 1 .. Len(cuts) : c[k] = c[k - 1] + ChargeFor(cuts, o, k)

LEMMA ChargeExists ==
  ASSUME NEW T, NEW cuts \in Cuts(T), NEW o
  PROVE  \E c : IsCharge(cuts, o, c)
<1> DEFINE n == Len(cuts)
           step == [x \in Nat \X (1 .. n) |-> x[1] + ChargeFor(cuts, o, x[2])]
<1>1. n \in Nat /\ 0 \in Nat /\ \A i \in 1 .. n : cuts[i] \in (SUBSET OpsOf(T)) \X Nat
  BY DEF Cuts
<1>2. \A i \in 1 .. n : ChargeFor(cuts, o, i) \in Nat
  BY <1>1 DEF ChargeFor
<1>3. step \in [Nat \X (1 .. n) -> Nat]
  <2> HIDE DEF n
  <2>1. QED
    BY <1>2
<1>4. HasPrefixFunction(n, Nat, 0, step)
  <2> HIDE DEF step, n
  <2>1. QED
    BY <1>1, <1>3, PrefixRecursion
<1>5. PICK c \in [0 .. n -> Nat] :
        c[0] = 0 /\ \A i \in 1 .. n : c[i] = step[<<c[i - 1], i>>]
  <2> HIDE DEF step, n
  <2>1. QED
    BY <1>4, Zenon DEF HasPrefixFunction
<1>6. \A i \in 1 .. n : c[i] = c[i - 1] + ChargeFor(cuts, o, i)
  <2> SUFFICES ASSUME NEW i \in 1 .. n
               PROVE  c[i] = c[i - 1] + ChargeFor(cuts, o, i)
    OBVIOUS
  <2>1. c[i - 1] \in Nat
    <3> HIDE DEF n
    <3>1. i - 1 \in 0 .. n
      BY <1>1
    <3>2. QED
      BY <3>1
  <2>2. step[<<c[i - 1], i>>] = c[i - 1] + ChargeFor(cuts, o, i)
    BY <2>1
  <2>3. QED
    BY <1>5, <2>2
<1>7. QED
  BY <1>5, <1>6 DEF IsCharge

LEMMA ChargeIs ==
  ASSUME NEW T, NEW cuts \in Cuts(T), NEW o, NEW c, IsCharge(cuts, o, c)
  PROVE  ChargeOf(cuts, o) = c[Len(cuts)]
<1> DEFINE n == Len(cuts)
           Body(f) == [k \in 0 .. n |-> IF k = 0 THEN 0 ELSE f[k - 1] + ChargeFor(cuts, o, k)]
           g == CHOOSE f : f = Body(f)
<1>1. c = Body(c)
  BY DEF IsCharge
<1>2. g = Body(g)
  <2> HIDE DEF Body
  <2>1. QED
    BY <1>1
<1>3. ChargeOf(cuts, o) = g[n]
  BY DEF ChargeOf, ChargeFor
<1>4. g[0] = 0 /\ \A i \in 1 .. n : g[i] = g[i - 1] + ChargeFor(cuts, o, i)
  <2> HIDE DEF g
  <2>1. n \in Nat
    BY DEF Cuts
  <2> HIDE DEF n
  <2>2. QED
    BY <1>2, <2>1
<1>5. Alike(n, g, c)
  <2> HIDE DEF g
  <2>1. QED
    BY <1>4 DEF Alike, IsCharge
<1>6. AgreeUpTo(n, g, c) /\ n \in Nat
  <2>1. n \in Nat
    BY DEF Cuts
  <2> HIDE DEF g, n
  <2>2. QED
    BY <1>5, <2>1, PrefixUnique
<1>7. QED
  <2> HIDE DEF g
  <2>1. QED
    BY <1>3, <1>6 DEF AgreeUpTo

OneMore(cuts, L, m) == Append(cuts, <<L, m>>)

LEMMA ChargeOfAppend ==
  ASSUME NEW T, NEW cuts \in Cuts(T), NEW o, NEW L \in SUBSET OpsOf(T), NEW m \in Nat
  PROVE  /\ ChargeOf(cuts, o) \in Nat
         /\ ChargeOf(OneMore(cuts, L, m), o) = ChargeOf(cuts, o) + (IF o \in L THEN m ELSE 0)
<1> DEFINE n == Len(cuts)
           d == OneMore(cuts, L, m)
           E == (SUBSET OpsOf(T)) \X Nat
<1>1. <<L, m>> \in E /\ cuts \in Seq(E)
  BY DEF Cuts
<1>2. d \in Seq(E) /\ Len(d) = n + 1 /\ n \in Nat /\ d[n + 1] = <<L, m>> /\ \A k \in 1 .. n : d[k] = cuts[k]
  <2> HIDE DEF E
  <2>1. QED
    BY <1>1 DEF OneMore
<1> HIDE DEF d
<1>3. d \in Cuts(T) /\ \E c : IsCharge(d, o, c)
  <2>1. d \in Cuts(T)
    BY <1>2 DEF Cuts
  <2>2. QED
    BY <2>1, ChargeExists
<1> PICK c : IsCharge(d, o, c)
  BY <1>3
<1>4. ChargeOf(d, o) = c[n + 1]
  BY <1>2, <1>3, ChargeIs
<1>5. c \in [0 .. n + 1 -> Nat] /\ c[0] = 0 /\ \A k \in 1 .. n + 1 : c[k] = c[k - 1] + ChargeFor(d, o, k)
  BY <1>2, <1>3 DEF IsCharge
<1> DEFINE b == [k \in 0 .. n |-> c[k]]
<1>6. IsCharge(cuts, o, b)
  <2> HIDE DEF E, n
  <2>1. b \in [0 .. n -> Nat] /\ b[0] = 0
    BY <1>2, <1>5
  <2>2. ASSUME NEW k \in 1 .. n
        PROVE  b[k] = b[k - 1] + ChargeFor(cuts, o, k)
    <3>1. k \in 1 .. n + 1 /\ k \in 0 .. n /\ k - 1 \in 0 .. n
      BY <1>2
    <3>2. c[k] = c[k - 1] + ChargeFor(d, o, k)
      BY <1>5, <3>1
    <3>3. ChargeFor(d, o, k) = ChargeFor(cuts, o, k)
      BY <1>2 DEF ChargeFor
    <3>4. b[k] = c[k] /\ b[k - 1] = c[k - 1]
      BY <3>1
    <3> HIDE DEF b
    <3>5. QED
      BY <3>2, <3>3, <3>4
  <2>3. QED
    BY <2>1, <2>2 DEF IsCharge, n
<1>7. ChargeOf(cuts, o) = b[n]
  <2> HIDE DEF b
  <2>1. QED
    BY <1>6, ChargeIs
<1> HIDE DEF n
<1>8. b[n] = c[n] /\ c[n] \in Nat
  BY <1>2, <1>5
<1>9. c[n + 1] = c[n] + ChargeFor(d, o, n + 1)
  <2>1. PICK k \in 1 .. n + 1 : k = n + 1
    BY <1>2
  <2>2. k - 1 = n
    BY <1>2, <2>1
  <2>3. QED
    BY <1>5, <2>1, <2>2
<1>10. ChargeFor(d, o, n + 1) = IF o \in L THEN m ELSE 0
  BY <1>2 DEF ChargeFor
<1>11. QED
  BY <1>4, <1>7, <1>8, <1>9, <1>10 DEF d

LEMMA ChargeIsNatural ==
  ASSUME NEW T, NEW cuts \in Cuts(T), NEW o
  PROVE  ChargeOf(cuts, o) \in Nat
<1>1. {} \in SUBSET OpsOf(T) /\ 0 \in Nat
  OBVIOUS
<1>2. QED
  BY <1>1, ChargeOfAppend

LEMMA NoCharge ==
  ASSUME NEW o
  PROVE  ChargeOf(<<>>, o) = 0
<1> DEFINE c == [k \in 0 .. 0 |-> 0]
<1>1. <<>> \in Cuts(o) /\ Len(<<>>) = 0
  BY DEF Cuts
<1>2. IsCharge(<<>>, o, c)
  BY <1>1 DEF IsCharge
<1>3. c[0] = 0
  OBVIOUS
<1> HIDE DEF c
<1>4. QED
  BY <1>1, <1>2, <1>3, ChargeIs

-----------------------------------------------------------------------------
(* The invariant of LmCut.                                                 *)

\* Every cut is a landmark, and what an operator costs is what is left and
\* what it is charged.
CutsHold(T, s, cost, cuts) ==
  /\ cuts \in Cuts(T)
  /\ \A k \in DOMAIN cuts : IsLandmark(T, s, cuts[k][1])
  /\ \A o \in OpsOf(T) : cost[o] + ChargeOf(cuts, o) = T.ops[o].cost

LmCutInv ==
  LET T == Tasks[lTask] IN
  /\ lTask \in DOMAIN Tasks
  /\ lPc # "idle" =>
       /\ lState \in StatesOf(T) /\ lOps = relaxed_operators[lTask]
       /\ lCost \in Costs(T) /\ CutsHold(T, lState, lCost, lCuts)
       /\ lTotal \in Nat /\ PartitionHolds(lTask, lCost, lState, lTotal)
       /\ IF lPc = "first"
          THEN FirstHolds(T, lOps, lState, lCost, lHmax, lQueue, lUnsat, lSupporter, lSupporterCost)
          ELSE MidHolds(T, lOps, lState, lCost, lHmax, lQueue, lUnsat, lSupporter, lSupporterCost)
       /\ lPc \in {"cut", "done"} => lQueue = {}
       /\ lPc = "cut" => lHmax[artificial_goal] \notin {-1, 0}

LEMMA CutsBound ==
  ASSUME NEW T, IsTask(T), NEW s, NEW cost \in Costs(T), NEW cuts, CutsHold(T, s, cost, cuts)
  PROVE  \A o \in OpsOf(T) : cost[o] <= T.ops[o].cost /\ ChargeOf(cuts, o) <= T.ops[o].cost
<1>1. ASSUME NEW o \in OpsOf(T)
      PROVE  cost[o] <= T.ops[o].cost /\ ChargeOf(cuts, o) <= T.ops[o].cost
  <2>1. ChargeOf(cuts, o) \in Nat
    <3>1. cuts \in Cuts(T)
      BY DEF CutsHold
    <3>2. QED
      BY <3>1, ChargeIsNatural
  <2>2. cost[o] + ChargeOf(cuts, o) = T.ops[o].cost
    BY DEF CutsHold
  <2>3. cost[o] \in Nat
    BY DEF Costs
  <2>4. QED
    BY <2>1, <2>2, <2>3
<1>2. QED
  BY <1>1

LEMMA CutsGrow ==
  ASSUME NEW T, IsTask(T), NEW s, NEW cost \in Costs(T), NEW cuts, CutsHold(T, s, cost, cuts),
         NEW L \in SUBSET OpsOf(T), NEW m \in Nat, IsLandmark(T, s, L),
         NEW low, \A o \in OpsOf(T) : low[o] = IF o \in L THEN cost[o] - m ELSE cost[o]
  PROVE  CutsHold(T, s, low, Append(cuts, <<L, m>>))
<1> DEFINE E == (SUBSET OpsOf(T)) \X Nat
           d == Append(cuts, <<L, m>>)
<1>1. cuts \in Seq(E) /\ <<L, m>> \in E
  BY DEF CutsHold, Cuts
<1>2. d \in Seq(E)
  <2> HIDE DEF E
  <2>1. QED
    BY <1>1
<1>3. ASSUME NEW k \in DOMAIN d
      PROVE  IsLandmark(T, s, d[k][1])
  <2>1. (k \in DOMAIN cuts /\ d[k] = cuts[k]) \/ d[k] = <<L, m>>
    <3> HIDE DEF E
    <3>1. QED
      BY <1>1
  <2> HIDE DEF d
  <2>2. CASE d[k] = <<L, m>>
    <3>1. d[k][1] = L
      BY <2>2
    <3>2. QED
      BY <3>1
  <2>3. CASE k \in DOMAIN cuts /\ d[k] = cuts[k]
    BY <2>3 DEF CutsHold
  <2>4. QED
    BY <2>1, <2>2, <2>3
<1>4. ASSUME NEW o \in OpsOf(T)
      PROVE  low[o] + ChargeOf(d, o) = T.ops[o].cost
  <2>1. ChargeOf(cuts, o) \in Nat /\ ChargeOf(d, o) = ChargeOf(cuts, o) + (IF o \in L THEN m ELSE 0)
    <3>1. cuts \in Cuts(T)
      BY DEF CutsHold
    <3>2. d = OneMore(cuts, L, m)
      BY DEF OneMore
    <3> HIDE DEF d
    <3>3. QED
      BY <3>1, <3>2, ChargeOfAppend
  <2>2. cost[o] + ChargeOf(cuts, o) = T.ops[o].cost
    BY DEF CutsHold
  <2>3. cost[o] \in Nat /\ low[o] = IF o \in L THEN cost[o] - m ELSE cost[o]
    BY DEF Costs
  <2> HIDE DEF d
  <2>4. CASE o \in L
    <3>1. ChargeOf(d, o) = ChargeOf(cuts, o) + m /\ low[o] = cost[o] - m
      BY <2>1, <2>3, <2>4
    <3>2. QED
      BY <2>1, <2>2, <2>3, <3>1
  <2>5. CASE o \notin L
    <3>1. ChargeOf(d, o) = ChargeOf(cuts, o) + 0 /\ low[o] = cost[o]
      BY <2>1, <2>3, <2>5
    <3>2. QED
      BY <2>1, <2>2, <3>1
  <2>6. QED
    BY <2>4, <2>5
<1>5. QED
  BY <1>2, <1>3, <1>4 DEF CutsHold, Cuts, d, E

-----------------------------------------------------------------------------
(* The first costs of LmCut.                                               *)

\* The propositions of the state are offered to nothing.
LEMMA NoneLowered ==
  ASSUME NEW T, IsTask(T), NEW s \in StatesOf(T)
  PROVE  LET v == [p \in Propositions(T) |-> -1]
             offers == {<<0, p>> : p \in SourcesOf(s)}
             w == Lowered(v, offers)
             Q == Best(v, offers)
         IN /\ w \in Values(T) /\ Q \in SUBSET (Nat \X Propositions(T))
            /\ \A e \in Q : w[e[2]] # -1 /\ w[e[2]] <= e[1]
            /\ \A p \in Propositions(T) :
                 IF p \in SourcesOf(s) THEN w[p] = 0 /\ <<0, p>> \in Q ELSE w[p] = -1
<1> DEFINE P == Propositions(T)
           v == [p \in P |-> -1]
           offers == {<<0, p>> : p \in SourcesOf(s)}
           w == Lowered(v, offers)
           Q == Best(v, offers)
<1>1. SourcesOf(s) \subseteq P
  BY SourcesAre DEF P
<1>2. offers \in SUBSET (Nat \X P) /\ v \in Values(T) /\ \A p \in P : v[p] = -1
  BY <1>1 DEF Values
<1>3. \A o \in offers : o[1] = 0 /\ o[2] \in SourcesOf(s)
  OBVIOUS
<1>4. \A p \in SourcesOf(s) : <<0, p>> \in offers
  OBVIOUS
<1> HIDE DEF P, v, offers
<1>5. /\ w \in Values(T)
      /\ \A p \in P :
           \/ w[p] = v[p] /\ \A o \in offers : o[2] = p => v[p] # -1 /\ v[p] <= o[1]
           \/ <<w[p], p>> \in Q /\ (v[p] = -1 \/ w[p] < v[p]) /\ w[p] \in Nat
      /\ \A b \in Q : b \in offers /\ b = <<w[b[2]], b[2]>>
      /\ \A o \in offers : w[o[2]] # -1 /\ w[o[2]] <= o[1]
  BY <1>2, LoweredIs DEF P
<1> HIDE DEF w, Q
<1>6. Q \in SUBSET (Nat \X P) /\ \A e \in Q : w[e[2]] # -1 /\ w[e[2]] <= e[1]
  BY <1>2, <1>5
<1>7. ASSUME NEW p \in P
      PROVE  IF p \in SourcesOf(s) THEN w[p] = 0 /\ <<0, p>> \in Q ELSE w[p] = -1
  <2>1. CASE p \in SourcesOf(s)
    <3>1. w[p] # -1
      <4>1. <<0, p>>[2] = p
        OBVIOUS
      <4>2. QED
        BY <1>4, <1>5, <2>1, <4>1
    <3>2. <<w[p], p>> \in Q
      BY <1>2, <1>5, <3>1
    <3>3. <<w[p], p>>[1] = 0
      BY <1>3, <1>5, <3>2
    <3>4. w[p] = 0
      BY <3>3
    <3>5. QED
      BY <2>1, <3>2, <3>4
  <2>2. CASE p \notin SourcesOf(s)
    <3>1. <<w[p], p>> \notin Q
      <4>1. ASSUME <<w[p], p>> \in Q
            PROVE  FALSE
        <5>1. <<w[p], p>>[2] \in SourcesOf(s)
          BY <1>3, <1>5, <4>1
        <5>2. QED
          BY <2>2, <5>1
      <4>2. QED
        BY <4>1
    <3>2. QED
      BY <1>2, <1>5, <2>2, <3>1
  <2>3. QED
    BY <2>1, <2>2
<1>8. QED
  BY <1>5, <1>6, <1>7 DEF P, v, offers, w, Q

\* As long as nothing is popped, all the preconditions are open.
LEMMA AllOpen ==
  ASSUME NEW T, IsTask(T), NEW ops, OperatorsFit(T, ops), NEW i \in DOMAIN ops,
         NEW v, NEW Q, \A p \in Propositions(T) : ~ Closed(v, Q, p)
  PROVE  Len(ops[i].pre) = Cardinality(Open(ops, v, Q, i)) /\ Len(ops[i].pre) \in Nat /\ Len(ops[i].pre) > 0
<1> DEFINE q == ops[i].pre
<1>1. q \in Seq(Propositions(T)) /\ q # <<>>
  BY RelaxedOpIs
<1>2. \A j \in DOMAIN q : q[j] \in Propositions(T)
  <2> HIDE DEF q
  <2>1. QED
    BY <1>1
<1>3. Open(ops, v, Q, i) = DOMAIN q
  BY <1>2 DEF Open
<1> HIDE DEF q
<1>4. DOMAIN q = 1 .. Len(q) /\ Len(q) \in Nat /\ Len(q) > 0
  BY <1>1
<1>5. Cardinality(1 .. Len(q)) = Len(q)
  BY <1>4, FS_Interval
<1>6. QED
  BY <1>3, <1>4, <1>5 DEF q

LEMMA FirstStarts ==
  ASSUME NEW T, IsTask(T), NEW s \in StatesOf(T), NEW ops, OperatorsFit(T, ops), NEW cost,
         NEW w, NEW Q, w \in Values(T), Q \in SUBSET (Nat \X Propositions(T)),
         \A e \in Q : w[e[2]] # -1 /\ w[e[2]] <= e[1],
         \A p \in Propositions(T) : IF p \in SourcesOf(s) THEN w[p] = 0 /\ <<0, p>> \in Q ELSE w[p] = -1
  PROVE  FirstHolds(T, ops, s, cost, w, Q, [i \in DOMAIN ops |-> Len(ops[i].pre)],
                    [i \in DOMAIN ops |-> NoProposition], [i \in DOMAIN ops |-> INFTY])
<1> DEFINE P == Propositions(T)
           unsat == [i \in DOMAIN ops |-> Len(ops[i].pre)]
           sup == [i \in DOMAIN ops |-> NoProposition]
           sc == [i \in DOMAIN ops |-> INFTY]
<1>1. SourcesOf(s) \subseteq P
  BY SourcesAre
<1>2. NeverBelow(T, ops, s, cost, w)
  <2> SUFFICES ASSUME NEW phi \in [P -> Nat], IsPotential(T, ops, s, cost, phi), NEW p \in P, w[p] # -1
               PROVE  phi[p] <= w[p]
    BY DEF NeverBelow
  <2>1. p \in SourcesOf(s) /\ w[p] = 0
    OBVIOUS
  <2>2. phi[p] = 0
    BY <2>1 DEF IsPotential
  <2>3. QED
    BY <2>1, <2>2
<1>3. CostsHold(T, ops, s, cost, w, Q)
  BY <1>1, <1>2 DEF CostsHold
<1>4. \A p \in P : ~ Closed(w, Q, p)
  BY DEF Closed
<1>5. ASSUME NEW i \in DOMAIN ops
      PROVE  unsat[i] = Cardinality(Open(ops, w, Q, i)) /\ unsat[i] \in Nat /\ unsat[i] > 0 /\ sup[i] = NoProposition
  BY <1>4, AllOpen
<1>6. unsat \in [DOMAIN ops -> Nat] /\ sc \in [DOMAIN ops -> Nat] /\ sup \in [DOMAIN ops -> P \cup {NoProposition}]
  BY <1>5, InftyIs
<1> HIDE DEF unsat, sup, sc
<1>7. FirstHolds(T, ops, s, cost, w, Q, unsat, sup, sc)
  BY <1>3, <1>4, <1>5, <1>6 DEF FirstHolds
<1>8. QED
  BY <1>7 DEF unsat, sup, sc

\* Nothing has been charged.
LEMMA PartitionStarts ==
  ASSUME NEW t \in DOMAIN Tasks, NEW s \in StatesOf(Tasks[t]),
         NEW cost, \A o \in OpsOf(Tasks[t]) : cost[o] = Tasks[t].ops[o].cost
  PROVE  PartitionHolds(t, cost, s, 0)
<1> DEFINE T == Tasks[t]
           phi == [x \in StatesOf(T) |-> 0]
<1>1. IsTask(T)
  BY TasksAssumption DEF TasksAssumption
<1>2. phi \in [StatesOf(T) -> Nat] /\ \A x \in StatesOf(T) : phi[x] = 0
  OBVIOUS
<1> HIDE DEF phi
<1>3. ASSUME NEW e \in Transitions[t]
      PROVE  phi[e[1]] <= (T.ops[e[4]].cost - cost[e[4]]) + phi[e[2]]
  <2>1. PICK o \in OpsOf(T), x \in StatesOf(T) :
          is_applicable(T.ops[o], x) /\ e = <<x, successor(T.ops[o], x), T.ops[o].cost, o>>
    BY TransitionIs
  <2>2. successor(T.ops[o], x) \in StatesOf(T)
    BY <1>1, <2>1, SuccessorReached
  <2>3. phi[e[1]] = 0 /\ phi[e[2]] = 0 /\ e[4] = o
    BY <1>2, <2>1, <2>2
  <2>4. T.ops[o].cost \in Nat /\ cost[o] = T.ops[o].cost
    BY <1>1, OperatorIs
  <2>5. QED
    BY <2>3, <2>4
<1>4. QED
  BY <1>2, <1>3 DEF PartitionHolds

LEMMA LmCutStarts ==
  ASSUME NEW t \in DOMAIN Tasks, NEW s \in StatesOf(Tasks[t]), LmCutInit(t, s)
  PROVE  LmCutInv
<1> DEFINE T == Tasks[t]
           ops == relaxed_operators[t]
           v == [p \in Propositions(T) |-> -1]
           offers == {<<0, p>> : p \in SourcesOf(s)}
           x == enqueue_all_necessary([hmax |-> v, queue |-> {}], offers)
           w == Lowered(v, offers)
           Q == Best(v, offers)
<1>1. IsTask(T)
  BY TasksAssumption DEF TasksAssumption
<1>2. OperatorsFit(T, ops)
  BY <1>1, RelaxedOperatorsFit
<1>3. x.hmax = w /\ x.queue = {} \cup Q
  BY EnqueueIs
<1>4. /\ lTask = t /\ lState = s /\ lOps = ops /\ lPc = "first"
      /\ lCost = [o \in OpsOf(T) |-> T.ops[o].cost]
      /\ lHmax = x.hmax /\ lQueue = x.queue
      /\ lUnsat = [i \in DOMAIN ops |-> Len(ops[i].pre)]
      /\ lSupporter = [i \in DOMAIN ops |-> NoProposition]
      /\ lSupporterCost = [i \in DOMAIN ops |-> INFTY]
      /\ lTotal = 0 /\ lCuts = <<>>
  BY DEF LmCutInit
<1>5. lHmax = w /\ lQueue = Q
  BY <1>3, <1>4
<1>6. /\ w \in Values(T) /\ Q \in SUBSET (Nat \X Propositions(T))
      /\ \A e \in Q : w[e[2]] # -1 /\ w[e[2]] <= e[1]
      /\ \A p \in Propositions(T) : IF p \in SourcesOf(s) THEN w[p] = 0 /\ <<0, p>> \in Q ELSE w[p] = -1
  BY <1>1, NoneLowered
<1> HIDE DEF x, w, Q, v, offers, ops
<1>7. FirstHolds(T, lOps, lState, lCost, lHmax, lQueue, lUnsat, lSupporter, lSupporterCost)
  <2>1. FirstHolds(T, ops, s, lCost, w, Q, [i \in DOMAIN ops |-> Len(ops[i].pre)],
                    [i \in DOMAIN ops |-> NoProposition], [i \in DOMAIN ops |-> INFTY])
    BY <1>1, <1>2, <1>6, FirstStarts
  <2>2. QED
    BY <1>4, <1>5, <2>1
<1>8. \A o \in OpsOf(T) : T.ops[o].cost \in Nat
  BY <1>1, OperatorIs
<1>9. lCost \in Costs(T) /\ \A o \in OpsOf(T) : lCost[o] = T.ops[o].cost
  BY <1>4, <1>8 DEF Costs
<1>10. PartitionHolds(t, lCost, s, 0)
  BY <1>9, PartitionStarts
<1>11. CutsHold(T, s, lCost, <<>>)
  <2>1. <<>> \in Cuts(T) /\ DOMAIN <<>> = {}
    BY DEF Cuts
  <2>2. ASSUME NEW o \in OpsOf(T)
        PROVE  lCost[o] + ChargeOf(<<>>, o) = T.ops[o].cost
    <3>1. ChargeOf(<<>>, o) = 0
      BY NoCharge
    <3>2. QED
      BY <1>8, <1>9, <3>1
  <2>3. QED
    BY <2>1, <2>2 DEF CutsHold
<1>12. QED
  BY <1>4, <1>7, <1>9, <1>10, <1>11 DEF LmCutInv, ops

-----------------------------------------------------------------------------
(* The steps of LmCut.                                                     *)

LEMMA PopFirstHolds ==
  ASSUME LmCutInv, PopFirst
  PROVE  LmCutInv'
<1> DEFINE T == Tasks[lTask]
<1>1. PICK e \in Cheapest :
        LET p == e[2]
            unsat == [i \in DOMAIN lOps |-> lUnsat[i] - Occurrences(lOps[i], p)]
            ready == {i \in DOMAIN lOps : lUnsat[i] > 0 /\ unsat[i] = 0}
            after == enqueue_all_necessary([hmax |-> lHmax, queue |-> lQueue \ {e}],
                                           UNION {Offers(lCost, lOps[i], lHmax[p]) : i \in ready})
        IN IF Outdated(e)
           THEN lQueue' = lQueue \ {e} /\ UNCHANGED <<lHmax, lUnsat, lSupporter, lSupporterCost>>
           ELSE /\ lHmax' = after.hmax /\ lQueue' = after.queue /\ lUnsat' = unsat
                /\ lSupporter' = [i \in DOMAIN lOps |-> IF i \in ready THEN p ELSE lSupporter[i]]
                /\ lSupporterCost' = [i \in DOMAIN lOps |-> IF i \in ready THEN lHmax[p] ELSE lSupporterCost[i]]
  BY DEF PopFirst
<1>2. /\ lPc = "first"
      /\ UNCHANGED <<lTask, lState, lOps, lPc, lCost, lTotal, lCuts>>
  BY DEF PopFirst
<1>3. /\ lTask \in DOMAIN Tasks /\ lState \in StatesOf(T) /\ lOps = relaxed_operators[lTask]
      /\ lCost \in Costs(T) /\ CutsHold(T, lState, lCost, lCuts)
      /\ lTotal \in Nat /\ PartitionHolds(lTask, lCost, lState, lTotal)
      /\ FirstHolds(T, lOps, lState, lCost, lHmax, lQueue, lUnsat, lSupporter, lSupporterCost)
  BY <1>2 DEF LmCutInv
<1>4. IsTask(T)
  BY <1>3, TasksAssumption DEF TasksAssumption
<1>5. OperatorsFit(T, lOps)
  BY <1>3, <1>4, RelaxedOperatorsFit
<1>6. e \in lQueue /\ \A f \in lQueue : e[1] <= f[1]
  BY DEF Cheapest
<1>7. FirstHolds(T, lOps, lState, lCost, lHmax', lQueue', lUnsat', lSupporter', lSupporterCost')
  <2>1. CASE lHmax[e[2]] < e[1]
    <3>1. /\ lQueue' = lQueue \ {e}
          /\ lHmax' = lHmax /\ lUnsat' = lUnsat /\ lSupporter' = lSupporter /\ lSupporterCost' = lSupporterCost
      BY <1>1, <2>1 DEF Outdated
    <3>2. FirstHolds(T, lOps, lState, lCost, lHmax, lQueue \ {e}, lUnsat, lSupporter, lSupporterCost)
      <4> HIDE DEF T
      <4>1. QED
        BY <1>3, <1>4, <1>5, <1>6, <2>1, PopOutdatedFirst
    <3>3. QED
      BY <3>1, <3>2
  <2>2. CASE ~ (lHmax[e[2]] < e[1])
    <3> DEFINE p == e[2]
               unsat == [i \in DOMAIN lOps |-> lUnsat[i] - Occurrences(lOps[i], p)]
               ready == {i \in DOMAIN lOps : lUnsat[i] > 0 /\ unsat[i] = 0}
               offers == UNION {Offers(lCost, lOps[i], lHmax[p]) : i \in ready}
               after == enqueue_all_necessary([hmax |-> lHmax, queue |-> lQueue \ {e}], offers)
               sup == [i \in DOMAIN lOps |-> IF i \in ready THEN p ELSE lSupporter[i]]
               sc == [i \in DOMAIN lOps |-> IF i \in ready THEN lHmax[p] ELSE lSupporterCost[i]]
    <3>1. lHmax' = after.hmax /\ lQueue' = after.queue /\ lUnsat' = unsat /\ lSupporter' = sup /\ lSupporterCost' = sc
      BY <1>1, <2>2 DEF Outdated
    <3>2. after.hmax = Lowered(lHmax, offers) /\ after.queue = (lQueue \ {e}) \cup Best(lHmax, offers)
      BY EnqueueIs
    <3>3. /\ unsat = StillOpen(lOps, lUnsat, p) /\ ready = GetReady(lOps, lUnsat, p)
          /\ sup = EnteredFor(lOps, ready, p, lSupporter) /\ sc = EnteredFor(lOps, ready, lHmax[p], lSupporterCost)
          /\ offers = OffersOf(lOps, lCost, ready, lHmax[p])
      BY DEF StillOpen, GetReady, EnteredFor, OffersOf
    <3> HIDE DEF after, unsat, sup, sc, offers, ready
    <3>4. FirstHolds(T, lOps, lState, lCost, Lowered(lHmax, offers), (lQueue \ {e}) \cup Best(lHmax, offers),
                     unsat, sup, sc)
      <4> HIDE DEF T
      <4>1. QED
        BY <1>3, <1>4, <1>5, <1>6, <2>2, <3>3, PopFirstKeeps
    <3>5. QED
      BY <3>1, <3>2, <3>4
  <2>3. QED
    BY <2>1, <2>2
<1>8. QED
  BY <1>2, <1>3, <1>7 DEF LmCutInv

LEMMA EndExplorationHolds ==
  ASSUME LmCutInv, EndExploration
  PROVE  LmCutInv'
<1> DEFINE T == Tasks[lTask]
<1>1. /\ lPc \in {"first", "incremental"} /\ lQueue = {}
      /\ lPc' = IF lHmax[artificial_goal] \in {-1, 0} THEN "done" ELSE "cut"
      /\ lTotal' = IF lHmax[artificial_goal] = -1 THEN INFTY ELSE lTotal
      /\ UNCHANGED <<lTask, lState, lOps, lCost, lHmax, lUnsat, lSupporter, lSupporterCost, lQueue, lCuts>>
  BY DEF EndExploration
<1>2. /\ lTask \in DOMAIN Tasks /\ lState \in StatesOf(T) /\ lOps = relaxed_operators[lTask]
      /\ lCost \in Costs(T) /\ CutsHold(T, lState, lCost, lCuts)
      /\ lTotal \in Nat /\ PartitionHolds(lTask, lCost, lState, lTotal)
      /\ IF lPc = "first"
         THEN FirstHolds(T, lOps, lState, lCost, lHmax, lQueue, lUnsat, lSupporter, lSupporterCost)
         ELSE MidHolds(T, lOps, lState, lCost, lHmax, lQueue, lUnsat, lSupporter, lSupporterCost)
  BY <1>1 DEF LmCutInv
<1>3. IsTask(T)
  BY <1>2, TasksAssumption DEF TasksAssumption
<1>4. OperatorsFit(T, lOps)
  BY <1>2, <1>3, RelaxedOperatorsFit
<1>5. MidHolds(T, lOps, lState, lCost, lHmax, lQueue, lUnsat, lSupporter, lSupporterCost)
  <2> HIDE DEF T
  <2>1. QED
    BY <1>1, <1>2, <1>3, <1>4, FirstToMid
<1>6. lTotal' \in Nat /\ PartitionHolds(lTask, lCost, lState, lTotal')
  <2>1. CASE lHmax[artificial_goal] = -1
    <3>1. \A o \in OpsOf(T) : lCost[o] <= T.ops[o].cost
      BY <1>2, <1>3, CutsBound
    <3>2. PartitionHolds(lTask, lCost, lState, INFTY)
      BY <1>2, <1>4, <1>5, <2>1, <3>1, DeadEndHolds
    <3>3. QED
      BY <1>1, <2>1, <3>2, InftyIs
  <2>2. CASE lHmax[artificial_goal] # -1
    BY <1>1, <1>2, <2>2
  <2>3. QED
    BY <2>1, <2>2
<1>7. lPc' \in {"cut", "done"} /\ lPc' # "first" /\ (lPc' = "cut" => lHmax[artificial_goal] \notin {-1, 0})
  BY <1>1
<1>8. QED
  BY <1>1, <1>2, <1>5, <1>6, <1>7 DEF LmCutInv

\* What a cut costs is there for all of its groups.
LEMMA CutCostIs ==
  ASSUME NEW T, IsTask(T), OperatorsFit(T, lOps), lCost \in Costs(T), NEW s, NEW B, NEW c,
         Separates(T, lOps, s, lCost, B, c)
  PROVE  /\ CutCost(c) \in Nat
         /\ \A i \in c : i \in DOMAIN lOps /\ lOps[i].group \in OpsOf(T) /\ CutCost(c) <= lCost[lOps[i].group]
<1> DEFINE S == {CostOf(lCost, lOps[i]) : i \in c}
<1>1. c \subseteq DOMAIN lOps /\ c # {} /\ \A i \in c : CostOf(lCost, lOps[i]) > 0
  BY DEF Separates
<1>2. ASSUME NEW i \in c
      PROVE  /\ i \in DOMAIN lOps /\ lOps[i].group \in OpsOf(T) /\ CostOf(lCost, lOps[i]) = lCost[lOps[i].group]
             /\ CostOf(lCost, lOps[i]) \in S /\ CostOf(lCost, lOps[i]) \in Nat
  <2>1. i \in DOMAIN lOps /\ CostOf(lCost, lOps[i]) > 0
    BY <1>1
  <2>2. lOps[i].group = 0 \/ lOps[i].group \in OpsOf(T)
    BY <2>1, RelaxedOpIs
  <2>3. lOps[i].group # 0
    BY <2>1 DEF CostOf
  <2>4. CostOf(lCost, lOps[i]) = lCost[lOps[i].group]
    BY <2>3 DEF CostOf
  <2>5. CostOf(lCost, lOps[i]) \in Nat
    BY <2>1, CostOfIs
  <2>6. QED
    BY <2>1, <2>2, <2>3, <2>4, <2>5
<1>3. S \in SUBSET Nat /\ S # {}
  BY <1>1, <1>2
<1>4. CutCost(c) = Least(S)
  BY DEF CutCost
<1> HIDE DEF S
<1>5. Least(S) \in S /\ \A k \in S : Least(S) <= k
  BY <1>3, LeastIn
<1>6. ASSUME NEW i \in c
      PROVE  CutCost(c) <= lCost[lOps[i].group]
  BY <1>2, <1>4, <1>5
<1>7. QED
  BY <1>2, <1>3, <1>4, <1>5, <1>6

LEMMA CutHolds ==
  ASSUME LmCutInv, Cut
  PROVE  LmCutInv'
<1> DEFINE T == Tasks[lTask]
           c == cut
           m == CutCost(c)
           L == Groups(lOps, c)
           low == [o \in OpsOf(T) |-> IF o \in L THEN lCost[o] - m ELSE lCost[o]]
           I == Repaired(c)
           offers == RepairOffers(lOps, low, I, lSupporter, lSupporterCost)
<1>1. lPc = "cut" /\ lPc' = "incremental" /\ Charge(c, m)
      /\ UNCHANGED <<lTask, lState, lOps, lUnsat, lSupporter, lSupporterCost>>
  BY DEF Cut
<1>2. /\ lTask \in DOMAIN Tasks /\ lState \in StatesOf(T) /\ lOps = relaxed_operators[lTask]
      /\ lCost \in Costs(T) /\ CutsHold(T, lState, lCost, lCuts)
      /\ lTotal \in Nat /\ PartitionHolds(lTask, lCost, lState, lTotal)
      /\ MidHolds(T, lOps, lState, lCost, lHmax, lQueue, lUnsat, lSupporter, lSupporterCost)
      /\ lQueue = {} /\ lHmax[artificial_goal] \notin {-1, 0}
  BY <1>1 DEF LmCutInv
<1>3. IsTask(T)
  BY <1>2, TasksAssumption DEF TasksAssumption
<1>4. OperatorsFit(T, lOps)
  BY <1>2, <1>3, RelaxedOperatorsFit
<1>5. PICK B : Separates(T, lOps, lState, lCost, B, c)
  BY <1>2, <1>3, <1>4, CutIs
<1> HIDE DEF c
<1>6. /\ m \in Nat
      /\ \A i \in c : i \in DOMAIN lOps /\ lOps[i].group \in OpsOf(T) /\ m <= lCost[lOps[i].group]
  BY <1>2, <1>3, <1>4, <1>5, CutCostIs
<1>7. L \in SUBSET OpsOf(T) /\ L = Charged(c) /\ \A o \in L : m <= lCost[o]
  BY <1>6 DEF Groups, Charged
<1>8. DOMAIN lCost = OpsOf(T) /\ \A o \in OpsOf(T) : lCost[o] \in Nat
  BY <1>2 DEF Costs
<1>9. /\ lCost' = low /\ lTotal' = lTotal + m /\ lCuts' = Append(lCuts, <<L, m>>)
      /\ lHmax' = Lowered(lHmax, offers) /\ lQueue' = lQueue \cup Best(lHmax, offers)
  <2> DEFINE cost == [o \in DOMAIN lCost |-> IF o \in Charged(c) THEN lCost[o] - m ELSE lCost[o]]
             again == UNION {Offers(cost, lOps[i], lSupporterCost[i]) :
                               i \in {j \in Repaired(c) : lSupporter[j] # NoProposition}}
             x == enqueue_all_necessary([hmax |-> lHmax, queue |-> lQueue], again)
  <2>1. /\ lCost' = cost /\ lTotal' = lTotal + m
        /\ lCuts' = Append(lCuts, <<Charged(c), m>>)
        /\ lHmax' = x.hmax /\ lQueue' = x.queue
    BY <1>1 DEF Charge
  <2>2. cost = low
    BY <1>7, <1>8
  <2>3. again = offers
    <3> HIDE DEF low, cost
    <3>1. QED
      BY <2>2 DEF RepairOffers
  <2> HIDE DEF cost, again, low, offers, L, m
  <2>4. x.hmax = Lowered(lHmax, again) /\ x.queue = lQueue \cup Best(lHmax, again)
    BY EnqueueIs
  <2> HIDE DEF x
  <2>5. QED
    BY <1>7, <2>1, <2>2, <2>3, <2>4
<1> HIDE DEF L, m
<1>10. \A o \in OpsOf(T) : low[o] = IF o \in L THEN lCost[o] - m ELSE lCost[o]
  OBVIOUS
<1>11. low \in Costs(T) /\ \A o \in OpsOf(T) : low[o] <= lCost[o]
  <2>1. ASSUME NEW o \in OpsOf(T)
        PROVE  low[o] \in Nat /\ low[o] <= lCost[o]
    <3>1. CASE o \in L
      <4>1. low[o] = lCost[o] - m /\ m <= lCost[o] /\ lCost[o] \in Nat
        BY <1>7, <1>8, <3>1
      <4> HIDE DEF low
      <4>2. QED
        BY <1>6, <4>1
    <3>2. CASE o \notin L
      <4>1. low[o] = lCost[o] /\ lCost[o] \in Nat
        BY <1>8, <3>2
      <4>2. QED
        BY <4>1
    <3>3. QED
      BY <3>1, <3>2
  <2>2. low = [o \in OpsOf(T) |-> low[o]]
    OBVIOUS
  <2> HIDE DEF low
  <2>3. QED
    BY <2>1, <2>2 DEF Costs
<1> HIDE DEF low
<1>12. I \in SUBSET DOMAIN lOps
  BY DEF Repaired
<1>13. ASSUME NEW i \in DOMAIN lOps \ I
       PROVE  CostOf(low, lOps[i]) = CostOf(lCost, lOps[i])
  <2>1. lOps[i].group = 0 \/ lOps[i].group \in OpsOf(T)
    BY <1>3, <1>4, RelaxedOpIs
  <2>2. lOps[i].group \notin L
    BY <1>13 DEF Repaired, L, Groups
  <2>3. QED
    BY <1>10, <2>1, <2>2 DEF CostOf
<1> HIDE DEF I
<1>14. MidHolds(T, lOps, lState, low, lHmax', lQueue', lUnsat, lSupporter, lSupporterCost)
  <2>1. MidHolds(T, lOps, lState, low, Lowered(lHmax, offers), lQueue \cup Best(lHmax, offers),
                 lUnsat, lSupporter, lSupporterCost)
    <3> HIDE DEF T
    <3>1. QED
      BY <1>2, <1>3, <1>4, <1>11, <1>12, <1>13, ChargeKeeps
  <2> HIDE DEF offers, T
  <2>2. QED
    BY <1>9, <2>1
<1>15. IsLandmark(T, lState, L)
  BY <1>2, <1>3, <1>4, <1>5, CutIsLandmark DEF L
<1>16. CutsHold(T, lState, low, lCuts')
  <2>1. CutsHold(T, lState, low, Append(lCuts, <<L, m>>))
    BY <1>2, <1>3, <1>6, <1>7, <1>10, <1>15, CutsGrow
  <2>2. QED
    BY <1>9, <2>1
<1>17. lTotal' \in Nat /\ PartitionHolds(lTask, low, lState, lTotal')
  <2>1. FactsIn(lState) \subseteq B /\ ~ (T.goal \subseteq B)
    <3>1. SourcesOf(lState) \subseteq B
      BY <1>5 DEF Separates
    <3>2. ~ (T.goal \subseteq B)
      BY <1>4, <1>5, GoalOutside
    <3>3. QED
      BY <3>1, <3>2 DEF SourcesOf
  <2>2. ASSUME NEW o \in OpsOf(T), ~ (low[o] = lCost[o] - m), NEW G \in SUBSET B
        PROVE  Added(T, {o}, G) \subseteq B
    <3>1. o \notin L
      BY <1>10, <2>2
    <3>2. \A i \in c : lOps[i].group \notin {o}
      BY <3>1 DEF L, Groups
    <3>3. {o} \in SUBSET OpsOf(T)
      OBVIOUS
    <3>4. QED
      BY <1>3, <1>4, <1>5, <3>2, <3>3, AddedStays
  <2>3. \A o \in OpsOf(T) : lCost[o] <= T.ops[o].cost /\ low[o] <= lCost[o]
    BY <1>2, <1>3, <1>11, CutsBound
  <2>4. \A o \in OpsOf(T) : low[o] = lCost[o] - m \/ \A G \in SUBSET B : Added(T, {o}, G) \subseteq B
    BY <2>2
  <2>5. PartitionHolds(lTask, low, lState, lTotal + m)
    BY <1>2, <1>6, <1>11, <2>1, <2>3, <2>4, PartitionGrows
  <2>6. QED
    BY <1>2, <1>6, <1>9, <2>5
<1>18. QED
  BY <1>1, <1>2, <1>9, <1>11, <1>14, <1>16, <1>17 DEF LmCutInv

LEMMA PopIncrementalHolds ==
  ASSUME LmCutInv, PopIncremental
  PROVE  LmCutInv'
<1> DEFINE T == Tasks[lTask]
<1>1. PICK e \in Cheapest :
        LET p == e[2]
            x == [hmax |-> lHmax, queue |-> lQueue \ {e}, supporter |-> lSupporter, supporter_cost |-> lSupporterCost]
            y == IF Outdated(e) THEN x ELSE Updated(x, p, lHmax[p])
        IN lHmax' = y.hmax /\ lQueue' = y.queue /\ lSupporter' = y.supporter /\ lSupporterCost' = y.supporter_cost
  BY DEF PopIncremental
<1>2. lPc = "incremental" /\ UNCHANGED <<lTask, lState, lOps, lPc, lCost, lUnsat, lTotal, lCuts>>
  BY DEF PopIncremental
<1>3. /\ lTask \in DOMAIN Tasks /\ lState \in StatesOf(T) /\ lOps = relaxed_operators[lTask]
      /\ lCost \in Costs(T) /\ CutsHold(T, lState, lCost, lCuts)
      /\ lTotal \in Nat /\ PartitionHolds(lTask, lCost, lState, lTotal)
      /\ MidHolds(T, lOps, lState, lCost, lHmax, lQueue, lUnsat, lSupporter, lSupporterCost)
  BY <1>2 DEF LmCutInv
<1>4. IsTask(T)
  BY <1>3, TasksAssumption DEF TasksAssumption
<1>5. OperatorsFit(T, lOps)
  BY <1>3, <1>4, RelaxedOperatorsFit
<1> DEFINE p == e[2]
           x == [hmax |-> lHmax, queue |-> lQueue \ {e}, supporter |-> lSupporter, supporter_cost |-> lSupporterCost]
           y == IF lHmax[p] < e[1] THEN x ELSE Updated(x, p, lHmax[p])
<1>6. lHmax' = y.hmax /\ lQueue' = y.queue /\ lSupporter' = y.supporter /\ lSupporterCost' = y.supporter_cost
  BY <1>1 DEF Outdated
<1>7. e \in lQueue
  BY DEF Cheapest
<1>8. MidHolds(T, lOps, lState, lCost, y.hmax, y.queue, lUnsat, y.supporter, y.supporter_cost)
  <2> HIDE DEF T
  <2>1. QED
    BY <1>3, <1>4, <1>5, <1>7, PopIncrementalKeeps
<1> HIDE DEF y
<1>9. MidHolds(T, lOps, lState, lCost, lHmax', lQueue', lUnsat, lSupporter', lSupporterCost')
  BY <1>6, <1>8
<1>10. QED
  BY <1>2, <1>3, <1>9 DEF LmCutInv

-----------------------------------------------------------------------------
\* While a state is evaluated: no potential is above the costs of the
\* propositions, every reached operator has a supporter that is current or
\* will be popped, every cut is a landmark, what an operator costs is what is
\* left of it and what it is charged, and a potential of the states that the
\* charges pay for is at least the total.
THEOREM LmCutHolds == LmCutSpec => []LmCutInv
<1>1. (\E t \in DOMAIN Tasks : LmCutIdle(t) \/ \E s \in StatesOf(Tasks[t]) : LmCutInit(t, s)) => LmCutInv
  <2>1. ASSUME NEW t \in DOMAIN Tasks, LmCutIdle(t)
        PROVE  LmCutInv
    BY <2>1 DEF LmCutIdle, LmCutInv
  <2>2. QED
    BY <2>1, LmCutStarts
<1>2. LmCutInv /\ [LmCutNext]_lmCutVars => LmCutInv'
  <2> SUFFICES ASSUME LmCutInv, [LmCutNext]_lmCutVars
               PROVE  LmCutInv'
    OBVIOUS
  <2>1. CASE PopFirst
    BY <2>1, PopFirstHolds
  <2>2. CASE EndExploration
    BY <2>2, EndExplorationHolds
  <2>3. CASE Cut
    BY <2>3, CutHolds
  <2>4. CASE PopIncremental
    BY <2>4, PopIncrementalHolds
  <2>5. CASE UNCHANGED lmCutVars
    BY <2>5 DEF lmCutVars, LmCutInv
  <2>6. QED
    BY <2>1, <2>2, <2>3, <2>4, <2>5 DEF LmCutNext
<1>3. QED
  BY <1>1, <1>2, PTL DEF LmCutSpec

LEMMA MidSupports ==
  ASSUME LmCutInv, lPc \in {"cut", "done"}
  PROVE  SupportersAreValid
<1> DEFINE T == Tasks[lTask]
<1>1. /\ lQueue = {}
      /\ MidHolds(T, lOps, lState, lCost, lHmax, lQueue, lUnsat, lSupporter, lSupporterCost)
  BY DEF LmCutInv
<1>2. ASSUME NEW i \in DOMAIN lOps
      PROVE  IF \E p \in Range(lOps[i].pre) : lHmax[p] = -1
             THEN lUnsat[i] > 0 /\ lSupporter[i] = NoProposition
             ELSE /\ lUnsat[i] = 0 /\ lSupporter[i] \in Range(lOps[i].pre)
                  /\ lSupporterCost[i] = lHmax[lSupporter[i]]
                  /\ \A p \in Range(lOps[i].pre) : lHmax[p] <= lSupporterCost[i]
  BY <1>1 DEF MidHolds, OpHolds, Unreached, Supported, Current
<1>3. QED
  BY <1>2 DEF SupportersAreValid

\* Whenever an exploration ends, supporters and costs are valid, the costs
\* are hmax, every cut is a landmark, no operator is charged more than it
\* costs, and the estimate is at most the cost of a plan
\* (compute_landmarks): the heuristic is admissible.
THEOREM LmCutCorrect == LmCutSpec => []CutsAreLandmarks
<1>1. LmCutInv => CutsAreLandmarks
  <2> SUFFICES ASSUME LmCutInv, lPc \in {"cut", "done"}
               PROVE  LET T == Tasks[lTask] IN
                      /\ SupportersAreValid /\ HmaxIsValid
                      /\ \A k \in DOMAIN lCuts : IsLandmark(T, lState, lCuts[k][1])
                      /\ \A o \in OpsOf(T) : ChargeOf(lCuts, o) <= T.ops[o].cost
                      /\ lPc = "done" /\ GoalDistance[lTask][lState] < INFTY => lTotal <= GoalDistance[lTask][lState]
    BY DEF CutsAreLandmarks
  <2> DEFINE T == Tasks[lTask]
  <2>1. /\ lTask \in DOMAIN Tasks /\ lState \in StatesOf(T) /\ lOps = relaxed_operators[lTask]
        /\ lCost \in Costs(T) /\ CutsHold(T, lState, lCost, lCuts)
        /\ lTotal \in Nat /\ PartitionHolds(lTask, lCost, lState, lTotal)
        /\ MidHolds(T, lOps, lState, lCost, lHmax, lQueue, lUnsat, lSupporter, lSupporterCost)
        /\ lQueue = {}
    BY DEF LmCutInv
  <2>2. IsTask(T)
    BY <2>1, TasksAssumption DEF TasksAssumption
  <2>3. OperatorsFit(T, lOps)
    BY <2>1, <2>2, RelaxedOperatorsFit
  <2>4. SupportersAreValid
    BY MidSupports
  <2>5. HmaxIsValid
    <3>1. \A f \in FactsOf(T) : Hmax(T, lCost, lState)[f] = IF lHmax[f] = -1 THEN INFTY ELSE Least({lHmax[f], INFTY})
      BY <2>1, <2>2, <2>3, HmaxHolds
    <3>2. QED
      BY <3>1 DEF HmaxIsValid
  <2>6. \A k \in DOMAIN lCuts : IsLandmark(T, lState, lCuts[k][1])
    BY <2>1 DEF CutsHold
  <2>7. \A o \in OpsOf(T) : lCost[o] <= T.ops[o].cost /\ ChargeOf(lCuts, o) <= T.ops[o].cost
    BY <2>1, <2>2, CutsBound
  <2>8. GoalDistance[lTask][lState] < INFTY => lTotal <= GoalDistance[lTask][lState]
    BY <2>1, <2>7, PartitionBounds
  <2>9. QED
    BY <2>4, <2>5, <2>6, <2>7, <2>8
<1>2. QED
  BY <1>1, LmCutHolds, PTL

-----------------------------------------------------------------------------
(* Cartesian sets and the operators between them.                          *)

Cartesian(T) ==
  {a \in [Vars(T) -> SUBSET Nat] : \A v \in Vars(T) : a[v] # {} /\ \A d \in a[v] : d < T.dom[v]}

\* Some state of a is led into b by operator o.
Links(T, o, a, b) ==
  \A v \in Vars(T) : /\ Pre(T.ops[o], v) \subseteq a[v] /\ Post(T.ops[o], v) \subseteq b[v]
                     /\ Post(T.ops[o], v) = {} => a[v] \cap b[v] # {}

IsPlain(T) == IsTask(T) /\ IsConsistent(T) /\ ~ has_conditional_effects(T)

LEMMA PreIs ==
  ASSUME NEW T, IsPlain(T), NEW o \in OpsOf(T), NEW v \in Vars(T)
  PROVE  Pre(T.ops[o], v) = {} \/ \E d \in Nat : d < T.dom[v] /\ Pre(T.ops[o], v) = {d}
<1>1. IsTask(T) /\ OneValueEach(Range(T.ops[o].pre)) /\ Range(T.ops[o].pre) \subseteq FactsOf(T)
  BY OperatorIs DEF IsPlain, IsConsistent
<1>2. SUFFICES ASSUME NEW d \in Pre(T.ops[o], v)
               PROVE  d \in Nat /\ d < T.dom[v] /\ \A e \in Pre(T.ops[o], v) : e = d
  OBVIOUS
<1>3. PICK f \in Range(T.ops[o].pre) : f[1] = v /\ f[2] = d
  BY <1>2 DEF Pre
<1>4. f[2] \in Nat /\ f[2] < T.dom[f[1]]
  BY <1>1, FactIs
<1>5. ASSUME NEW e \in Pre(T.ops[o], v)
      PROVE  e = d
  <2>1. PICK g \in Range(T.ops[o].pre) : g[1] = v /\ g[2] = e
    BY DEF Pre
  <2>2. QED
    BY <1>1, <1>3, <2>1 DEF OneValueEach
<1>6. QED
  BY <1>3, <1>4, <1>5

LEMMA PostIs ==
  ASSUME NEW T, IsPlain(T), NEW o \in OpsOf(T), NEW v \in Vars(T)
  PROVE  /\ Writes(T.ops[o], v) = {} => Post(T.ops[o], v) = Pre(T.ops[o], v)
         /\ Writes(T.ops[o], v) # {} => Post(T.ops[o], v) = {Written(T.ops[o], v)}
         /\ Post(T.ops[o], v) = {} \/ \E d \in Nat : d < T.dom[v] /\ Post(T.ops[o], v) = {d}
         /\ Post(T.ops[o], v) = {} => Pre(T.ops[o], v) = {}
<1>1. Post(T.ops[o], v) = IF Writes(T.ops[o], v) = {} THEN Pre(T.ops[o], v) ELSE {Written(T.ops[o], v)}
  BY DEF Post, Writes, Written
<1>2. ASSUME Writes(T.ops[o], v) # {}
      PROVE  Written(T.ops[o], v) \in Nat /\ Written(T.ops[o], v) < T.dom[v]
  <2>1. IsTask(T) /\ <<v, Written(T.ops[o], v)>> \in FactsOf(T)
    BY <1>2, WrittenIs, OperatorIs DEF IsPlain
  <2>2. QED
    BY <2>1, FactIs
<1>3. QED
  BY <1>1, <1>2, PreIs

LEMMA ApplicableIs ==
  ASSUME NEW T, IsPlain(T), NEW o \in OpsOf(T), NEW s \in StatesOf(T)
  PROVE  is_applicable(T.ops[o], s) <=> \A v \in Vars(T) : Pre(T.ops[o], v) \subseteq {s[v]}
<1>1. IsTask(T) /\ Range(T.ops[o].pre) \subseteq FactsOf(T)
  BY OperatorIs DEF IsPlain
<1>2. ASSUME is_applicable(T.ops[o], s), NEW v \in Vars(T)
      PROVE  Pre(T.ops[o], v) \subseteq {s[v]}
  BY <1>2 DEF is_applicable, Holds, Pre
<1>3. ASSUME \A v \in Vars(T) : Pre(T.ops[o], v) \subseteq {s[v]}
      PROVE  is_applicable(T.ops[o], s)
  <2>1. ASSUME NEW f \in Range(T.ops[o].pre)
        PROVE  s[f[1]] = f[2]
    <3>1. f[1] \in Vars(T)
      BY <1>1, FactIs
    <3>2. f[2] \in Pre(T.ops[o], f[1])
      BY DEF Pre
    <3>3. QED
      BY <1>3, <3>1, <3>2
  <2>2. QED
    BY <2>1 DEF is_applicable, Holds
<1>4. QED
  BY <1>2, <1>3

LEMMA StepIs ==
  ASSUME NEW T, IsPlain(T), NEW o \in OpsOf(T), NEW s \in StatesOf(T), is_applicable(T.ops[o], s), NEW v \in Vars(T)
  PROVE  /\ Post(T.ops[o], v) \subseteq {successor(T.ops[o], s)[v]}
         /\ Post(T.ops[o], v) = {} => successor(T.ops[o], s)[v] = s[v]
<1> DEFINE r == successor(T.ops[o], s)
           pre == Pre(T.ops[o], v)
           post == Post(T.ops[o], v)
           w == Writes(T.ops[o], v)
           d == Written(T.ops[o], v)
<1>1. IsTask(T) /\ ~ has_conditional_effects(T)
  BY DEF IsPlain
<1>2. pre \subseteq {s[v]}
  BY ApplicableIs
<1>3. r[v] = IF w = {} THEN s[v] ELSE d
  BY <1>1, SuccessorIs
<1>4. (w = {} => post = pre) /\ (w # {} => post = {d}) /\ (post = {} => pre = {})
  BY PostIs
<1> HIDE DEF pre, post, w, d, r
<1>5. post \subseteq {r[v]} /\ (post = {} => r[v] = s[v])
  BY <1>2, <1>3, <1>4
<1>6. QED
  BY <1>5 DEF post, r

LEMMA LinksAre ==
  ASSUME NEW T, IsPlain(T), NEW o \in OpsOf(T), NEW a \in Cartesian(T), NEW b \in Cartesian(T)
  PROVE  Links(T, o, a, b) <=>
           \E s \in StatesOf(T) : /\ is_applicable(T.ops[o], s)
                                  /\ includes(a, s) /\ includes(b, successor(T.ops[o], s))
<1>1. StatesOf(T) = {s \in [Vars(T) -> Nat] : \A v \in Vars(T) : s[v] < T.dom[v]}
  BY StatesAre DEF IsPlain
<1>2. /\ DOMAIN a = Vars(T) /\ DOMAIN b = Vars(T)
      /\ \A v \in Vars(T) : /\ a[v] # {} /\ \A d \in a[v] : d \in Nat /\ d < T.dom[v]
                            /\ b[v] # {} /\ \A d \in b[v] : d \in Nat /\ d < T.dom[v]
  BY DEF Cartesian
<1>3. ASSUME NEW s \in StatesOf(T), is_applicable(T.ops[o], s), includes(a, s), includes(b, successor(T.ops[o], s))
      PROVE  Links(T, o, a, b)
  <2>1. ASSUME NEW v \in Vars(T)
        PROVE  /\ Pre(T.ops[o], v) \subseteq a[v] /\ Post(T.ops[o], v) \subseteq b[v]
               /\ Post(T.ops[o], v) = {} => a[v] \cap b[v] # {}
    <3>1. s[v] \in a[v] /\ successor(T.ops[o], s)[v] \in b[v]
      BY <1>2, <1>3 DEF includes
    <3>2. /\ Pre(T.ops[o], v) \subseteq {s[v]}
          /\ Post(T.ops[o], v) \subseteq {successor(T.ops[o], s)[v]}
          /\ Post(T.ops[o], v) = {} => successor(T.ops[o], s)[v] = s[v]
      BY <1>3, ApplicableIs, StepIs
    <3>3. QED
      BY <3>1, <3>2
  <2>2. QED
    BY <2>1 DEF Links
<1>4. ASSUME Links(T, o, a, b)
      PROVE  \E s \in StatesOf(T) : /\ is_applicable(T.ops[o], s)
                                    /\ includes(a, s) /\ includes(b, successor(T.ops[o], s))
  <2> DEFINE Fits(v, d) == /\ d \in a[v] /\ Pre(T.ops[o], v) \subseteq {d}
                           /\ Post(T.ops[o], v) = {} => d \in b[v]
             s == [v \in Vars(T) |-> CHOOSE d \in Nat : Fits(v, d)]
  <2>1. ASSUME NEW v \in Vars(T)
        PROVE  s[v] \in Nat /\ Fits(v, s[v])
    <3>1. /\ Pre(T.ops[o], v) \subseteq a[v] /\ Post(T.ops[o], v) \subseteq b[v]
          /\ Post(T.ops[o], v) = {} => a[v] \cap b[v] # {}
      BY <1>4 DEF Links
    <3>2. \E d \in Nat : Fits(v, d)
      <4>1. CASE Pre(T.ops[o], v) # {}
        <5>1. PICK d \in Nat : Pre(T.ops[o], v) = {d}
          BY <4>1, PreIs
        <5>2. Post(T.ops[o], v) # {}
          BY <4>1, PostIs
        <5>3. Fits(v, d)
          BY <3>1, <5>1, <5>2
        <5>4. QED
          BY <5>3
      <4>2. CASE Pre(T.ops[o], v) = {} /\ Post(T.ops[o], v) # {}
        BY <1>2, <4>2
      <4>3. CASE Post(T.ops[o], v) = {}
        <5>1. Pre(T.ops[o], v) = {}
          BY <4>3, PostIs
        <5>2. PICK d \in a[v] : d \in b[v]
          BY <3>1, <4>3
        <5>3. QED
          BY <1>2, <5>1, <5>2
      <4>4. QED
        BY <4>1, <4>2, <4>3
    <3> HIDE DEF Fits
    <3>3. QED
      BY <3>2
  <2>2. s \in StatesOf(T)
    <3>1. s \in [Vars(T) -> Nat]
      BY <2>1
    <3>2. \A v \in Vars(T) : s[v] < T.dom[v]
      BY <1>2, <2>1
    <3> HIDE DEF s
    <3>3. QED
      BY <1>1, <3>1, <3>2
  <2> HIDE DEF s
  <2>3. is_applicable(T.ops[o], s)
    BY <2>1, <2>2, ApplicableIs
  <2>4. includes(a, s)
    BY <1>2, <2>1 DEF includes
  <2>5. ASSUME NEW v \in Vars(T)
        PROVE  successor(T.ops[o], s)[v] \in b[v]
    <3>1. /\ Post(T.ops[o], v) \subseteq {successor(T.ops[o], s)[v]}
          /\ Post(T.ops[o], v) = {} => successor(T.ops[o], s)[v] = s[v]
      BY <2>2, <2>3, StepIs
    <3>2. Post(T.ops[o], v) \subseteq b[v]
      BY <1>4 DEF Links
    <3>3. CASE Post(T.ops[o], v) = {}
      BY <2>1, <3>1, <3>3
    <3>4. CASE Post(T.ops[o], v) # {}
      BY <3>1, <3>2, <3>4
    <3>5. QED
      BY <3>3, <3>4
  <2>6. includes(b, successor(T.ops[o], s))
    BY <1>2, <2>5 DEF includes
  <2>7. QED
    BY <2>2, <2>3, <2>4, <2>6
<1>5. QED
  BY <1>3, <1>4

-----------------------------------------------------------------------------
(* Transitions after a split.                                              *)

LinksIn(T, A, B) == {x \in A \X OpsOf(T) \X B : Links(T, x[2], x[1], x[3])}

\* Two parts of a, which differ only in their values of one variable.
Halves(T, a, var, v1, v2) ==
  /\ a \in Cartesian(T) /\ v1 \in Cartesian(T) /\ v2 \in Cartesian(T) /\ var \in Vars(T)
  /\ \A u \in Vars(T) \ {var} : v1[u] = a[u] /\ v2[u] = a[u]
  /\ v1[var] \cup v2[var] = a[var] /\ v1[var] \cap v2[var] = {}

LEMMA SplitIs ==
  ASSUME NEW T, NEW a \in Cartesian(T), NEW var \in Vars(T), NEW w, w \subseteq a[var], w # {}, w # a[var]
  PROVE  Halves(T, a, var, split(a, var, w)[1], split(a, var, w)[2])
<1> DEFINE v1 == [a EXCEPT ![var] = a[var] \ w]
           v2 == [a EXCEPT ![var] = w]
<1>1. split(a, var, w)[1] = v1 /\ split(a, var, w)[2] = v2
  BY DEF split
<1>2. a \in [Vars(T) -> SUBSET Nat] /\ \A v \in Vars(T) : a[v] # {} /\ \A d \in a[v] : d < T.dom[v]
  BY DEF Cartesian
<1>3. v1 \in [Vars(T) -> SUBSET Nat] /\ v2 \in [Vars(T) -> SUBSET Nat]
  BY <1>2
<1>4. /\ v1[var] = a[var] \ w /\ v2[var] = w
      /\ \A u \in Vars(T) \ {var} : v1[u] = a[u] /\ v2[u] = a[u]
  BY <1>2
<1> HIDE DEF v1, v2
<1>5. v1 \in Cartesian(T)
  <2>1. ASSUME NEW v \in Vars(T)
        PROVE  v1[v] # {} /\ \A d \in v1[v] : d < T.dom[v]
    <3>1. CASE v = var
      BY <1>2, <1>4, <3>1
    <3>2. CASE v # var
      BY <1>2, <1>4, <3>2
    <3>3. QED
      BY <3>1, <3>2
  <2>2. QED
    BY <1>3, <2>1 DEF Cartesian
<1>6. v2 \in Cartesian(T)
  <2>1. ASSUME NEW v \in Vars(T)
        PROVE  v2[v] # {} /\ \A d \in v2[v] : d < T.dom[v]
    <3>1. CASE v = var
      BY <1>2, <1>4, <3>1
    <3>2. CASE v # var
      BY <1>2, <1>4, <3>2
    <3>3. QED
      BY <3>1, <3>2
  <2>2. QED
    BY <1>3, <2>1 DEF Cartesian
<1>7. v1[var] \cup v2[var] = a[var] /\ v1[var] \cap v2[var] = {}
  BY <1>4
<1>8. QED
  BY <1>1, <1>4, <1>5, <1>6, <1>7 DEF Halves

\* p is a part of a.
IsHalf(T, a, var, p) ==
  /\ var \in Vars(T) /\ \A u \in Vars(T) \ {var} : p[u] = a[u]
  /\ p[var] \subseteq a[var] /\ p[var] # {}

LEMMA HalvesAre ==
  ASSUME NEW T, NEW a, NEW var, NEW v1, NEW v2, Halves(T, a, var, v1, v2), NEW w \in {v1, v2}
  PROVE  IsHalf(T, a, var, w) /\ w \in Cartesian(T) /\ v1 # v2 /\ w # a
<1>1. v1[var] # {} /\ v2[var] # {} /\ w \in Cartesian(T)
  BY DEF Halves, Cartesian
<1>2. QED
  BY <1>1 DEF Halves, IsHalf

LEMMA LinkInto ==
  ASSUME NEW T, NEW o, NEW a, NEW b, NEW var, NEW p, IsHalf(T, a, var, p)
  PROVE  Links(T, o, b, p) <=>
           /\ Links(T, o, b, a) /\ Post(T.ops[o], var) \subseteq p[var]
           /\ Post(T.ops[o], var) = {} => b[var] \cap p[var] # {}
<1> DEFINE L(v, c) == /\ Pre(T.ops[o], v) \subseteq b[v] /\ Post(T.ops[o], v) \subseteq c[v]
                      /\ Post(T.ops[o], v) = {} => b[v] \cap c[v] # {}
<1>1. \A c : Links(T, o, b, c) <=> \A v \in Vars(T) : L(v, c)
  BY DEF Links
<1>2. \A u \in Vars(T) \ {var} : L(u, p) <=> L(u, a)
  BY DEF IsHalf
<1>3. L(var, p) <=> L(var, a) /\ Post(T.ops[o], var) \subseteq p[var] /\ (Post(T.ops[o], var) = {} => b[var] \cap p[var] # {})
  BY DEF IsHalf
<1>4. var \in Vars(T)
  BY DEF IsHalf
<1> HIDE DEF L
<1>5. Links(T, o, b, p) <=> (\A u \in Vars(T) \ {var} : L(u, a)) /\ L(var, p)
  BY <1>1, <1>2, <1>4
<1>6. Links(T, o, b, a) <=> (\A u \in Vars(T) \ {var} : L(u, a)) /\ L(var, a)
  BY <1>1, <1>4
<1>7. QED
  BY <1>3, <1>5, <1>6

LEMMA LinkFrom ==
  ASSUME NEW T, NEW o, NEW a, NEW c, NEW var, NEW p, IsHalf(T, a, var, p)
  PROVE  Links(T, o, p, c) <=>
           /\ Links(T, o, a, c) /\ Pre(T.ops[o], var) \subseteq p[var]
           /\ Post(T.ops[o], var) = {} => p[var] \cap c[var] # {}
<1> DEFINE L(v, b) == /\ Pre(T.ops[o], v) \subseteq b[v] /\ Post(T.ops[o], v) \subseteq c[v]
                      /\ Post(T.ops[o], v) = {} => b[v] \cap c[v] # {}
<1>1. \A b : Links(T, o, b, c) <=> \A v \in Vars(T) : L(v, b)
  BY DEF Links
<1>2. \A u \in Vars(T) \ {var} : L(u, p) <=> L(u, a)
  BY DEF IsHalf
<1>3. L(var, p) <=> L(var, a) /\ Pre(T.ops[o], var) \subseteq p[var] /\ (Post(T.ops[o], var) = {} => p[var] \cap c[var] # {})
  BY DEF IsHalf
<1>4. var \in Vars(T)
  BY DEF IsHalf
<1> HIDE DEF L
<1>5. Links(T, o, p, c) <=> (\A u \in Vars(T) \ {var} : L(u, a)) /\ L(var, p)
  BY <1>1, <1>2, <1>4
<1>6. Links(T, o, a, c) <=> (\A u \in Vars(T) \ {var} : L(u, a)) /\ L(var, a)
  BY <1>1, <1>4
<1>7. QED
  BY <1>3, <1>5, <1>6

\* What the three rewirings make of one transition.
IncomingOf(T, x, v1, v2, var) ==
  LET post == Post(T.ops[x[2]], var) IN
  IF post # {} THEN {<<x[1], x[2], IF post \subseteq v1[var] THEN v1 ELSE v2>>}
  ELSE {<<x[1], x[2], w>> : w \in {y \in {v1, v2} : x[1][var] \cap y[var] # {}}}

OutgoingOf(T, x, v1, v2, var) ==
  LET pre == Pre(T.ops[x[2]], var) post == Post(T.ops[x[2]], var) IN
  IF post = {} THEN {<<w, x[2], x[3]>> : w \in {y \in {v1, v2} : x[3][var] \cap y[var] # {}}}
  ELSE IF pre = {} THEN {<<v1, x[2], x[3]>>, <<v2, x[2], x[3]>>}
  ELSE {<<IF pre \subseteq v1[var] THEN v1 ELSE v2, x[2], x[3]>>}

LoopsOf(T, x, v1, v2, var) ==
  LET part(values) == IF values \subseteq v1[var] THEN v1 ELSE v2
      pre == Pre(T.ops[x[2]], var) post == Post(T.ops[x[2]], var) IN
  IF pre # {} THEN {<<part(pre), x[2], part(post)>>}
  ELSE {<<w, x[2], IF post = {} THEN w ELSE part(post)>> : w \in {v1, v2}}

LEMMA RewireIs ==
  ASSUME NEW T, NEW trans, NEW a, NEW v1, NEW v2, NEW var
  PROVE  /\ rewire_incoming_transitions(T, trans, a, v1, v2, var) =
              UNION {IncomingOf(T, x, v1, v2, var) : x \in {y \in trans : y[3] = a /\ y[1] # a}}
         /\ rewire_outgoing_transitions(T, trans, a, v1, v2, var) =
              UNION {OutgoingOf(T, x, v1, v2, var) : x \in {y \in trans : y[1] = a /\ y[3] # a}}
         /\ rewire_loops(T, trans, a, v1, v2, var) =
              UNION {LoopsOf(T, x, v1, v2, var) : x \in {y \in trans : y[1] = a /\ y[3] = a}}
<1>1. rewire_incoming_transitions(T, trans, a, v1, v2, var) =
              UNION {IncomingOf(T, x, v1, v2, var) : x \in {y \in trans : y[3] = a /\ y[1] # a}}
  BY Zenon DEF rewire_incoming_transitions, IncomingOf
<1>2. rewire_outgoing_transitions(T, trans, a, v1, v2, var) =
              UNION {OutgoingOf(T, x, v1, v2, var) : x \in {y \in trans : y[1] = a /\ y[3] # a}}
  BY Zenon DEF rewire_outgoing_transitions, OutgoingOf
<1>3. rewire_loops(T, trans, a, v1, v2, var) =
              UNION {LoopsOf(T, x, v1, v2, var) : x \in {y \in trans : y[1] = a /\ y[3] = a}}
  BY Zenon DEF rewire_loops, LoopsOf
<1>4. QED
  BY <1>1, <1>2, <1>3

LEMMA IncomingOfIs ==
  ASSUME NEW T, IsPlain(T), NEW a, NEW v1, NEW v2, NEW var, Halves(T, a, var, v1, v2),
         NEW b, NEW o \in OpsOf(T), Links(T, o, b, a), NEW x
  PROVE  x \in IncomingOf(T, <<b, o, a>>, v1, v2, var) <=>
           \E w \in {v1, v2} : x = <<b, o, w>> /\ Links(T, o, b, w)
<1> DEFINE post == Post(T.ops[o], var)
<1>1. ASSUME NEW w \in {v1, v2}
      PROVE  Links(T, o, b, w) <=> post \subseteq w[var] /\ (post = {} => b[var] \cap w[var] # {})
  <2>1. IsHalf(T, a, var, w)
    BY HalvesAre
  <2>2. QED
    BY <2>1, LinkInto
<1>2. post = {} \/ \E d : post = {d}
  <2>1. var \in Vars(T)
    BY DEF Halves
  <2>2. Post(T.ops[o], var) = {} \/ \E d \in Nat : Post(T.ops[o], var) = {d}
    <3>1. Post(T.ops[o], var) = {} \/ \E d \in Nat : d < T.dom[var] /\ Post(T.ops[o], var) = {d}
      BY <2>1, PostIs
    <3>2. QED
      BY <3>1
  <2>3. QED
    BY <2>2
<1>3. post \subseteq v1[var] \cup v2[var] /\ v1[var] \cap v2[var] = {}
  BY DEF Links, Halves
<1>4. IncomingOf(T, <<b, o, a>>, v1, v2, var) =
        IF post # {} THEN {<<b, o, IF post \subseteq v1[var] THEN v1 ELSE v2>>}
        ELSE {<<b, o, w>> : w \in {y \in {v1, v2} : b[var] \cap y[var] # {}}}
  BY DEF IncomingOf
<1> HIDE DEF post
<1>5. CASE post = {}
  BY <1>1, <1>4, <1>5
<1>6. CASE post # {}
  <2>1. PICK d : post = {d}
    BY <1>2, <1>6
  <2>2. CASE d \in v1[var]
    <3>1. Links(T, o, b, v1) /\ ~ Links(T, o, b, v2) /\ post \subseteq v1[var]
      BY <1>1, <1>3, <2>1, <2>2
    <3>2. QED
      BY <1>4, <1>6, <3>1
  <2>3. CASE d \notin v1[var]
    <3>1. Links(T, o, b, v2) /\ ~ Links(T, o, b, v1) /\ ~ (post \subseteq v1[var])
      BY <1>1, <1>3, <2>1, <2>3
    <3>2. QED
      BY <1>4, <1>6, <3>1
  <2>4. QED
    BY <2>2, <2>3
<1>7. QED
  BY <1>5, <1>6

LEMMA OutgoingOfIs ==
  ASSUME NEW T, IsPlain(T), NEW a, NEW v1, NEW v2, NEW var, Halves(T, a, var, v1, v2),
         NEW c, NEW o \in OpsOf(T), Links(T, o, a, c), NEW x
  PROVE  x \in OutgoingOf(T, <<a, o, c>>, v1, v2, var) <=>
           \E w \in {v1, v2} : x = <<w, o, c>> /\ Links(T, o, w, c)
<1> DEFINE post == Post(T.ops[o], var)
           pre == Pre(T.ops[o], var)
<1>1. ASSUME NEW w \in {v1, v2}
      PROVE  Links(T, o, w, c) <=> pre \subseteq w[var] /\ (post = {} => w[var] \cap c[var] # {})
  <2>1. IsHalf(T, a, var, w)
    BY HalvesAre
  <2>2. QED
    BY <2>1, LinkFrom
<1>2. (pre = {} \/ \E d : pre = {d}) /\ (post = {} => pre = {})
  <2>1. var \in Vars(T)
    BY DEF Halves
  <2>2. Post(T.ops[o], var) = {} \/ \E d \in Nat : d < T.dom[var] /\ Post(T.ops[o], var) = {d}
    BY <2>1, PostIs
  <2>3. Pre(T.ops[o], var) = {} \/ \E d \in Nat : d < T.dom[var] /\ Pre(T.ops[o], var) = {d}
    BY <2>1, PreIs
  <2>4. Post(T.ops[o], var) = {} => Pre(T.ops[o], var) = {}
    BY <2>1, PostIs
  <2> HIDE DEF post, pre
  <2>5. QED
    BY <2>2, <2>3, <2>4 DEF post, pre
<1>3. pre \subseteq v1[var] \cup v2[var] /\ v1[var] \cap v2[var] = {}
  BY DEF Links, Halves
<1>4. OutgoingOf(T, <<a, o, c>>, v1, v2, var) =
        IF post = {} THEN {<<w, o, c>> : w \in {y \in {v1, v2} : c[var] \cap y[var] # {}}}
        ELSE IF pre = {} THEN {<<v1, o, c>>, <<v2, o, c>>}
        ELSE {<<IF pre \subseteq v1[var] THEN v1 ELSE v2, o, c>>}
  BY DEF OutgoingOf
<1> HIDE DEF post, pre
<1>5. CASE post = {}
  <2>1. \A w \in {v1, v2} : Links(T, o, w, c) <=> c[var] \cap w[var] # {}
    BY <1>1, <1>2, <1>5
  <2>2. QED
    BY <1>4, <1>5, <2>1
<1>6. CASE post # {} /\ pre = {}
  BY <1>1, <1>4, <1>6
<1>7. CASE post # {} /\ pre # {}
  <2>1. PICK d : pre = {d}
    BY <1>2, <1>7
  <2>2. CASE d \in v1[var]
    <3>1. Links(T, o, v1, c) /\ ~ Links(T, o, v2, c) /\ pre \subseteq v1[var]
      BY <1>1, <1>3, <1>7, <2>1, <2>2
    <3>2. QED
      BY <1>4, <1>7, <3>1
  <2>3. CASE d \notin v1[var]
    <3>1. Links(T, o, v2, c) /\ ~ Links(T, o, v1, c) /\ ~ (pre \subseteq v1[var])
      BY <1>1, <1>3, <1>7, <2>1, <2>3
    <3>2. QED
      BY <1>4, <1>7, <3>1
  <2>4. QED
    BY <2>2, <2>3
<1>8. QED
  BY <1>5, <1>6, <1>7

LEMMA LoopsOfIs ==
  ASSUME NEW T, IsPlain(T), NEW a, NEW v1, NEW v2, NEW var, Halves(T, a, var, v1, v2),
         NEW o \in OpsOf(T), Links(T, o, a, a), NEW x
  PROVE  x \in LoopsOf(T, <<a, o, a>>, v1, v2, var) <=>
           \E w, y \in {v1, v2} : x = <<w, o, y>> /\ Links(T, o, w, y)
<1> DEFINE post == Post(T.ops[o], var)
           pre == Pre(T.ops[o], var)
           part(values) == IF values \subseteq v1[var] THEN v1 ELSE v2
<1>1. \A w, y \in {v1, v2} : Links(T, o, w, y) <=>
        pre \subseteq w[var] /\ post \subseteq y[var] /\ (post = {} => w[var] \cap y[var] # {})
  <2> SUFFICES ASSUME NEW w \in {v1, v2}, NEW y \in {v1, v2}
               PROVE  Links(T, o, w, y) <=>
                        pre \subseteq w[var] /\ post \subseteq y[var] /\ (post = {} => w[var] \cap y[var] # {})
    OBVIOUS
  <2>1. IsHalf(T, a, var, w) /\ IsHalf(T, a, var, y)
    BY HalvesAre
  <2>2. Links(T, o, w, y) <=> Links(T, o, w, a) /\ post \subseteq y[var] /\ (post = {} => w[var] \cap y[var] # {})
    BY <2>1, LinkInto
  <2>3. Links(T, o, w, a) <=> pre \subseteq w[var] /\ (post = {} => w[var] \cap a[var] # {})
    BY <2>1, LinkFrom
  <2>4. w[var] \cap a[var] # {}
    BY <2>1 DEF IsHalf
  <2> HIDE DEF post, pre
  <2>5. QED
    BY <2>2, <2>3, <2>4
<1>2. (pre = {} \/ \E d : pre = {d}) /\ (post = {} \/ \E d : post = {d}) /\ (post = {} => pre = {})
  <2>1. var \in Vars(T)
    BY DEF Halves
  <2>2. Post(T.ops[o], var) = {} \/ \E d \in Nat : d < T.dom[var] /\ Post(T.ops[o], var) = {d}
    BY <2>1, PostIs
  <2>3. Pre(T.ops[o], var) = {} \/ \E d \in Nat : d < T.dom[var] /\ Pre(T.ops[o], var) = {d}
    BY <2>1, PreIs
  <2>4. Post(T.ops[o], var) = {} => Pre(T.ops[o], var) = {}
    BY <2>1, PostIs
  <2> HIDE DEF post, pre
  <2>5. QED
    BY <2>2, <2>3, <2>4 DEF post, pre
<1>3. /\ pre \subseteq v1[var] \cup v2[var] /\ post \subseteq v1[var] \cup v2[var]
      /\ v1[var] \cap v2[var] = {}
  BY DEF Links, Halves
<1>4. v1[var] # {} /\ v2[var] # {}
  BY DEF Halves, Cartesian
<1>5. LoopsOf(T, <<a, o, a>>, v1, v2, var) =
        IF pre # {} THEN {<<part(pre), o, part(post)>>}
        ELSE {<<w, o, IF post = {} THEN w ELSE part(post)>> : w \in {v1, v2}}
  BY DEF LoopsOf
<1>6. ASSUME NEW values, \E d : values = {d}, values \subseteq v1[var] \cup v2[var]
      PROVE  part(values) \in {v1, v2} /\ \A w \in {v1, v2} : values \subseteq w[var] <=> w = part(values)
  BY <1>3, <1>6
<1> HIDE DEF post, pre, part
<1>7. CASE pre # {}
  <2>1. post # {}
    BY <1>2, <1>7
  <2>2. \A w, y \in {v1, v2} : Links(T, o, w, y) <=> w = part(pre) /\ y = part(post)
    BY <1>1, <1>2, <1>3, <1>6, <1>7, <2>1
  <2>3. part(pre) \in {v1, v2} /\ part(post) \in {v1, v2}
    BY <1>2, <1>3, <1>6, <1>7, <2>1
  <2>4. QED
    BY <1>5, <1>7, <2>2, <2>3
<1>8. CASE pre = {} /\ post # {}
  <2>1. part(post) \in {v1, v2} /\ \A w, y \in {v1, v2} : Links(T, o, w, y) <=> y = part(post)
    BY <1>1, <1>2, <1>3, <1>6, <1>8
  <2>2. QED
    BY <1>5, <1>8, <2>1
<1>9. CASE pre = {} /\ post = {}
  <2>1. \A w, y \in {v1, v2} : Links(T, o, w, y) <=> w = y
    BY <1>1, <1>3, <1>4, <1>9
  <2>2. QED
    BY <1>5, <1>9, <2>1
<1>10. QED
  BY <1>7, <1>8, <1>9

\* Rewiring keeps exactly the transitions there are.
LEMMA RewiredAre ==
  ASSUME NEW T, IsPlain(T), NEW S, NEW a \in S, NEW v1, NEW v2, NEW var, Halves(T, a, var, v1, v2)
  PROVE  LET R == (S \ {a}) \cup {v1, v2} IN
         rewire(T, LinksIn(T, S, S), a, v1, v2, var) = LinksIn(T, R, R)
<1> DEFINE trans == LinksIn(T, S, S)
           others == S \ {a}
           In == rewire_incoming_transitions(T, trans, a, v1, v2, var)
           Out == rewire_outgoing_transitions(T, trans, a, v1, v2, var)
           Loops == rewire_loops(T, trans, a, v1, v2, var)
<1>1. \A x : x \in In <=> \E y \in trans : y[3] = a /\ y[1] # a /\ x \in IncomingOf(T, y, v1, v2, var)
  <2>1. In = UNION {IncomingOf(T, x, v1, v2, var) : x \in {y \in trans : y[3] = a /\ y[1] # a}}
    BY RewireIs
  <2> HIDE DEF In, trans
  <2>2. QED
    BY <2>1
<1>2. \A x : x \in Out <=> \E y \in trans : y[1] = a /\ y[3] # a /\ x \in OutgoingOf(T, y, v1, v2, var)
  <2>1. Out = UNION {OutgoingOf(T, x, v1, v2, var) : x \in {y \in trans : y[1] = a /\ y[3] # a}}
    BY RewireIs
  <2> HIDE DEF Out, trans
  <2>2. QED
    BY <2>1
<1>3. \A x : x \in Loops <=> \E y \in trans : y[1] = a /\ y[3] = a /\ x \in LoopsOf(T, y, v1, v2, var)
  <2>1. Loops = UNION {LoopsOf(T, x, v1, v2, var) : x \in {y \in trans : y[1] = a /\ y[3] = a}}
    BY RewireIs
  <2> HIDE DEF Loops, trans
  <2>2. QED
    BY <2>1
<1>4. \A y : y \in trans <=> \E b \in S, o \in OpsOf(T), c \in S : y = <<b, o, c>> /\ Links(T, o, b, c)
  BY DEF LinksIn
<1>5. \A A, B : \A y : y \in LinksIn(T, A, B) <=> \E b \in A, o \in OpsOf(T), c \in B : y = <<b, o, c>> /\ Links(T, o, b, c)
  BY DEF LinksIn
<1>6. \A w \in {v1, v2} : \A o, b : (Links(T, o, b, w) => Links(T, o, b, a)) /\ (Links(T, o, w, b) => Links(T, o, a, b))
  BY HalvesAre, LinkInto, LinkFrom
<1> HIDE DEF trans, In, Out, Loops
<1>7. \A x : x \in In <=> \E b \in others, o \in OpsOf(T), w \in {v1, v2} : x = <<b, o, w>> /\ Links(T, o, b, w)
  <2>1. ASSUME NEW x, NEW y \in trans, y[3] = a, y[1] # a, x \in IncomingOf(T, y, v1, v2, var)
        PROVE  \E b \in others, o \in OpsOf(T), w \in {v1, v2} : x = <<b, o, w>> /\ Links(T, o, b, w)
    <3>1. PICK b \in S, o \in OpsOf(T), c \in S : y = <<b, o, c>> /\ Links(T, o, b, c)
      BY <1>4
    <3>2. c = a /\ b # a
      BY <2>1, <3>1
    <3>3. \E w \in {v1, v2} : x = <<b, o, w>> /\ Links(T, o, b, w)
      BY <2>1, <3>1, <3>2, IncomingOfIs
    <3>4. QED
      BY <3>2, <3>3
  <2>2. ASSUME NEW b \in others, NEW o \in OpsOf(T), NEW w \in {v1, v2}, Links(T, o, b, w)
        PROVE  <<b, o, w>> \in In
    <3>1. Links(T, o, b, a)
      BY <1>6, <2>2
    <3>2. <<b, o, a>> \in trans
      BY <1>4, <3>1
    <3>3. <<b, o, w>> \in IncomingOf(T, <<b, o, a>>, v1, v2, var)
      BY <2>2, <3>1, IncomingOfIs
    <3>4. QED
      BY <1>1, <3>2, <3>3
  <2>3. QED
    BY <1>1, <2>1, <2>2
<1>8. \A x : x \in Out <=> \E w \in {v1, v2}, o \in OpsOf(T), c \in others : x = <<w, o, c>> /\ Links(T, o, w, c)
  <2>1. ASSUME NEW x, NEW y \in trans, y[1] = a, y[3] # a, x \in OutgoingOf(T, y, v1, v2, var)
        PROVE  \E w \in {v1, v2}, o \in OpsOf(T), c \in others : x = <<w, o, c>> /\ Links(T, o, w, c)
    <3>1. PICK b \in S, o \in OpsOf(T), c \in S : y = <<b, o, c>> /\ Links(T, o, b, c)
      BY <1>4
    <3>2. b = a /\ c # a
      BY <2>1, <3>1
    <3>3. \E w \in {v1, v2} : x = <<w, o, c>> /\ Links(T, o, w, c)
      BY <2>1, <3>1, <3>2, OutgoingOfIs
    <3>4. QED
      BY <3>2, <3>3
  <2>2. ASSUME NEW w \in {v1, v2}, NEW o \in OpsOf(T), NEW c \in others, Links(T, o, w, c)
        PROVE  <<w, o, c>> \in Out
    <3>1. Links(T, o, a, c)
      BY <1>6, <2>2
    <3>2. <<a, o, c>> \in trans
      BY <1>4, <3>1
    <3>3. <<w, o, c>> \in OutgoingOf(T, <<a, o, c>>, v1, v2, var)
      BY <2>2, <3>1, OutgoingOfIs
    <3>4. QED
      BY <1>2, <3>2, <3>3
  <2>3. QED
    BY <1>2, <2>1, <2>2
<1>9. \A x : x \in Loops <=> \E w \in {v1, v2}, o \in OpsOf(T), y \in {v1, v2} : x = <<w, o, y>> /\ Links(T, o, w, y)
  <2>1. ASSUME NEW x, NEW y \in trans, y[1] = a, y[3] = a, x \in LoopsOf(T, y, v1, v2, var)
        PROVE  \E w \in {v1, v2}, o \in OpsOf(T), c \in {v1, v2} : x = <<w, o, c>> /\ Links(T, o, w, c)
    <3>1. PICK b \in S, o \in OpsOf(T), c \in S : y = <<b, o, c>> /\ Links(T, o, b, c)
      BY <1>4
    <3>2. b = a /\ c = a
      BY <2>1, <3>1
    <3>3. \E w, z \in {v1, v2} : x = <<w, o, z>> /\ Links(T, o, w, z)
      BY <2>1, <3>1, <3>2, LoopsOfIs
    <3>4. QED
      BY <3>3
  <2>2. ASSUME NEW w \in {v1, v2}, NEW o \in OpsOf(T), NEW c \in {v1, v2}, Links(T, o, w, c)
        PROVE  <<w, o, c>> \in Loops
    <3>1. Links(T, o, a, a)
      BY <1>6, <2>2
    <3>2. <<a, o, a>> \in trans
      BY <1>4, <3>1
    <3>3. <<w, o, c>> \in LoopsOf(T, <<a, o, a>>, v1, v2, var)
      BY <2>2, <3>1, LoopsOfIs
    <3>4. QED
      BY <1>3, <3>2, <3>3
  <2> DEFINE InLoop(x) == \E w \in {v1, v2}, o \in OpsOf(T), y \in {v1, v2} : x = <<w, o, y>> /\ Links(T, o, w, y)
  <2>3. ASSUME NEW x, x \in Loops
        PROVE  InLoop(x)
    <3>1. PICK y \in trans : y[1] = a /\ y[3] = a /\ x \in LoopsOf(T, y, v1, v2, var)
      BY <1>3, <2>3
    <3>2. QED
      BY <2>1, <3>1
  <2>4. ASSUME NEW x, InLoop(x)
        PROVE  x \in Loops
    <3>1. PICK w \in {v1, v2}, o \in OpsOf(T), y \in {v1, v2} : x = <<w, o, y>> /\ Links(T, o, w, y)
      BY <2>4
    <3>2. QED
      BY <2>2, <3>1
  <2>5. QED
    BY <2>3, <2>4
<1>10. rewire(T, trans, a, v1, v2, var) = {x \in trans : x[1] # a /\ x[3] # a} \cup In \cup Out \cup Loops
  BY DEF rewire, In, Out, Loops
<1> DEFINE R == others \cup {v1, v2}
<1>11. \A x : x \in {z \in trans : z[1] # a /\ z[3] # a} <=>
         \E b \in others, o \in OpsOf(T), c \in others : x = <<b, o, c>> /\ Links(T, o, b, c)
  BY <1>4
<1>12. \A x : x \in LinksIn(T, R, R) <=> \E b \in R, o \in OpsOf(T), c \in R : x = <<b, o, c>> /\ Links(T, o, b, c)
  BY <1>5
<1>13. \A x : x \in rewire(T, trans, a, v1, v2, var) <=> x \in LinksIn(T, R, R)
  <2> HIDE DEF R, others
  <2>1. \A b : b \in R <=> b \in others \/ b \in {v1, v2}
    BY DEF R
  <2>2. QED
    BY <1>7, <1>8, <1>9, <1>10, <1>11, <1>12, <2>1
<1>14. QED
  BY <1>13 DEF trans

-----------------------------------------------------------------------------
(* Abstractions.                                                           *)

\* Every state is in one of the sets.
Partitions(T, S) == \A s \in StatesOf(T) : \E a \in S : \A b \in S : includes(b, s) <=> b = a

Abstractions(T) ==
  [init : Cartesian(T), goals : SUBSET Cartesian(T),
   trans : SUBSET (Cartesian(T) \X OpsOf(T) \X Cartesian(T)),
   h : UNION {[S -> 0 .. INFTY] : S \in SUBSET Cartesian(T)}]

IsAbstraction(T, abs) ==
  /\ abs \in Abstractions(T)
  /\ IsFiniteSet(States(abs)) /\ abs.init \in States(abs) /\ abs.goals \subseteq States(abs)
  /\ includes(abs.init, InitialState(T))
  /\ Partitions(T, States(abs))
  /\ abs.trans = LinksIn(T, States(abs), States(abs))

LEMMA AbstractionIs ==
  ASSUME NEW T, NEW abs, IsAbstraction(T, abs)
  PROVE  /\ States(abs) \subseteq Cartesian(T) /\ abs.h \in [States(abs) -> 0 .. INFTY]
         /\ abs.init \in States(abs) /\ abs.goals \subseteq States(abs)
         /\ \A x : x \in abs.trans <=>
              \E a \in States(abs), o \in OpsOf(T), b \in States(abs) : x = <<a, o, b>> /\ Links(T, o, a, b)
<1>1. \E S \in SUBSET Cartesian(T) : abs.h \in [S -> 0 .. INFTY]
  BY DEF IsAbstraction, Abstractions
<1>2. PICK S \in SUBSET Cartesian(T) : abs.h \in [S -> 0 .. INFTY]
  BY <1>1
<1>3. States(abs) = S
  BY <1>2 DEF States
<1>4. abs.trans = LinksIn(T, S, S)
  BY <1>3 DEF IsAbstraction
<1>5. \A x : x \in LinksIn(T, S, S) <=> \E a \in S, o \in OpsOf(T), b \in S : x = <<a, o, b>> /\ Links(T, o, a, b)
  BY DEF LinksIn
<1>6. QED
  BY <1>2, <1>3, <1>4, <1>5 DEF IsAbstraction

\* The steps of an abstraction at some costs.
AbstractSteps(abs, costs) == {<<x[1], x[3], costs[x[2]]>> : x \in {y \in abs.trans : costs[y[2]] < INFTY}}

LEMMA AbstractStepsIn ==
  ASSUME NEW T, NEW abs, IsAbstraction(T, abs), NEW costs \in [OpsOf(T) -> Nat]
  PROVE  StepsIn(States(abs), AbstractSteps(abs, costs))
<1>1. ASSUME NEW e \in AbstractSteps(abs, costs)
      PROVE  e[1] \in States(abs) /\ e[2] \in States(abs) /\ e[3] \in Nat
  <2>1. PICK x \in abs.trans : e = <<x[1], x[3], costs[x[2]]>>
    BY DEF AbstractSteps
  <2>2. PICK a \in States(abs), o \in OpsOf(T), b \in States(abs) : x = <<a, o, b>>
    BY AbstractionIs
  <2>3. QED
    BY <2>1, <2>2
<1>2. QED
  BY <1>1 DEF StepsIn

LEMMA AbstractDistancesAre ==
  ASSUME NEW T, NEW abs, IsAbstraction(T, abs), NEW costs \in [OpsOf(T) -> Nat], NEW targets
  PROVE  LET d == AbstractDistances(abs, costs, targets) IN
         /\ d \in [States(abs) -> 0 .. INFTY]
         /\ \A a \in States(abs) \cap targets : d[a] = 0
         /\ \A x \in abs.trans : d[x[1]] <= d[x[3]] + costs[x[2]]
<1> DEFINE S == States(abs)
           steps == AbstractSteps(abs, costs)
           d == AbstractDistances(abs, costs, targets)
<1>1. d = Distances(S, steps, targets)
  BY DEF AbstractDistances, AbstractSteps
<1>2. StepsIn(S, steps) /\ IsFiniteSet(S)
  BY AbstractStepsIn DEF IsAbstraction
<1> HIDE DEF d, S, steps
<1>3. d \in [S -> 0 .. INFTY] /\ (\A a \in S \cap targets : d[a] = 0) /\ NoShorter(d, steps)
  BY <1>1, <1>2, DistancesAre DEF Justified
<1>4. ASSUME NEW x \in abs.trans
      PROVE  d[x[1]] <= d[x[3]] + costs[x[2]]
  <2>1. PICK a \in S, o \in OpsOf(T), b \in S : x = <<a, o, b>>
    BY AbstractionIs DEF S
  <2>2. d[a] \in 0 .. INFTY /\ d[b] \in 0 .. INFTY /\ costs[o] \in Nat
    BY <1>3
  <2>3. CASE costs[o] < INFTY /\ d[b] < INFTY
    <3>1. <<a, b, costs[o]>> \in steps
      BY <2>1, <2>3 DEF steps, AbstractSteps
    <3>2. d[a] <= costs[o] + d[b]
      BY <1>3, <2>3, <3>1 DEF NoShorter
    <3>3. QED
      BY <2>1, <2>2, <3>2
  <2>4. CASE ~ (costs[o] < INFTY /\ d[b] < INFTY)
    BY <2>1, <2>2, <2>4, InftyIs
  <2>5. QED
    BY <2>3, <2>4
<1>5. QED
  BY <1>3, <1>4 DEF d, S

\* Whatever falls by no more than the costs, and is 0 at the targets, is a
\* lower bound.
LEMMA AbstractDistancesAbove ==
  ASSUME NEW T, NEW abs, IsAbstraction(T, abs), NEW costs \in [OpsOf(T) -> Nat], NEW targets,
         NEW phi \in [States(abs) -> 0 .. INFTY], \A a \in States(abs) \cap targets : phi[a] = 0,
         \A x \in abs.trans : phi[x[1]] <= phi[x[3]] + costs[x[2]],
         NEW a \in States(abs)
  PROVE  phi[a] <= AbstractDistances(abs, costs, targets)[a]
<1> DEFINE S == States(abs)
           steps == AbstractSteps(abs, costs)
           d == AbstractDistances(abs, costs, targets)
<1>1. d = Distances(S, steps, targets)
  BY DEF AbstractDistances, AbstractSteps
<1>2. StepsIn(S, steps) /\ IsFiniteSet(S)
  BY AbstractStepsIn DEF IsAbstraction
<1>3. \A e \in steps : phi[e[1]] <= e[3] + phi[e[2]]
  <2>1. ASSUME NEW e \in steps
        PROVE  phi[e[1]] <= e[3] + phi[e[2]]
    <3>1. PICK x \in abs.trans : e = <<x[1], x[3], costs[x[2]]>>
      BY DEF AbstractSteps
    <3>2. PICK b \in States(abs), o \in OpsOf(T), c \in States(abs) : x = <<b, o, c>>
      BY AbstractionIs
    <3>3. phi[b] <= phi[c] + costs[o] /\ phi[b] \in Nat /\ phi[c] \in Nat /\ costs[o] \in Nat
      BY <3>2
    <3>4. QED
      BY <3>1, <3>2, <3>3
  <2>2. QED
    BY <2>1
<1>4. d \in [S -> 0 .. INFTY]
  BY AbstractDistancesAre
<1>5. phi \in [S -> Nat] /\ phi[a] \in 0 .. INFTY /\ a \in S /\ \A b \in S \cap targets : phi[b] = 0
  OBVIOUS
<1> HIDE DEF d, steps, S
<1>6. CASE d[a] < INFTY
  <2>1. Distances(S, steps, targets)[a] < INFTY
    BY <1>1, <1>6
  <2>2. phi[a] <= Distances(S, steps, targets)[a]
    BY <1>2, <1>3, <1>5, <2>1, PotentialBelow
  <2>3. QED
    BY <1>1, <2>2 DEF d
<1>7. CASE ~ (d[a] < INFTY)
  <2>1. d[a] \in 0 .. INFTY
    BY <1>4, <1>5
  <2>2. QED
    BY <1>5, <1>7, <2>1, InftyIs DEF d
<1>8. QED
  BY <1>6, <1>7 DEF d

-----------------------------------------------------------------------------
(* One split.                                                              *)

\* A state of the abstraction is split so that some of its states stay in
\* each part, and the initial state in the first.
CanSplit(T, abs, a, v, w) ==
  /\ a \in States(abs) /\ v \in Vars(T) /\ w \subseteq a[v] /\ w # {} /\ w # a[v]
  /\ a = abs.init => InitialState(T)[v] \notin w

LEMMA PartsAre ==
  ASSUME NEW T, NEW abs, IsAbstraction(T, abs), NEW a, NEW v, NEW w, CanSplit(T, abs, a, v, w)
  PROVE  LET p == split(a, v, w) r == refine(T, abs, a, v, w) IN
         /\ Halves(T, a, v, p[1], p[2]) /\ Range(p) = {p[1], p[2]}
         /\ p[1][v] = a[v] \ w /\ p[2][v] = w /\ p[1] # p[2]
         /\ States(r) = (States(abs) \ {a}) \cup {p[1], p[2]}
<1> DEFINE p == split(a, v, w)
           r == refine(T, abs, a, v, w)
<1>1. a \in Cartesian(T)
  BY AbstractionIs DEF CanSplit
<1>2. Halves(T, a, v, p[1], p[2])
  BY <1>1, SplitIs DEF CanSplit
<1>3. Range(p) = {p[1], p[2]}
  BY DEF split, Range
<1>4. DOMAIN a = Vars(T) /\ v \in Vars(T)
  BY <1>1 DEF Cartesian, CanSplit
<1>5. p[1][v] = a[v] \ w /\ p[2][v] = w
  BY <1>4 DEF split
<1>6. States(r) = (States(abs) \ {a}) \cup {p[1], p[2]}
  BY <1>3 DEF refine, States
<1>7. p[1] # p[2]
  BY <1>2, HalvesAre
<1>8. QED
  BY <1>2, <1>3, <1>5, <1>6, <1>7

\* What is in a is in one of the parts.
LEMMA InParts ==
  ASSUME NEW T, NEW a, NEW v, NEW v1, NEW v2, Halves(T, a, v, v1, v2), NEW s
  PROVE  /\ includes(v1, s) <=> includes(a, s) /\ s[v] \in v1[v]
         /\ includes(v2, s) <=> includes(a, s) /\ s[v] \in v2[v]
<1>1. DOMAIN a = Vars(T) /\ DOMAIN v1 = Vars(T) /\ DOMAIN v2 = Vars(T) /\ v \in Vars(T)
  BY DEF Halves, Cartesian
<1>2. QED
  BY <1>1 DEF Halves, includes

LEMMA PartitionKept ==
  ASSUME NEW T, NEW S, Partitions(T, S), NEW a \in S, NEW v, NEW v1, NEW v2, Halves(T, a, v, v1, v2)
  PROVE  Partitions(T, (S \ {a}) \cup {v1, v2})
<1> DEFINE R == (S \ {a}) \cup {v1, v2}
<1>1. ASSUME NEW s \in StatesOf(T)
      PROVE  \E b \in R : \A c \in R : includes(c, s) <=> c = b
  <2>1. PICK b \in S : \A c \in S : includes(c, s) <=> c = b
    BY DEF Partitions
  <2>2. /\ includes(v1, s) <=> includes(a, s) /\ s[v] \in v1[v]
        /\ includes(v2, s) <=> includes(a, s) /\ s[v] \in v2[v]
    BY InParts
  <2>3. CASE b # a
    BY <2>1, <2>2, <2>3
  <2>4. CASE b = a
    <3>1. v \in DOMAIN a /\ v1[v] \cup v2[v] = a[v] /\ v1[v] \cap v2[v] = {}
      BY DEF Halves, Cartesian
    <3>2. includes(a, s) /\ \A c \in S \ {a} : ~ includes(c, s)
      BY <2>1, <2>4
    <3>3. s[v] \in a[v]
      BY <3>1, <3>2 DEF includes
    <3>4. CASE s[v] \in v1[v]
      BY <2>2, <3>1, <3>2, <3>4
    <3>5. CASE s[v] \in v2[v]
      BY <2>2, <3>1, <3>2, <3>5
    <3>6. QED
      BY <3>1, <3>3, <3>4, <3>5
  <2>5. QED
    BY <2>3, <2>4
<1>2. QED
  BY <1>1 DEF Partitions

\* Some state is in a Cartesian set.
LEMMA CartesianInhabited ==
  ASSUME NEW T, IsTask(T), NEW a \in Cartesian(T)
  PROVE  \E s \in StatesOf(T) : includes(a, s)
<1> DEFINE s == [v \in Vars(T) |-> CHOOSE d \in Nat : d \in a[v]]
<1>1. DOMAIN a = Vars(T) /\ \A v \in Vars(T) : a[v] \subseteq Nat /\ a[v] # {} /\ \A d \in a[v] : d < T.dom[v]
  BY DEF Cartesian
<1>2. \A v \in Vars(T) : s[v] \in Nat /\ s[v] \in a[v]
  BY <1>1
<1>3. s \in [Vars(T) -> Nat]
  BY <1>2
<1> HIDE DEF s
<1>4. s \in StatesOf(T)
  BY <1>1, <1>2, <1>3, StatesAre
<1>5. includes(a, s)
  BY <1>1, <1>2 DEF includes
<1>6. QED
  BY <1>4, <1>5

\* The parts are not there before.
LEMMA PartsAreNew ==
  ASSUME NEW T, IsTask(T), NEW S, Partitions(T, S), NEW a \in S, NEW v, NEW v1, NEW v2, Halves(T, a, v, v1, v2),
         NEW p \in {v1, v2}
  PROVE  p \notin S
<1>1. p \in Cartesian(T) /\ p # a
  BY HalvesAre
<1>2. PICK s \in StatesOf(T) : includes(p, s)
  BY <1>1, CartesianInhabited
<1>3. includes(a, s)
  BY <1>2, InParts
<1>4. QED
  BY <1>1, <1>2, <1>3 DEF Partitions

\* The state that a state is a part of.
Parent(abs, a, x) == IF x \in States(abs) THEN x ELSE a

LEMMA RefineIs ==
  ASSUME NEW T, IsPlain(T), NEW abs, IsAbstraction(T, abs), NEW a, NEW v, NEW w, CanSplit(T, abs, a, v, w)
  PROVE  LET p == split(a, v, w) r == refine(T, abs, a, v, w) IN
         /\ IsAbstraction(T, r)
         /\ a \in abs.goals => r.goals = (abs.goals \ {a}) \cup {p[2]}
         /\ a \notin abs.goals => r.goals = abs.goals
         /\ p[1] \notin States(abs) /\ p[2] \notin States(abs)
         /\ \A x \in States(r) : r.h[x] = abs.h[Parent(abs, a, x)]
<1> DEFINE S == States(abs)
           p == split(a, v, w)
           p1 == p[1]
           p2 == p[2]
           r == refine(T, abs, a, v, w)
           R == (S \ {a}) \cup {p1, p2}
           h == [x \in (S \ {a}) \cup Range(p) |-> IF x \in Range(p) THEN abs.h[a] ELSE abs.h[x]]
           C == Cartesian(T)
<1>1. /\ Halves(T, a, v, p1, p2) /\ Range(p) = {p1, p2}
      /\ p1[v] = a[v] \ w /\ p2[v] = w /\ p1 # p2
      /\ States(r) = R
  BY PartsAre
<1>2. /\ S \subseteq C /\ abs.h \in [S -> 0 .. INFTY]
      /\ abs.init \in S /\ abs.goals \subseteq S /\ a \in S
  BY AbstractionIs DEF CanSplit
<1>3. r = [init |-> IF a = abs.init THEN p1 ELSE abs.init,
           goals |-> IF a \in abs.goals THEN (abs.goals \ {a}) \cup {p2} ELSE abs.goals,
           trans |-> rewire(T, abs.trans, a, p1, p2, v),
           h |-> h]
  BY DEF refine
<1>4. p1 \in C /\ p2 \in C
  BY <1>1 DEF Halves
<1> HIDE DEF p, p1, p2
<1>5. h = [x \in R |-> IF x \in {p1, p2} THEN abs.h[a] ELSE abs.h[x]]
  BY <1>1
<1>6. h \in [R -> 0 .. INFTY]
  <2> HIDE DEF h, S
  <2>1. \A x \in R : (IF x \in {p1, p2} THEN abs.h[a] ELSE abs.h[x]) \in 0 .. INFTY
    BY <1>2
  <2> HIDE DEF R
  <2>2. QED
    BY <1>5, <2>1
<1>7. rewire(T, abs.trans, a, p1, p2, v) = LinksIn(T, R, R)
  <2>1. abs.trans = LinksIn(T, S, S)
    BY DEF IsAbstraction
  <2> HIDE DEF S, h, r
  <2>2. QED
    BY <1>1, <1>2, <2>1, RewiredAre
<1>8. r.init = (IF a = abs.init THEN p1 ELSE abs.init) /\ r.h = h
      /\ r.goals = (IF a \in abs.goals THEN (abs.goals \ {a}) \cup {p2} ELSE abs.goals)
      /\ r.trans = LinksIn(T, R, R)
  BY <1>3, <1>7
<1> HIDE DEF h, r, S
<1>9. R \subseteq C
  BY <1>2, <1>4
<1>10. LinksIn(T, R, R) \subseteq C \X OpsOf(T) \X C
  BY <1>9 DEF LinksIn
<1>11. r \in Abstractions(T)
  <2>1. r.init \in C /\ r.goals \subseteq C
    BY <1>2, <1>4, <1>8
  <2> HIDE DEF R, C
  <2>2. h \in UNION {[X -> 0 .. INFTY] : X \in SUBSET C}
    BY <1>6, <1>9
  <2>3. r = [init |-> r.init, goals |-> r.goals, trans |-> LinksIn(T, R, R), h |-> h]
    BY <1>3, <1>7, <1>8
  <2>4. QED
    BY <1>10, <2>1, <2>2, <2>3 DEF Abstractions, C
<1>12. IsFiniteSet(R)
  <2>1. IsFiniteSet(S)
    BY DEF IsAbstraction, S
  <2>2. IsFiniteSet(S \ {a})
    BY <2>1, FS_RemoveElement
  <2>3. IsFiniteSet({p1, p2})
    <3>1. IsFiniteSet({p1}) /\ {p1} \cup {p2} = {p1, p2}
      BY FS_Singleton
    <3>2. QED
      BY <3>1, FS_AddElement
  <2>4. QED
    BY <2>2, <2>3, FS_Union
<1>13. r.init \in R /\ r.goals \subseteq R
  BY <1>2, <1>8
<1>14. includes(r.init, InitialState(T))
  <2>1. includes(abs.init, InitialState(T))
    BY DEF IsAbstraction
  <2>2. CASE a = abs.init
    <3>1. r.init = p1 /\ InitialState(T)[v] \notin w
      BY <1>8, <2>2 DEF CanSplit
    <3>2. v \in DOMAIN a
      BY <1>1 DEF Halves, Cartesian
    <3>3. InitialState(T)[v] \in a[v]
      BY <2>1, <2>2, <3>2 DEF includes
    <3>4. InitialState(T)[v] \in p1[v]
      BY <1>1, <3>1, <3>3
    <3>5. QED
      BY <1>1, <2>1, <2>2, <3>1, <3>4, InParts
  <2>3. CASE a # abs.init
    BY <1>8, <2>1, <2>3
  <2>4. QED
    BY <2>2, <2>3
<1>15. Partitions(T, R)
  <2>1. Partitions(T, S)
    BY DEF IsAbstraction, S
  <2>2. QED
    BY <1>1, <1>2, <2>1, PartitionKept
<1>16. IsAbstraction(T, r)
  <2> HIDE DEF R
  <2>1. QED
    BY <1>1, <1>8, <1>11, <1>12, <1>13, <1>14, <1>15 DEF IsAbstraction
<1>17. p1 \notin S /\ p2 \notin S
  <2>1. IsTask(T) /\ Partitions(T, S)
    BY DEF IsPlain, IsAbstraction, S
  <2>2. QED
    BY <1>1, <1>2, <2>1, PartsAreNew
<1>18. ASSUME NEW x \in States(r)
       PROVE  r.h[x] = abs.h[Parent(abs, a, x)]
  <2>1. x \in R
    BY <1>1
  <2>2. h[x] = IF x \in {p1, p2} THEN abs.h[a] ELSE abs.h[x]
    <3> HIDE DEF R
    <3>1. QED
      BY <1>5, <2>1
  <2>3. x \in {p1, p2} <=> x \notin S
    BY <1>17, <2>1
  <2>4. r.h[x] = IF x \in S THEN abs.h[x] ELSE abs.h[a]
    BY <1>8, <2>2, <2>3
  <2>5. QED
    BY <2>4 DEF Parent, S
<1>19. QED
  BY <1>8, <1>16, <1>17, <1>18 DEF r, p, p1, p2, S

\* The distances that guide the search never exceed those to the goals.
Guides(abs, costs) == \A a \in States(abs) : abs.h[a] <= AbstractDistances(abs, costs, abs.goals)[a]

LEMMA RefineGuides ==
  ASSUME NEW T, IsPlain(T), NEW abs, IsAbstraction(T, abs), NEW a, NEW v, NEW w, CanSplit(T, abs, a, v, w),
         NEW costs \in [OpsOf(T) -> Nat], Guides(abs, costs)
  PROVE  Guides(refine(T, abs, a, v, w), costs)
<1> DEFINE S == States(abs)
           p == split(a, v, w)
           r == refine(T, abs, a, v, w)
           R == States(r)
           of(x) == Parent(abs, a, x)
           d == AbstractDistances(abs, costs, abs.goals)
           phi == [x \in R |-> d[of(x)]]
<1>1. /\ Halves(T, a, v, p[1], p[2]) /\ R = (S \ {a}) \cup {p[1], p[2]}
      /\ a \in S
  BY PartsAre DEF CanSplit
<1>2. /\ IsAbstraction(T, r)
      /\ a \in abs.goals => r.goals = (abs.goals \ {a}) \cup {p[2]}
      /\ a \notin abs.goals => r.goals = abs.goals
      /\ p[1] \notin S /\ p[2] \notin S
      /\ \A x \in R : r.h[x] = abs.h[of(x)]
  BY RefineIs
<1>3. /\ d \in [S -> 0 .. INFTY]
      /\ \A x \in S \cap abs.goals : d[x] = 0
      /\ \A x \in abs.trans : d[x[1]] <= d[x[3]] + costs[x[2]]
  BY AbstractDistancesAre
<1>4. abs.goals \subseteq S /\ abs.h \in [S -> 0 .. INFTY]
  BY AbstractionIs
<1>11. \A x : (x \in S => of(x) = x) /\ (x \notin S => of(x) = a)
  BY DEF Parent
<1> HIDE DEF S, r, R, p, d, of
<1>5. \A x \in R : of(x) \in S
  BY <1>1, <1>11
<1>6. phi \in [R -> 0 .. INFTY] /\ \A x \in R : phi[x] = d[of(x)]
  BY <1>3, <1>5
<1>7. \A x \in R \cap r.goals : phi[x] = 0
  <2>1. \A x \in R \cap r.goals : of(x) \in abs.goals
    BY <1>1, <1>2, <1>4, <1>11
  <2>2. QED
    BY <1>3, <1>5, <1>6, <2>1
<1>8. ASSUME NEW x \in r.trans
      PROVE  phi[x[1]] <= phi[x[3]] + costs[x[2]]
  <2>1. PICK b \in R, o \in OpsOf(T), c \in R : x = <<b, o, c>> /\ Links(T, o, b, c)
    BY <1>2, AbstractionIs DEF R
  <2>2. \A y \in {p[1], p[2]} : IsHalf(T, a, v, y)
    BY <1>1, HalvesAre
  <2>3. Links(T, o, of(b), c)
    BY <1>1, <1>11, <2>1, <2>2, LinkFrom
  <2>4. Links(T, o, of(b), of(c))
    BY <1>1, <1>11, <2>1, <2>2, <2>3, LinkInto
  <2>5. of(b) \in S /\ of(c) \in S
    BY <1>5
  <2>6. <<of(b), o, of(c)>> \in abs.trans
    BY <2>4, <2>5, AbstractionIs DEF S
  <2>7. d[of(b)] <= d[of(c)] + costs[o]
    BY <1>3, <2>6
  <2>8. QED
    BY <1>6, <2>1, <2>7
<1>9. ASSUME NEW x \in R
      PROVE  r.h[x] <= AbstractDistances(r, costs, r.goals)[x]
  <2> DEFINE e == AbstractDistances(r, costs, r.goals)
  <2>1. phi[x] <= e[x]
    <3> HIDE DEF phi
    <3>1. QED
      BY <1>2, <1>6, <1>7, <1>8, AbstractDistancesAbove DEF R
  <2>2. e \in [R -> 0 .. INFTY]
    BY <1>2, AbstractDistancesAre DEF R
  <2>3. abs.h[of(x)] <= d[of(x)]
    BY <1>5 DEF Guides, S, d
  <2>4. abs.h[of(x)] \in 0 .. INFTY /\ d[of(x)] \in 0 .. INFTY /\ e[x] \in 0 .. INFTY
    BY <1>3, <1>4, <1>5, <2>2
  <2>5. r.h[x] = abs.h[of(x)] /\ phi[x] = d[of(x)]
    BY <1>2, <1>6
  <2> HIDE DEF e, phi
  <2>6. r.h[x] <= e[x]
    BY <2>1, <2>3, <2>4, <2>5, InftyIs
  <2>7. QED
    BY <2>6 DEF e
<1>10. QED
  BY <1>9 DEF Guides, R, r

-----------------------------------------------------------------------------
(* Facts that are reachable before one of them.                            *)

LEMMA PossibleIs ==
  ASSUME NEW T, IsTask(T), NEW last, NEW facts \in SUBSET FactsOf(T)
  PROVE  LET F == PossiblyBefore(T, last, facts) IN
         facts \subseteq F /\ F \subseteq FactsOf(T) /\ AddedBefore(T, last, F) \subseteq F
<1> DEFINE P == FactsOf(T)
           next == [F \in SUBSET P |-> AddedBefore(T, last, F)]
           Body(f) == [F \in SUBSET P |-> IF F \cup AddedBefore(T, last, F) = F THEN F
                                          ELSE f[F \cup AddedBefore(T, last, F)]]
           before == CHOOSE f : f = Body(f)
           A == {F \in SUBSET P : facts \subseteq F}
<1>1. \A F \in SUBSET P : next[F] = AddedBefore(T, last, F) /\ next[F] \in SUBSET P
  <2>1. \A o \in Range(T.ops) : \A e \in Range(o.effs) : e.fact \in P
    <3>1. ASSUME NEW o \in Range(T.ops)
          PROVE  \A e \in Range(o.effs) : e.fact \in P
      <4>1. PICK i \in OpsOf(T) : o = T.ops[i]
        BY DEF Range, OpsOf
      <4>2. QED
        BY <4>1, EffectIs
    <3>2. QED
      BY <3>1
  <2>2. \A F : AddedBefore(T, last, F) \subseteq P
    BY <2>1 DEF AddedBefore
  <2>3. QED
    BY <2>2
<1>2. next \in [SUBSET P -> SUBSET P] /\ IsFiniteSet(P)
  <2>1. \A F \in SUBSET P : AddedBefore(T, last, F) \in SUBSET P
    BY <1>1
  <2> HIDE DEF P
  <2>2. IsFiniteSet(P)
    BY FactsFinite DEF P
  <2>3. QED
    BY <2>1, <2>2
<1> HIDE DEF next, P
<1>3. PICK f \in [SUBSET P -> SUBSET P] : Closes(P, next, f)
  BY <1>2, ClosureIs
<1>4. f = Body(f)
  <2>1. f = [F \in SUBSET P |-> f[F]]
    OBVIOUS
  <2>2. \A F \in SUBSET P : f[F] = IF F \cup AddedBefore(T, last, F) = F THEN F
                                   ELSE f[F \cup AddedBefore(T, last, F)]
    BY <1>1, <1>3 DEF Closes
  <2>3. QED
    BY <2>1, <2>2
<1>5. before = Body(before)
  <2> HIDE DEF Body
  <2>1. QED
    BY <1>4
<1> HIDE DEF before
<1>6. Closes(P, next, before)
  <2>1. \A F \in SUBSET P : before[F] = IF F \cup AddedBefore(T, last, F) = F THEN F
                                        ELSE before[F \cup AddedBefore(T, last, F)]
    BY <1>5
  <2>2. QED
    BY <1>1, <2>1 DEF Closes
<1>7. A \in SUBSET SUBSET P /\ facts \in A /\ \A F \in A : F \cup next[F] \in A
  <2>1. facts \in SUBSET P
    BY DEF P
  <2>2. QED
    BY <1>1, <2>1
<1>8. before[facts] \in A /\ next[before[facts]] \subseteq before[facts]
  <2> HIDE DEF A
  <2>1. QED
    BY <1>2, <1>6, <1>7, ClosureIs
<1>9. PossiblyBefore(T, last, facts) = before[facts]
  BY DEF PossiblyBefore, before, P
<1>10. AddedBefore(T, last, before[facts]) \subseteq before[facts]
  BY <1>1, <1>8
<1>11. QED
  BY <1>8, <1>9, <1>10 DEF P

LEMMA InitialStateIs ==
  ASSUME NEW T, IsTask(T)
  PROVE  InitialState(T) \in StatesOf(T) /\ FactsIn(InitialState(T)) \in SUBSET FactsOf(T)
<1> DEFINE s == InitialState(T)
<1>1. \A v \in Vars(T) : T.dom[v] \in Nat /\ T.dom[v] > 1
  BY DEF IsTask, Vars
<1>2. s \in [Vars(T) -> Nat] /\ \A v \in Vars(T) : s[v] = 0
  BY DEF InitialState
<1>3. s \in StatesOf(T)
  <2> HIDE DEF s
  <2>1. QED
    BY <1>1, <1>2, StatesAre
<1>4. ASSUME NEW f \in FactsIn(s)
      PROVE  f \in FactsOf(T)
  <2>1. PICK v \in Vars(T) : f = <<v, 0>>
    BY <1>2 DEF FactsIn
  <2>2. 0 \in 0 .. T.dom[v] - 1
    BY <1>1
  <2>3. QED
    BY <2>1, <2>2 DEF FactsOf
<1>5. QED
  BY <1>3, <1>4

LEMMA RelaxedPossibleIs ==
  ASSUME NEW T, IsTask(T), NEW last \in FactsOf(T)
  PROVE  LET F == PossiblyBefore(T, last, FactsIn(InitialState(T))) IN
         /\ get_relaxed_possible_before(T, last) = F \cup {last}
         /\ F \subseteq FactsOf(T) /\ AddedBefore(T, last, F) \subseteq F
         /\ \A v \in Vars(T) : <<v, 0>> \in F
<1> DEFINE s == InitialState(T)
           F == PossiblyBefore(T, last, FactsIn(s))
<1>1. FactsIn(s) \subseteq F /\ F \subseteq FactsOf(T) /\ AddedBefore(T, last, F) \subseteq F
  BY InitialStateIs, PossibleIs
<1>2. \A v \in Vars(T) : <<v, 0>> \in FactsIn(s)
  BY DEF FactsIn, InitialState
<1>3. get_relaxed_possible_before(T, last) = F \cup {last}
  BY DEF get_relaxed_possible_before
<1>4. QED
  BY <1>1, <1>2, <1>3

-----------------------------------------------------------------------------
(* The first abstraction.                                                  *)

LEMMA EverythingIs ==
  ASSUME NEW T, IsTask(T)
  PROVE  /\ Everything(T) \in Cartesian(T)
         /\ \A s \in StatesOf(T) : includes(Everything(T), s)
<1> DEFINE all == Everything(T)
<1>1. \A v \in Vars(T) : T.dom[v] \in Nat /\ T.dom[v] > 1
  BY DEF IsTask, Vars
<1>2. DOMAIN all = Vars(T) /\ \A v \in Vars(T) : all[v] = 0 .. T.dom[v] - 1
  BY DEF Everything
<1>3. all \in Cartesian(T)
  <2>1. \A v \in Vars(T) : all[v] \subseteq Nat /\ 0 \in all[v] /\ \A d \in all[v] : d < T.dom[v]
    BY <1>1, <1>2
  <2>2. all = [v \in Vars(T) |-> all[v]]
    BY DEF Everything
  <2> HIDE DEF all
  <2>3. all \in [Vars(T) -> SUBSET Nat]
    BY <2>1, <2>2
  <2>4. QED
    BY <2>1, <2>3 DEF Cartesian
<1>4. ASSUME NEW s \in StatesOf(T)
      PROVE  includes(all, s)
  <2>1. \A v \in Vars(T) : s[v] \in Nat /\ s[v] < T.dom[v]
    BY StatesAre
  <2>2. \A v \in Vars(T) : s[v] \in all[v]
    BY <1>1, <1>2, <2>1
  <2> HIDE DEF all
  <2>3. QED
    BY <1>2, <2>2 DEF includes
<1>5. QED
  BY <1>3, <1>4

LEMMA TrivialIs ==
  ASSUME NEW T, IsPlain(T)
  PROVE  LET abs == create_trivial_abstraction(T) IN
         /\ IsAbstraction(T, abs)
         /\ abs.init = Everything(T) /\ States(abs) = {Everything(T)} /\ abs.goals = {Everything(T)}
         /\ abs.h[Everything(T)] = 0
<1> DEFINE all == Everything(T)
           C == Cartesian(T)
           h == [x \in {all} |-> 0]
           trans == {<<all, o, all>> : o \in OpsOf(T)}
           abs == create_trivial_abstraction(T)
<1>1. IsTask(T) /\ all \in C /\ \A s \in StatesOf(T) : includes(all, s)
  BY EverythingIs DEF IsPlain
<1>2. abs = [init |-> all, goals |-> {all}, trans |-> trans, h |-> h]
  BY DEF create_trivial_abstraction
<1> HIDE DEF all, abs
<1>3. h \in [{all} -> 0 .. INFTY] /\ DOMAIN h = {all} /\ h[all] = 0
  BY InftyIs
<1>4. trans = LinksIn(T, {all}, {all})
  <2>1. ASSUME NEW o \in OpsOf(T)
        PROVE  Links(T, o, all, all)
    <3>1. ASSUME NEW v \in Vars(T)
          PROVE  /\ Pre(T.ops[o], v) \subseteq all[v] /\ Post(T.ops[o], v) \subseteq all[v]
                 /\ Post(T.ops[o], v) = {} => all[v] \cap all[v] # {}
      <4>1. T.dom[v] \in Nat /\ all[v] = 0 .. T.dom[v] - 1 /\ all[v] # {}
        BY <1>1, DomainIs DEF all, Everything, Cartesian
      <4>2. Pre(T.ops[o], v) = {} \/ \E d \in Nat : d < T.dom[v] /\ Pre(T.ops[o], v) = {d}
        BY PreIs
      <4>3. Post(T.ops[o], v) = {} \/ \E d \in Nat : d < T.dom[v] /\ Post(T.ops[o], v) = {d}
        BY PostIs
      <4>4. \A d \in Nat : d < T.dom[v] => d \in all[v]
        BY <4>1
      <4>5. QED
        BY <4>1, <4>2, <4>3, <4>4
    <3>2. QED
      BY <3>1 DEF Links
  <2>2. QED
    BY <2>1 DEF LinksIn
<1>5. abs \in Abstractions(T)
  <2>1. trans \subseteq C \X OpsOf(T) \X C
    BY <1>1
  <2>2. h \in UNION {[S -> 0 .. INFTY] : S \in SUBSET C}
    BY <1>1, <1>3
  <2> HIDE DEF h, trans
  <2>3. QED
    BY <1>1, <1>2, <2>1, <2>2 DEF Abstractions
<1>6. States(abs) = {all} /\ IsFiniteSet({all})
  BY <1>2, FS_Singleton DEF States
<1>7. Partitions(T, {all}) /\ includes(all, InitialState(T))
  BY <1>1, InitialStateIs DEF Partitions
<1> HIDE DEF h, trans
<1>8. IsAbstraction(T, abs)
  BY <1>2, <1>4, <1>5, <1>6, <1>7 DEF IsAbstraction
<1>9. QED
  BY <1>2, <1>3, <1>6, <1>8 DEF all, abs

-----------------------------------------------------------------------------
(* Sequences by their positions.                                           *)

\* What every step keeps holds for all elements.
LEMMA PrefixStays ==
  ASSUME NEW n \in Nat, NEW I, NEW f, f[0] \in I[0],
         \A i \in 1 .. n : f[i - 1] \in I[i - 1] => f[i] \in I[i]
  PROVE  \A i \in 0 .. n : f[i] \in I[i]
<1> DEFINE S == {i \in 0 .. n : f[i] \in I[i]}
<1>1. 0 \in S
  OBVIOUS
<1>2. \A i \in 0 .. n - 1 : i \in S => i + 1 \in S
  <2> SUFFICES ASSUME NEW i \in 0 .. n - 1, i \in S
               PROVE  i + 1 \in S
    OBVIOUS
  <2>1. i + 1 \in 1 .. n /\ i + 1 - 1 = i /\ f[i] \in I[i]
    OBVIOUS
  <2>2. f[i + 1] \in I[i + 1]
    BY <2>1
  <2>3. QED
    BY <2>1, <2>2
<1>3. \A i \in 0 .. n : i \in S
  <2> HIDE DEF S
  <2>1. QED
    BY <1>1, <1>2, Upward
<1>4. QED
  BY <1>3

\* There is a function that starts with a and goes on with a step that is only
\* known where it has been led to.
StepsInto(n, I, step) == \A i \in 1 .. n : \A x \in I[i - 1] : step[<<x, i>>] \in I[i]

HasPrefixFunctionIn(n, V, I, a, step) ==
  \E f \in [0 .. n -> V] : /\ f[0] = a
                           /\ \A i \in 1 .. n : f[i] = step[<<f[i - 1], i>>]
                           /\ \A i \in 0 .. n : f[i] \in I[i]

LEMMA PrefixExists ==
  ASSUME NEW n \in Nat, NEW V, NEW I \in [0 .. n -> SUBSET V], NEW a \in I[0], NEW step, StepsInto(n, I, step)
  PROVE  HasPrefixFunctionIn(n, V, I, a, step)
<1> DEFINE g == [y \in V \X (1 .. n) |-> IF y[1] \in I[y[2] - 1] THEN step[y] ELSE a]
<1>1. a \in V
  OBVIOUS
<1>2. ASSUME NEW x \in V, NEW i \in 1 .. n
      PROVE  g[<<x, i>>] \in V /\ (x \in I[i - 1] => g[<<x, i>>] = step[<<x, i>>] /\ g[<<x, i>>] \in I[i])
  <2>1. g[<<x, i>>] = IF x \in I[i - 1] THEN step[<<x, i>>] ELSE a
    OBVIOUS
  <2>2. I[i] \subseteq V
    OBVIOUS
  <2>3. x \in I[i - 1] => step[<<x, i>>] \in I[i]
    BY DEF StepsInto
  <2> HIDE DEF g
  <2>4. QED
    BY <1>1, <2>1, <2>2, <2>3
<1>3. g \in [V \X (1 .. n) -> V]
  <2>1. \A y \in V \X (1 .. n) : g[y] \in V
    <3> HIDE DEF g
    <3>1. QED
      BY <1>2
  <2>2. QED
    BY <2>1
<1> HIDE DEF g
<1>4. HasPrefixFunction(n, V, a, g)
  BY <1>1, <1>3, PrefixRecursion, Zenon
<1>5. PICK f \in [0 .. n -> V] : f[0] = a /\ \A i \in 1 .. n : f[i] = g[<<f[i - 1], i>>]
  BY <1>4, Zenon DEF HasPrefixFunction
<1>6. ASSUME NEW i \in 1 .. n, f[i - 1] \in I[i - 1]
      PROVE  f[i] = step[<<f[i - 1], i>>] /\ f[i] \in I[i]
  <2>1. f[i - 1] \in V /\ f[i] = g[<<f[i - 1], i>>]
    BY <1>5
  <2>2. QED
    BY <1>2, <1>6, <2>1
<1>7. \A i \in 0 .. n : f[i] \in I[i]
  BY <1>5, <1>6, PrefixStays
<1>8. \A i \in 1 .. n : f[i] = step[<<f[i - 1], i>>]
  BY <1>6, <1>7
<1>9. QED
  BY <1>5, <1>7, <1>8 DEF HasPrefixFunctionIn

(***************************************************************************)
(* Goals.                                                                  *)
(***************************************************************************)
\* A Cartesian set without states that can be reached before the only goal.
Beyond(T, goal, a) ==
  \E last \in goal : /\ goal = {last}
                     /\ \E v \in Vars(T) : \A d \in a[v] : <<v, d>> \notin get_relaxed_possible_before(T, last)

\* The goal states of an abstraction have all states with the goal, and states
\* with the goal unless they are beyond it.
Covers(T, goal, abs) == \A s \in StatesOf(T) : Holds(s, goal) => \E a \in abs.goals : includes(a, s)
GoalsHold(T, goal, abs) == \A a \in abs.goals : Beyond(T, goal, a) \/ \A f \in goal : f[2] \in a[f[1]]

Goals(T) == {F \in SUBSET FactsOf(T) : OneValueEach(F)}

LEMMA GoalSplit ==
  ASSUME NEW T, IsPlain(T), NEW goal \in Goals(T), NEW abs, IsAbstraction(T, abs),
         Covers(T, goal, abs), GoalsHold(T, goal, abs), NEW a \in abs.goals, NEW f \in goal,
         f[2] \in a[f[1]], a[f[1]] # {f[2]}, CanSplit(T, abs, a, f[1], {f[2]})
  PROVE  LET r == refine(T, abs, a, f[1], {f[2]}) IN Covers(T, goal, r) /\ GoalsHold(T, goal, r)
<1> DEFINE p == split(a, f[1], {f[2]})
           r == refine(T, abs, a, f[1], {f[2]})
           p2 == p[2]
<1>1. Halves(T, a, f[1], p[1], p2) /\ p2[f[1]] = {f[2]}
  BY PartsAre
<1>2. r.goals = (abs.goals \ {a}) \cup {p2}
  BY RefineIs
<1> HIDE DEF r
<1>3. \A s : includes(p2, s) <=> includes(a, s) /\ s[f[1]] \in p2[f[1]]
  BY <1>1, InParts
<1>4. \A u \in Vars(T) : p2[u] \subseteq a[u]
  BY <1>1 DEF Halves
<1>5. \A u \in Vars(T) \ {f[1]} : p2[u] = a[u]
  BY <1>1 DEF Halves
<1>6. \A g \in goal : g[1] \in Vars(T)
  BY FactIs DEF Goals, IsPlain
<1> HIDE DEF p, p2
<1>7. Covers(T, goal, r)
  <2>1. ASSUME NEW s \in StatesOf(T), Holds(s, goal)
        PROVE  \E b \in r.goals : includes(b, s)
    <3>1. PICK b \in abs.goals : includes(b, s)
      BY <2>1 DEF Covers
    <3>2. CASE b = a
      <4>1. s[f[1]] = f[2]
        BY <2>1 DEF Holds
      <4>2. includes(p2, s)
        BY <1>1, <1>3, <3>1, <3>2, <4>1
      <4>3. QED
        BY <1>2, <4>2
    <3>3. CASE b # a
      BY <1>2, <3>1, <3>3
    <3>4. QED
      BY <3>2, <3>3
  <2>2. QED
    BY <2>1 DEF Covers
<1>8. GoalsHold(T, goal, r)
  <2>1. Beyond(T, goal, p2) \/ \A g \in goal : g[2] \in p2[g[1]]
    <3>1. CASE Beyond(T, goal, a)
      BY <1>4, <3>1 DEF Beyond
    <3>2. CASE \A g \in goal : g[2] \in a[g[1]]
      <4>1. ASSUME NEW g \in goal
            PROVE  g[2] \in p2[g[1]]
        <5>1. CASE g[1] = f[1]
          <6>1. g = f
            BY <5>1 DEF Goals, OneValueEach
          <6>2. QED
            BY <1>1, <6>1
        <5>2. CASE g[1] # f[1]
          BY <1>5, <1>6, <3>2, <5>2
        <5>3. QED
          BY <5>1, <5>2
      <4>2. QED
        BY <4>1
    <3>3. QED
      BY <3>1, <3>2 DEF GoalsHold
  <2>2. QED
    BY <1>2, <2>1 DEF GoalsHold
<1>9. QED
  BY <1>7, <1>8 DEF r

\* A split of another state leaves them as they are.
LEMMA OtherSplit ==
  ASSUME NEW T, IsPlain(T), NEW goal, NEW abs, IsAbstraction(T, abs),
         Covers(T, goal, abs), GoalsHold(T, goal, abs), NEW a, NEW v, NEW w, CanSplit(T, abs, a, v, w),
         a \notin abs.goals
  PROVE  LET r == refine(T, abs, a, v, w) IN Covers(T, goal, r) /\ GoalsHold(T, goal, r)
<1>1. refine(T, abs, a, v, w).goals = abs.goals
  BY RefineIs
<1>2. QED
  BY <1>1 DEF Covers, GoalsHold

-----------------------------------------------------------------------------
(* Separating what cannot be reached before the only goal.                 *)

SeparatedAt(T, last, x, v) ==
  LET bad == bad_values(T, last, v) IN
  IF bad = {} \/ Cardinality(States(x)) >= MAX_ABSTRACT_STATES THEN x ELSE refine(T, x, x.init, v, bad)

\* The variables up to v have been looked at.
SeparatedUpTo(T, last, v, x) ==
  /\ IsAbstraction(T, x)
  /\ \A b \in States(x) : x.h[b] = 0 /\ (b = x.init \/ Beyond(T, {last}, b))
  /\ last[2] \in x.init[last[1]]
  /\ \A u \in Vars(T) : u > v => x.init[u] = 0 .. T.dom[u] - 1

LEMMA BadAre ==
  ASSUME NEW T, IsTask(T), NEW last \in FactsOf(T), NEW v \in Vars(T)
  PROVE  LET bad == bad_values(T, last, v) IN
         /\ bad \subseteq 0 .. T.dom[v] - 1 /\ 0 \notin bad
         /\ last[1] = v => last[2] \notin bad
         /\ \A d \in bad : <<v, d>> \notin get_relaxed_possible_before(T, last)
<1>1. <<v, 0>> \in get_relaxed_possible_before(T, last) /\ last \in get_relaxed_possible_before(T, last)
  BY RelaxedPossibleIs
<1>2. last = <<last[1], last[2]>>
  BY FactIs
<1>3. QED
  BY <1>1, <1>2 DEF bad_values

LEMMA SeparatedNext ==
  ASSUME NEW T, IsPlain(T), NEW last \in FactsOf(T), NEW v \in Vars(T),
         NEW x, SeparatedUpTo(T, last, v - 1, x)
  PROVE  SeparatedUpTo(T, last, v, SeparatedAt(T, last, x, v))
<1> DEFINE bad == bad_values(T, last, v)
           r == refine(T, x, x.init, v, bad)
           p == split(x.init, v, bad)
<1>1. IsTask(T) /\ v \in Nat /\ T.dom[v] \in Nat /\ \A u \in Vars(T) : u \in Nat
  BY DomainIs DEF IsPlain
<1>2. CASE bad = {} \/ Cardinality(States(x)) >= MAX_ABSTRACT_STATES
  <2>1. SeparatedAt(T, last, x, v) = x
    BY <1>2 DEF SeparatedAt
  <2>2. \A u \in Vars(T) : u > v => u > v - 1
    BY <1>1
  <2>3. QED
    BY <2>1, <2>2 DEF SeparatedUpTo
<1>3. CASE ~ (bad = {} \/ Cardinality(States(x)) >= MAX_ABSTRACT_STATES)
  <2>1. SeparatedAt(T, last, x, v) = r
    BY <1>3 DEF SeparatedAt
  <2>2. /\ bad \subseteq 0 .. T.dom[v] - 1 /\ 0 \notin bad
        /\ last[1] = v => last[2] \notin bad
        /\ \A d \in bad : <<v, d>> \notin get_relaxed_possible_before(T, last)
    BY <1>1, BadAre
  <2>3. IsAbstraction(T, x) /\ x.init \in States(x) /\ x.init[v] = 0 .. T.dom[v] - 1
    BY <1>1 DEF SeparatedUpTo, IsAbstraction
  <2>4. CanSplit(T, x, x.init, v, bad)
    <3>1. InitialState(T)[v] = 0
      BY DEF InitialState
    <3>2. 0 \in x.init[v]
      <4>1. T.dom[v] > 1
        BY <1>1 DEF IsTask, Vars
      <4>2. QED
        BY <1>1, <2>3, <4>1
    <3>3. bad # {}
      BY <1>3
    <3> HIDE DEF bad
    <3>4. QED
      BY <2>2, <2>3, <3>1, <3>2, <3>3 DEF CanSplit
  <2>5. /\ Halves(T, x.init, v, p[1], p[2]) /\ p[1][v] = x.init[v] \ bad /\ p[2][v] = bad
        /\ States(r) = (States(x) \ {x.init}) \cup {p[1], p[2]}
    <3> HIDE DEF bad
    <3>1. Halves(T, x.init, v, p[1], p[2])
      BY <2>3, <2>4, PartsAre
    <3>4. p[2][v] = bad
      BY <2>3, <2>4, PartsAre
    <3>5. p[1][v] = x.init[v] \ bad
      BY <3>1, <3>4 DEF Halves
    <3>2. States(r) = (States(x) \ {x.init}) \cup {p[1], p[2]}
      BY <2>3, <2>4, PartsAre
    <3>3. QED
      BY <3>1, <3>2, <3>4, <3>5
  <2>6. IsAbstraction(T, r) /\ \A b \in States(r) : r.h[b] = x.h[Parent(x, x.init, b)]
    BY <2>3, <2>4, RefineIs
  <2>7. r.init = p[1]
    BY DEF refine
  <2> HIDE DEF r, p, bad
  <2>8. \A b \in States(r) : r.h[b] = 0
    <3>1. \A b \in States(r) : Parent(x, x.init, b) \in States(x)
      BY <2>3 DEF Parent
    <3>2. QED
      BY <2>6, <3>1 DEF SeparatedUpTo
  <2>9. Beyond(T, {last}, p[2])
    BY <2>2, <2>5 DEF Beyond
  <2>10. \A b \in States(r) : b = r.init \/ Beyond(T, {last}, b)
    BY <2>5, <2>7, <2>9 DEF SeparatedUpTo
  <2>11. last[2] \in r.init[last[1]]
    <3>1. last[2] \in x.init[last[1]] /\ last[1] \in Vars(T)
      BY <1>1, FactIs DEF SeparatedUpTo
    <3>2. CASE last[1] = v
      BY <2>2, <2>5, <2>7, <3>1, <3>2
    <3>3. CASE last[1] # v
      BY <2>5, <2>7, <3>1, <3>3 DEF Halves
    <3>4. QED
      BY <3>2, <3>3
  <2>12. ASSUME NEW u \in Vars(T), u > v
         PROVE  r.init[u] = 0 .. T.dom[u] - 1
    <3>1. u # v /\ u > v - 1
      BY <1>1, <2>12
    <3>2. r.init[u] = x.init[u]
      BY <2>5, <2>7, <3>1 DEF Halves
    <3>3. QED
      BY <3>1, <3>2 DEF SeparatedUpTo
  <2>13. QED
    BY <2>1, <2>6, <2>8, <2>10, <2>11, <2>12 DEF SeparatedUpTo
<1>4. QED
  BY <1>2, <1>3

-----------------------------------------------------------------------------
(* The abstraction that a subtask starts with.                             *)

\* The abstraction with other goal states.
LEMMA WithGoals ==
  ASSUME NEW T, NEW abs, IsAbstraction(T, abs), NEW G \in SUBSET States(abs)
  PROVE  LET r == [abs EXCEPT !.goals = G] IN
         /\ IsAbstraction(T, r) /\ r.goals = G /\ r.h = abs.h /\ r.init = abs.init /\ States(r) = States(abs)
<1> DEFINE r == [abs EXCEPT !.goals = G]
           H == UNION {[S -> 0 .. INFTY] : S \in SUBSET Cartesian(T)}
           X == SUBSET (Cartesian(T) \X OpsOf(T) \X Cartesian(T))
           C == Cartesian(T)
<1>1. abs \in [init : C, goals : SUBSET C, trans : X, h : H]
  BY DEF IsAbstraction, Abstractions
<1>2. G \in SUBSET C
  BY AbstractionIs
<1> HIDE DEF X, H, C
<1>3. /\ r \in [init : C, goals : SUBSET C, trans : X, h : H]
      /\ r.goals = G /\ r.h = abs.h /\ r.init = abs.init /\ r.trans = abs.trans
  BY <1>1, <1>2
<1> HIDE DEF r
<1>4. r \in Abstractions(T) /\ States(r) = States(abs)
  BY <1>3 DEF Abstractions, X, H, C, States
<1>5. IsAbstraction(T, r)
  BY <1>3, <1>4 DEF IsAbstraction
<1>6. QED
  BY <1>3, <1>4, <1>5 DEF r

\* The abstraction with other distances.
LEMMA WithHeights ==
  ASSUME NEW T, NEW abs, IsAbstraction(T, abs), NEW h \in [States(abs) -> 0 .. INFTY]
  PROVE  LET r == [abs EXCEPT !.h = h] IN
         /\ IsAbstraction(T, r) /\ r.goals = abs.goals /\ r.h = h /\ r.init = abs.init
         /\ r.trans = abs.trans /\ States(r) = States(abs)
<1> DEFINE r == [abs EXCEPT !.h = h]
           H == UNION {[S -> 0 .. INFTY] : S \in SUBSET Cartesian(T)}
           X == SUBSET (Cartesian(T) \X OpsOf(T) \X Cartesian(T))
           C == Cartesian(T)
<1>1. abs \in [init : C, goals : SUBSET C, trans : X, h : H]
  BY DEF IsAbstraction, Abstractions
<1>2. h \in H
  BY AbstractionIs
<1> HIDE DEF X, H, C
<1>3. /\ r \in [init : C, goals : SUBSET C, trans : X, h : H]
      /\ r.goals = abs.goals /\ r.h = h /\ r.init = abs.init /\ r.trans = abs.trans
  BY <1>1, <1>2
<1> HIDE DEF r
<1>4. r \in Abstractions(T) /\ States(r) = States(abs)
  BY <1>3 DEF Abstractions, X, H, C, States
<1>5. IsAbstraction(T, r)
  BY <1>3, <1>4 DEF IsAbstraction
<1>6. QED
  BY <1>3, <1>4, <1>5 DEF r

LEMMA SeparatedAre ==
  ASSUME NEW T, IsPlain(T), NEW last \in FactsOf(T), NEW n \in 0 .. Len(T.dom)
  PROVE  LET r == separate_facts_unreachable_before_goal(T, create_trivial_abstraction(T), last, n) IN
         /\ IsAbstraction(T, r) /\ \A b \in States(r) : r.h[b] = 0
         /\ Covers(T, {last}, r) /\ GoalsHold(T, {last}, r)
<1> DEFINE abs0 == create_trivial_abstraction(T)
           V == {x \in Abstractions(T) : IsAbstraction(T, x)}
           I == [v \in 0 .. n |-> {x \in V : SeparatedUpTo(T, last, v, x)}]
           step == [y \in V \X (1 .. n) |-> SeparatedAt(T, last, y[1], y[2])]
           Body(f) == [v \in 0 .. n |-> IF v = 0 THEN abs0 ELSE SeparatedAt(T, last, f[v - 1], v)]
           separated == CHOOSE f : f = Body(f)
           abs == separated[n]
           r == [abs EXCEPT !.goals = States(abs)]
<1>1. IsTask(T) /\ n \in Nat /\ 1 .. n \subseteq Vars(T)
  BY DEF IsPlain, IsTask, Vars
<1>2. \A v \in 0 .. n : \A x : x \in I[v] <=> SeparatedUpTo(T, last, v, x)
  BY DEF SeparatedUpTo, IsAbstraction
<1>3. I \in [0 .. n -> SUBSET V]
  OBVIOUS
<1>4. abs0 \in I[0]
  <2>1. /\ IsAbstraction(T, abs0)
        /\ abs0.init = Everything(T) /\ States(abs0) = {Everything(T)}
        /\ abs0.h[Everything(T)] = 0
    BY TrivialIs
  <2>2. \A u \in Vars(T) : Everything(T)[u] = 0 .. T.dom[u] - 1
    BY DEF Everything
  <2>3. last[2] \in Everything(T)[last[1]]
    <3>1. last[1] \in Vars(T) /\ last[2] \in Nat /\ last[2] < T.dom[last[1]] /\ T.dom[last[1]] \in Nat
      BY <1>1, FactIs, DomainIs
    <3>2. QED
      BY <2>2, <3>1
  <2> HIDE DEF abs0
  <2>4. SeparatedUpTo(T, last, 0, abs0)
    BY <2>1, <2>2, <2>3 DEF SeparatedUpTo
  <2> HIDE DEF I
  <2>5. QED
    BY <1>1, <1>2, <2>4
<1>5. ASSUME NEW v \in 1 .. n, NEW x \in I[v - 1]
      PROVE  SeparatedAt(T, last, x, v) \in I[v] /\ step[<<x, v>>] = SeparatedAt(T, last, x, v)
  <2>1. v - 1 \in 0 .. n /\ v \in 0 .. n /\ v \in Vars(T)
    BY <1>1
  <2>2. SeparatedUpTo(T, last, v - 1, x) /\ x \in V
    BY <1>2, <2>1
  <2>3. SeparatedUpTo(T, last, v, SeparatedAt(T, last, x, v))
    BY <2>1, <2>2, SeparatedNext
  <2>4. step[<<x, v>>] = SeparatedAt(T, last, x, v)
    BY <2>2
  <2> HIDE DEF I, step
  <2>5. QED
    BY <1>2, <2>1, <2>3, <2>4
<1> HIDE DEF V, I, step, abs0
<1>6. PICK f \in [0 .. n -> V] : /\ f[0] = abs0
                                 /\ \A v \in 1 .. n : f[v] = step[<<f[v - 1], v>>]
                                 /\ \A v \in 0 .. n : f[v] \in I[v]
  <2>1. StepsInto(n, I, step)
    BY <1>5 DEF StepsInto
  <2>2. HasPrefixFunctionIn(n, V, I, abs0, step)
    BY <1>1, <1>3, <1>4, <2>1, PrefixExists
  <2>3. QED
    BY <2>2 DEF HasPrefixFunctionIn
<1>7. f = Body(f)
  <2>1. f = [v \in 0 .. n |-> f[v]]
    OBVIOUS
  <2>2. ASSUME NEW v \in 0 .. n
        PROVE  f[v] = IF v = 0 THEN abs0 ELSE SeparatedAt(T, last, f[v - 1], v)
    <3>1. CASE v = 0
      BY <1>6, <3>1
    <3>2. CASE v # 0
      <4>1. v \in 1 .. n /\ v - 1 \in 0 .. n
        BY <1>1, <3>2
      <4>2. QED
        BY <1>5, <1>6, <3>2, <4>1
    <3>3. QED
      BY <3>1, <3>2
  <2>3. QED
    BY <2>1, <2>2
<1>8. separated = Body(separated)
  <2> HIDE DEF Body
  <2>1. QED
    BY <1>7
<1> HIDE DEF separated
<1>9. abs \in I[n]
  <2>1. separated[0] = abs0
    BY <1>1, <1>8
  <2>2. ASSUME NEW v \in 1 .. n, separated[v - 1] \in I[v - 1]
        PROVE  separated[v] \in I[v]
    <3>1. v \in 0 .. n /\ v # 0
      BY <1>1
    <3>2. separated[v] = SeparatedAt(T, last, separated[v - 1], v)
      BY <1>8, <3>1
    <3>3. QED
      BY <1>5, <2>2, <3>2
  <2>3. \A v \in 0 .. n : separated[v] \in I[v]
    BY <1>1, <1>4, <2>1, <2>2, PrefixStays
  <2>4. QED
    BY <1>1, <2>3
<1>10. separate_facts_unreachable_before_goal(T, create_trivial_abstraction(T), last, n) = r
  BY DEF separate_facts_unreachable_before_goal, SeparatedAt, separated, abs0
<1>11. SeparatedUpTo(T, last, n, abs) /\ IsAbstraction(T, abs)
  <2>1. n \in 0 .. n
    BY <1>1
  <2> HIDE DEF abs
  <2>2. SeparatedUpTo(T, last, n, abs)
    BY <1>2, <1>9, <2>1
  <2>3. QED
    BY <2>2 DEF SeparatedUpTo
<1> HIDE DEF abs
<1>12. IsAbstraction(T, r) /\ r.goals = States(abs) /\ r.h = abs.h /\ States(r) = States(abs)
  BY <1>11, WithGoals
<1> HIDE DEF r
<1>13. Covers(T, {last}, r)
  <2>1. Partitions(T, States(abs))
    BY <1>11 DEF IsAbstraction
  <2>2. QED
    BY <1>12, <2>1 DEF Covers, Partitions
<1>14. GoalsHold(T, {last}, r)
  BY <1>11, <1>12 DEF GoalsHold, SeparatedUpTo
<1>15. \A b \in States(r) : r.h[b] = 0
  BY <1>11, <1>12 DEF SeparatedUpTo
<1>16. QED
  BY <1>10, <1>12, <1>13, <1>14, <1>15

\* The abstraction that a subtask starts with.
LEMMA StartedIs ==
  ASSUME NEW T, IsPlain(T), NEW goal \in Goals(T), NEW costs \in [OpsOf(T) -> Nat],
         NEW n \in 0 .. Len(T.dom)
  PROVE  LET abs == Started(T, goal, n) IN
         IsAbstraction(T, abs) /\ Covers(T, goal, abs) /\ GoalsHold(T, goal, abs) /\ Guides(abs, costs)
<1> DEFINE abs == Started(T, goal, n)
<1>1. IsTask(T) /\ goal \subseteq FactsOf(T)
  BY DEF IsPlain, Goals
<1>2. IsAbstraction(T, abs) /\ Covers(T, goal, abs) /\ GoalsHold(T, goal, abs) /\ \A b \in States(abs) : abs.h[b] = 0
  <2>1. CASE Cardinality(goal) = 1
    <3>1. IsFiniteSet(goal)
      BY <1>1, FactsFinite, FS_Subset
    <3>2. PICK f : goal = {f}
      BY <2>1, <3>1, FS_Singleton
    <3>3. (CHOOSE g \in goal : TRUE) = f
      BY <3>2
    <3>4. abs = separate_facts_unreachable_before_goal(T, create_trivial_abstraction(T), f, n)
      BY <2>1, <3>3 DEF Started
    <3>5. f \in FactsOf(T)
      BY <1>1, <3>2
    <3>6. QED
      BY <3>2, <3>4, <3>5, SeparatedAre
  <2>2. CASE Cardinality(goal) # 1
    <3>1. abs = create_trivial_abstraction(T)
      BY <2>2 DEF Started
    <3>2. /\ IsAbstraction(T, abs)
          /\ abs.init = Everything(T) /\ States(abs) = {Everything(T)} /\ abs.goals = {Everything(T)}
          /\ abs.h[Everything(T)] = 0
      BY <3>1, TrivialIs
    <3> HIDE DEF abs
    <3>3. Covers(T, goal, abs)
      BY <1>1, <3>2, EverythingIs DEF Covers
    <3>4. \A f \in goal : f[2] \in Everything(T)[f[1]]
      <4>1. ASSUME NEW f \in goal
            PROVE  f[2] \in Everything(T)[f[1]]
        <5>1. f[1] \in Vars(T) /\ f[2] \in Nat /\ f[2] < T.dom[f[1]] /\ T.dom[f[1]] \in Nat
          BY <1>1, FactIs, DomainIs
        <5>2. QED
          BY <5>1 DEF Everything
      <4>2. QED
        BY <4>1
    <3>5. QED
      BY <3>2, <3>3, <3>4 DEF GoalsHold
  <2>3. QED
    BY <2>1, <2>2
<1> HIDE DEF abs
<1>3. Guides(abs, costs)
  <2> DEFINE d == AbstractDistances(abs, costs, abs.goals)
  <2>1. d \in [States(abs) -> 0 .. INFTY]
    BY <1>2, AbstractDistancesAre
  <2> HIDE DEF d
  <2>2. \A b \in States(abs) : abs.h[b] = 0 /\ d[b] \in 0 .. INFTY
    BY <1>2, <2>1
  <2>3. \A b \in States(abs) : abs.h[b] <= d[b]
    BY <2>2, InftyIs
  <2>4. QED
    BY <2>3 DEF Guides, d
<1>4. QED
  BY <1>2, <1>3 DEF abs

-----------------------------------------------------------------------------
(* Abstract plans.                                                         *)

\* A path of transitions from the initial state that visits no state twice.
IsPath(abs, steps, p) ==
  /\ p \in Seq(steps)
  /\ \A i \in 1 .. Len(p) : p[i][1] = At(abs, p, i - 1)
  /\ \A i \in 0 .. Len(p), j \in 0 .. Len(p) : i < j => At(abs, p, i) # At(abs, p, j)

LEMMA PathGoesOn ==
  ASSUME NEW abs, NEW steps, NEW p, IsPath(abs, steps, p), NEW q \in Extensions(abs, steps, p)
  PROVE  IsPath(abs, steps, q) /\ Len(q) = Len(p) + 1
<1>1. PICK x \in steps : /\ q = Append(p, x) /\ x[1] = At(abs, p, Len(p))
                         /\ \A i \in 0 .. Len(p) : x[3] # At(abs, p, i)
  BY DEF Extensions
<1> DEFINE n == Len(p)
<1>2. p \in Seq(steps) /\ n \in Nat
  BY DEF IsPath
<1>3. q \in Seq(steps) /\ Len(q) = n + 1 /\ q[n + 1] = x /\ \A i \in 1 .. n : q[i] = p[i]
  BY <1>1, <1>2
<1> HIDE DEF n
<1>4. \A i \in 0 .. n : At(abs, q, i) = At(abs, p, i)
  <2>1. ASSUME NEW i \in 0 .. n
        PROVE  At(abs, q, i) = At(abs, p, i)
    <3>1. CASE i = 0
      BY <3>1 DEF At
    <3>2. CASE i # 0
      <4>1. i \in 1 .. n
        BY <1>2, <3>2
      <4>2. QED
        BY <1>3, <3>2, <4>1 DEF At
    <3>3. QED
      BY <3>1, <3>2
  <2>2. QED
    BY <2>1
<1>5. At(abs, q, n + 1) = x[3]
  BY <1>2, <1>3 DEF At
<1>6. ASSUME NEW i \in 1 .. n + 1
      PROVE  q[i][1] = At(abs, q, i - 1)
  <2>1. i - 1 \in 0 .. n
    BY <1>2
  <2>2. CASE i = n + 1
    <3>1. i - 1 = n
      BY <1>2, <2>2
    <3>2. QED
      BY <1>1, <1>3, <1>4, <2>1, <2>2, <3>1 DEF n
  <2>3. CASE i # n + 1
    <3>1. i \in 1 .. n
      BY <1>2, <2>3
    <3>2. p[i][1] = At(abs, p, i - 1)
      BY <3>1 DEF IsPath, n
    <3>3. QED
      BY <1>3, <1>4, <2>1, <3>1, <3>2
  <2>4. QED
    BY <2>2, <2>3
<1>7. ASSUME NEW i \in 0 .. n + 1, NEW j \in 0 .. n + 1, i < j
      PROVE  At(abs, q, i) # At(abs, q, j)
  <2>1. i \in 0 .. n
    BY <1>2, <1>7
  <2>2. CASE j = n + 1
    BY <1>1, <1>4, <1>5, <2>1, <2>2 DEF n
  <2>3. CASE j # n + 1
    <3>1. j \in 0 .. n
      BY <1>2, <2>3
    <3>2. At(abs, p, i) # At(abs, p, j)
      BY <1>7, <2>1, <3>1 DEF IsPath, n
    <3>3. QED
      BY <1>4, <2>1, <3>1, <3>2
  <2>4. QED
    BY <2>2, <2>3
<1>8. QED
  BY <1>3, <1>6, <1>7 DEF IsPath, n

\* The plans that are found.
LEMMA PlanIs ==
  ASSUME NEW T, NEW abs, IsAbstraction(T, abs), NEW costs, NEW plan \in find_solution(abs, costs)
  PROVE  LET d == AbstractDistances(abs, costs, abs.goals) IN
         IsPath(abs, CheapestSteps(abs, costs, d), plan) /\ At(abs, plan, Len(plan)) \in abs.goals
<1> DEFINE d == AbstractDistances(abs, costs, abs.goals)
           steps == CheapestSteps(abs, costs, d)
           n == Cardinality(States(abs))
           V == SUBSET Seq(steps)
           I == [i \in 0 .. n |-> {X \in V : \A p \in X : IsPath(abs, steps, p)}]
           Next(X) == UNION {Extensions(abs, steps, p) : p \in X}
           step == [y \in V \X (1 .. n) |-> Next(y[1])]
           Body(f) == [i \in 0 .. n |-> IF i = 0 THEN {<<>>} ELSE Next(f[i - 1])]
           paths == CHOOSE f : f = Body(f)
<1>1. n \in Nat
  BY FS_CardinalityType DEF IsAbstraction
<1>2. plan \in CheapestPlans(abs, costs, d)
  BY DEF find_solution
<1> HIDE DEF d, steps
<1>3. \A i \in 0 .. n : \A X : X \in I[i] <=> \A p \in X : IsPath(abs, steps, p)
  BY DEF IsPath
<1>4. {<<>>} \in I[0] /\ I \in [0 .. n -> SUBSET V]
  <2>1. IsPath(abs, steps, <<>>)
    <3>1. <<>> \in Seq(steps) /\ Len(<<>>) = 0
      OBVIOUS
    <3>2. \A i \in 1 .. 0 : FALSE
      OBVIOUS
    <3>3. \A i, j \in 0 .. 0 : ~ (i < j)
      OBVIOUS
    <3>4. QED
      BY <3>1, <3>2, <3>3 DEF IsPath
  <2>2. {<<>>} \in I[0]
    <3> HIDE DEF I
    <3>1. QED
      BY <1>1, <1>3, <2>1
  <2>3. QED
    BY <2>2
<1>5. ASSUME NEW i \in 1 .. n, NEW X \in I[i - 1]
      PROVE  Next(X) \in I[i] /\ step[<<X, i>>] = Next(X)
  <2>1. i - 1 \in 0 .. n /\ i \in 0 .. n
    BY <1>1
  <2>2. X \in V /\ \A p \in X : IsPath(abs, steps, p)
    BY <1>3, <2>1
  <2>3. \A q \in Next(X) : \E p \in X : q \in Extensions(abs, steps, p)
    OBVIOUS
  <2>4. step[<<X, i>>] = Next(X)
    BY <2>2
  <2> HIDE DEF I, step, Next
  <2>5. \A q \in Next(X) : IsPath(abs, steps, q)
    BY <2>2, <2>3, PathGoesOn
  <2>6. QED
    BY <1>3, <2>1, <2>4, <2>5
<1> HIDE DEF n, V, I, step, Next
<1>6. PICK f \in [0 .. n -> V] : /\ f[0] = {<<>>}
                                 /\ \A i \in 1 .. n : f[i] = step[<<f[i - 1], i>>]
                                 /\ \A i \in 0 .. n : f[i] \in I[i]
  <2>1. StepsInto(n, I, step)
    BY <1>5 DEF StepsInto
  <2>2. HasPrefixFunctionIn(n, V, I, {<<>>}, step)
    BY <1>1, <1>4, <2>1, PrefixExists
  <2>3. QED
    BY <2>2 DEF HasPrefixFunctionIn
<1>7. f = Body(f)
  <2>1. f = [i \in 0 .. n |-> f[i]]
    OBVIOUS
  <2>2. ASSUME NEW i \in 0 .. n
        PROVE  f[i] = IF i = 0 THEN {<<>>} ELSE Next(f[i - 1])
    <3>1. CASE i = 0
      BY <1>6, <3>1
    <3>2. CASE i # 0
      <4>1. i \in 1 .. n /\ i - 1 \in 0 .. n
        BY <1>1, <3>2
      <4>2. QED
        BY <1>5, <1>6, <3>2, <4>1
    <3>3. QED
      BY <3>1, <3>2
  <2>3. QED
    BY <2>1, <2>2
<1>8. paths = Body(paths)
  <2> HIDE DEF Body
  <2>1. QED
    BY <1>7
<1> HIDE DEF paths
<1>9. \A i \in 0 .. n : paths[i] \in I[i]
  <2>1. paths[0] = {<<>>}
    BY <1>1, <1>8
  <2>2. ASSUME NEW i \in 1 .. n, paths[i - 1] \in I[i - 1]
        PROVE  paths[i] \in I[i]
    <3>1. i \in 0 .. n /\ i # 0
      BY <1>1
    <3>2. paths[i] = Next(paths[i - 1])
      BY <1>8, <3>1
    <3>3. QED
      BY <1>5, <2>2, <3>2
  <2>3. paths[0] \in I[0]
    BY <1>4, <2>1
  <2>4. QED
    BY <1>1, <2>2, <2>3, PrefixStays
<1>10. CheapestPlans(abs, costs, d) =
         {p \in UNION {paths[i] : i \in 0 .. n} : At(abs, p, Len(p)) \in abs.goals}
  BY DEF CheapestPlans, paths, n, steps, Next
<1>11. PICK i \in 0 .. n : plan \in paths[i] /\ At(abs, plan, Len(plan)) \in abs.goals
  BY <1>2, <1>10
<1>12. IsPath(abs, steps, plan)
  BY <1>3, <1>9, <1>11
<1>13. QED
  BY <1>11, <1>12 DEF d, steps

\* A plan of the abstraction: a path that ends in its only goal.
IsWay(T, abs, plan) ==
  /\ Len(plan) \in Nat
  /\ \A i \in 1 .. Len(plan) : /\ plan[i] \in abs.trans /\ plan[i][1] = At(abs, plan, i - 1)
                               /\ plan[i][1] \notin abs.goals
  /\ \A i \in 0 .. Len(plan), j \in 0 .. Len(plan) : i < j => At(abs, plan, i) # At(abs, plan, j)
  /\ At(abs, plan, Len(plan)) \in abs.goals

IsCheapest(costs, d, plan) == \A i \in 1 .. Len(plan) : d[plan[i][1]] = d[plan[i][3]] + costs[plan[i][2]]

LEMMA WayIs ==
  ASSUME NEW T, NEW abs, IsAbstraction(T, abs), NEW costs, NEW plan \in find_solution(abs, costs)
  PROVE  IsWay(T, abs, plan) /\ IsCheapest(costs, AbstractDistances(abs, costs, abs.goals), plan)
<1> DEFINE d == AbstractDistances(abs, costs, abs.goals)
           steps == CheapestSteps(abs, costs, d)
<1>1. IsPath(abs, steps, plan) /\ At(abs, plan, Len(plan)) \in abs.goals
  BY PlanIs
<1>2. \A x \in steps : x \in abs.trans /\ x[1] \notin abs.goals /\ d[x[1]] = d[x[3]] + costs[x[2]]
  BY DEF CheapestSteps
<1> HIDE DEF d, steps
<1>3. plan \in Seq(steps)
  BY <1>1 DEF IsPath
<1>4. Len(plan) \in Nat /\ \A i \in 1 .. Len(plan) : plan[i] \in steps
  BY <1>3
<1>5. IsWay(T, abs, plan)
  BY <1>1, <1>2, <1>4 DEF IsWay, IsPath
<1>6. IsCheapest(costs, d, plan)
  BY <1>2, <1>4 DEF IsCheapest
<1>7. QED
  BY <1>5, <1>6 DEF d

\* Along a plan transitions lead from state to state.
LEMMA WayStep ==
  ASSUME NEW T, NEW abs, IsAbstraction(T, abs), NEW plan, IsWay(T, abs, plan), NEW i \in 1 .. Len(plan)
  PROVE  /\ plan[i][1] = At(abs, plan, i - 1) /\ plan[i][3] = At(abs, plan, i)
         /\ plan[i][1] \in States(abs) /\ plan[i][3] \in States(abs) /\ plan[i][2] \in OpsOf(T)
         /\ Links(T, plan[i][2], plan[i][1], plan[i][3])
<1>1. plan[i] \in abs.trans /\ plan[i][1] = At(abs, plan, i - 1) /\ i # 0
  BY DEF IsWay
<1>2. PICK a \in States(abs), o \in OpsOf(T), b \in States(abs) : plan[i] = <<a, o, b>> /\ Links(T, o, a, b)
  BY <1>1, AbstractionIs
<1>3. QED
  BY <1>1, <1>2 DEF At

LEMMA WayStates ==
  ASSUME NEW T, NEW abs, IsAbstraction(T, abs), NEW plan, IsWay(T, abs, plan), NEW i \in 0 .. Len(plan)
  PROVE  /\ At(abs, plan, i) \in States(abs)
         /\ i < Len(plan) => At(abs, plan, i) \notin abs.goals
         /\ At(abs, plan, i) = abs.init => i = 0
<1>1. Len(plan) \in Nat /\ At(abs, plan, 0) = abs.init
  BY DEF IsWay, At
<1>2. At(abs, plan, i) \in States(abs)
  <2>1. CASE i = 0
    BY <1>1, <2>1, AbstractionIs
  <2>2. CASE i # 0
    <3>1. i \in 1 .. Len(plan)
      BY <1>1, <2>2
    <3>2. QED
      BY <3>1, WayStep
  <2>3. QED
    BY <2>1, <2>2
<1>3. ASSUME i < Len(plan)
      PROVE  At(abs, plan, i) \notin abs.goals
  <2>1. i + 1 \in 1 .. Len(plan) /\ i + 1 - 1 = i
    BY <1>1, <1>3
  <2>2. QED
    BY <2>1 DEF IsWay
<1>4. ASSUME i # 0
      PROVE  At(abs, plan, i) # abs.init
  <2>1. 0 \in 0 .. Len(plan) /\ 0 < i
    BY <1>1, <1>4
  <2>2. QED
    BY <1>1, <2>1 DEF IsWay
<1>5. QED
  BY <1>2, <1>3, <1>4

-----------------------------------------------------------------------------
(* The distances along a plan.                                             *)

\* One of the distances is made that of the next state and the step.
ExtractedAt(g, x, costs) == [g EXCEPT ![x[1]] = g[x[3]] + costs[x[2]]]

LEMMA ExtractedIs ==
  ASSUME NEW T, NEW abs, IsAbstraction(T, abs), NEW costs \in [OpsOf(T) -> Nat], Guides(abs, costs),
         NEW plan \in find_solution(abs, costs)
  PROVE  LET g == extract_solution(abs.h, plan, costs) d == AbstractDistances(abs, costs, abs.goals) IN
         g \in [States(abs) -> 0 .. INFTY] /\ \A a \in States(abs) : g[a] <= d[a]
<1> DEFINE S == States(abs)
           d == AbstractDistances(abs, costs, abs.goals)
           n == Len(plan)
           h == abs.h
           V == [S -> 0 .. INFTY]
           Low == {g \in V : \A a \in S : g[a] <= d[a]}
           I == [k \in 0 .. n |-> Low]
           step == [y \in V \X (1 .. n) |-> ExtractedAt(y[1], plan[n - y[2] + 1], costs)]
           Body(f) == [k \in 0 .. n |-> IF k = 0 THEN h ELSE ExtractedAt(f[k - 1], plan[n - k + 1], costs)]
           extracted == CHOOSE f : f = Body(f)
<1>1. IsWay(T, abs, plan) /\ IsCheapest(costs, d, plan)
  BY WayIs
<1>2. n \in Nat /\ d \in [S -> 0 .. INFTY] /\ h \in V
  BY <1>1, AbstractionIs, AbstractDistancesAre DEF IsWay
<1>3. h \in Low
  BY <1>2 DEF Guides
<1> HIDE DEF S, d, h
<1>4. ASSUME NEW k \in 1 .. n, NEW g \in Low
      PROVE  ExtractedAt(g, plan[n - k + 1], costs) \in Low
  <2> DEFINE x == plan[n - k + 1]
             e == ExtractedAt(g, x, costs)
             c == g[x[3]] + costs[x[2]]
  <2>1. n - k + 1 \in 1 .. n
    BY <1>2
  <2>2. x[1] \in S /\ x[3] \in S /\ x[2] \in OpsOf(T)
    BY <1>1, <2>1, WayStep DEF S
  <2>3. d[x[1]] = d[x[3]] + costs[x[2]]
    BY <1>1, <2>1 DEF IsCheapest
  <2>4. e = [g EXCEPT ![x[1]] = c]
    BY DEF ExtractedAt
  <2> HIDE DEF x
  <2>5. /\ g[x[3]] \in Nat /\ g[x[3]] <= d[x[3]] /\ costs[x[2]] \in Nat
        /\ d[x[1]] \in 0 .. INFTY /\ d[x[3]] \in 0 .. INFTY
    BY <1>2, <2>2
  <2>6. c \in 0 .. INFTY /\ c <= d[x[1]]
    <3>1. ASSUME NEW u \in Nat, NEW w \in Nat, NEW y \in 0 .. INFTY, NEW z \in 0 .. INFTY, u <= y, z = y + w
          PROVE  u + w \in 0 .. INFTY /\ u + w <= z
      BY <3>1, InftyIs
    <3>2. QED
      BY <2>3, <2>5, <3>1
  <2> HIDE DEF c, e
  <2>7. e \in V
    BY <2>4, <2>6
  <2>8. \A a \in S : e[a] <= d[a]
    BY <2>2, <2>4, <2>6
  <2>9. QED
    BY <2>7, <2>8 DEF e, x
<1>5. I \in [0 .. n -> SUBSET V] /\ \A k \in 0 .. n : I[k] = Low
  OBVIOUS
<1>6. ASSUME NEW k \in 1 .. n, NEW g \in I[k - 1]
      PROVE  ExtractedAt(g, plan[n - k + 1], costs) \in I[k] /\ step[<<g, k>>] = ExtractedAt(g, plan[n - k + 1], costs)
  <2>1. k - 1 \in 0 .. n /\ k \in 0 .. n
    BY <1>2
  <2>2. g \in Low /\ g \in V
    BY <1>5, <2>1
  <2>3. step[<<g, k>>] = ExtractedAt(g, plan[n - k + 1], costs)
    BY <2>2
  <2> HIDE DEF I, step, Low
  <2>4. QED
    BY <1>4, <1>5, <2>1, <2>2, <2>3
<1> HIDE DEF n, V, I, step, Low
<1>7. 0 \in 0 .. n /\ n \in 0 .. n /\ h \in I[0]
  BY <1>2, <1>3, <1>5
<1>8. PICK f \in [0 .. n -> V] : /\ f[0] = h
                                 /\ \A k \in 1 .. n : f[k] = step[<<f[k - 1], k>>]
                                 /\ \A k \in 0 .. n : f[k] \in I[k]
  <2>1. StepsInto(n, I, step)
    BY <1>6 DEF StepsInto
  <2>2. HasPrefixFunctionIn(n, V, I, h, step)
    BY <1>2, <1>5, <1>7, <2>1, PrefixExists
  <2>3. QED
    BY <2>2 DEF HasPrefixFunctionIn
<1>9. f = Body(f)
  <2>1. f = [k \in 0 .. n |-> f[k]]
    OBVIOUS
  <2>2. ASSUME NEW k \in 0 .. n
        PROVE  f[k] = IF k = 0 THEN h ELSE ExtractedAt(f[k - 1], plan[n - k + 1], costs)
    <3>1. CASE k = 0
      BY <1>8, <3>1
    <3>2. CASE k # 0
      <4>1. k \in 1 .. n /\ k - 1 \in 0 .. n
        BY <1>2, <3>2
      <4>2. QED
        BY <1>6, <1>8, <3>2, <4>1
    <3>3. QED
      BY <3>1, <3>2
  <2>3. QED
    BY <2>1, <2>2
<1>10. extracted = Body(extracted)
  <2> HIDE DEF Body
  <2>1. QED
    BY <1>9
<1> HIDE DEF extracted
<1>11. extracted[n] \in I[n]
  <2>1. extracted[0] = h
    BY <1>7, <1>10
  <2>2. ASSUME NEW k \in 1 .. n, extracted[k - 1] \in I[k - 1]
        PROVE  extracted[k] \in I[k]
    <3>1. k \in 0 .. n /\ k # 0
      BY <1>2
    <3>2. extracted[k] = ExtractedAt(extracted[k - 1], plan[n - k + 1], costs)
      BY <1>10, <3>1
    <3>3. QED
      BY <1>6, <2>2, <3>2
  <2>3. extracted[0] \in I[0]
    BY <1>7, <2>1
  <2>4. \A k \in 0 .. n : extracted[k] \in I[k]
    BY <1>2, <2>2, <2>3, PrefixStays
  <2>5. QED
    BY <1>7, <2>4
<1>12. extract_solution(h, plan, costs) = extracted[n]
  BY DEF extract_solution, ExtractedAt, extracted, n
<1>13. QED
  BY <1>5, <1>7, <1>11, <1>12 DEF V, Low, S, d, h

-----------------------------------------------------------------------------
(* Where a plan fails.                                                     *)

LEMMA TracedAre ==
  ASSUME NEW T, IsPlain(T), NEW plan, Len(plan) \in Nat, \A i \in 1 .. Len(plan) : plan[i][2] \in OpsOf(T)
  PROVE  LET tr == Traced(T, plan) IN
         /\ tr[0] = InitialState(T)
         /\ \A i \in 0 .. Len(plan) : tr[i] \in StatesOf(T)
         /\ \A i \in 1 .. Len(plan) : tr[i] = successor(T.ops[plan[i][2]], tr[i - 1])
<1> DEFINE n == Len(plan)
           V == StatesOf(T)
           init == InitialState(T)
           Next(s, i) == successor(T.ops[plan[i][2]], s)
           I == [i \in 0 .. n |-> V]
           step == [y \in V \X (1 .. n) |-> Next(y[1], y[2])]
           Body(f) == [i \in 0 .. n |-> IF i = 0 THEN init ELSE Next(f[i - 1], i)]
           traced == CHOOSE f : f = Body(f)
<1>1. IsTask(T) /\ ~ has_conditional_effects(T) /\ n \in Nat
  BY DEF IsPlain
<1>2. init \in V
  BY <1>1, InitialStateIs
<1>3. I \in [0 .. n -> SUBSET V] /\ \A i \in 0 .. n : I[i] = V
  OBVIOUS
<1>4. ASSUME NEW i \in 1 .. n, NEW s \in V
      PROVE  Next(s, i) \in V /\ step[<<s, i>>] = Next(s, i)
  <2>1. Next(s, i) \in V
    BY <1>1, SuccessorIs
  <2> HIDE DEF V, Next, n
  <2>2. QED
    BY <2>1
<1> HIDE DEF n, V, init, I, step, Next
<1>5. 0 \in 0 .. n
  BY <1>1
<1>6. PICK f \in [0 .. n -> V] : /\ f[0] = init
                                 /\ \A i \in 1 .. n : f[i] = step[<<f[i - 1], i>>]
                                 /\ \A i \in 0 .. n : f[i] \in I[i]
  <2>1. \A i \in 1 .. n : i - 1 \in 0 .. n /\ i \in 0 .. n
    BY <1>1
  <2>2. StepsInto(n, I, step)
    BY <1>3, <1>4, <2>1 DEF StepsInto
  <2>3. HasPrefixFunctionIn(n, V, I, init, step)
    BY <1>1, <1>2, <1>3, <1>5, <2>2, PrefixExists
  <2>4. QED
    BY <2>3 DEF HasPrefixFunctionIn
<1>7. f = Body(f)
  <2>1. f = [i \in 0 .. n |-> f[i]]
    OBVIOUS
  <2>2. ASSUME NEW i \in 0 .. n
        PROVE  f[i] = IF i = 0 THEN init ELSE Next(f[i - 1], i)
    <3>1. CASE i = 0
      BY <1>6, <3>1
    <3>2. CASE i # 0
      <4>1. i \in 1 .. n /\ i - 1 \in 0 .. n
        BY <1>1, <3>2
      <4>2. QED
        BY <1>4, <1>6, <3>2, <4>1
    <3>3. QED
      BY <3>1, <3>2
  <2>3. QED
    BY <2>1, <2>2
<1>8. traced = Body(traced)
  <2> HIDE DEF Body
  <2>1. QED
    BY <1>7
<1>9. Traced(T, plan) = traced
  BY DEF Traced, traced, n, init, Next
<1> HIDE DEF traced
<1>10. traced[0] = init
  BY <1>5, <1>8
<1>11. ASSUME NEW i \in 1 .. n
       PROVE  traced[i] = Next(traced[i - 1], i)
  <2>1. i \in 0 .. n /\ i # 0
    BY <1>1
  <2>2. QED
    BY <1>8, <2>1
<1>12. \A i \in 0 .. n : traced[i] \in V
  <2>1. \A i \in 1 .. n : i - 1 \in 0 .. n /\ i \in 0 .. n
    BY <1>1
  <2>2. ASSUME NEW i \in 1 .. n, traced[i - 1] \in I[i - 1]
        PROVE  traced[i] \in I[i]
    <3>1. traced[i - 1] \in V /\ I[i] = V
      BY <1>3, <2>1, <2>2
    <3>2. Next(traced[i - 1], i) \in V
      BY <1>4, <3>1
    <3>3. traced[i] = Next(traced[i - 1], i)
      BY <1>11
    <3>4. QED
      BY <3>1, <3>2, <3>3
  <2>3. traced[0] \in I[0]
    BY <1>2, <1>3, <1>5, <1>10
  <2>4. \A i \in 0 .. n : traced[i] \in I[i]
    BY <1>1, <2>2, <2>3, PrefixStays
  <2>5. QED
    BY <1>3, <2>4
<1>13. QED
  BY <1>9, <1>10, <1>11, <1>12 DEF n, V, init, Next

\* The values of a variable in the states with some facts.
LEMMA AbstractStateIs ==
  ASSUME NEW T, IsTask(T), NEW F \in Goals(T), NEW s \in StatesOf(T), NEW v \in Vars(T)
  PROVE  /\ Holds(s, F) => s[v] \in get_abstract_state(T, F)[v]
         /\ s[v] \notin get_abstract_state(T, F)[v] =>
              \E f \in F : f[1] = v /\ f[2] # s[v] /\ get_abstract_state(T, F)[v] = {f[2]}
<1> DEFINE D == get_abstract_state(T, F)[v]
<1>1. D = {d \in 0 .. T.dom[v] - 1 : \A f \in F : f[1] = v => f[2] = d}
  BY DEF get_abstract_state
<1>2. s[v] \in 0 .. T.dom[v] - 1
  <2>1. s[v] \in Nat /\ s[v] < T.dom[v] /\ T.dom[v] \in Nat
    BY StatesAre, DomainIs
  <2>2. QED
    BY <2>1
<1> HIDE DEF D
<1>3. ASSUME Holds(s, F)
      PROVE  s[v] \in D
  <2>1. \A f \in F : f[1] = v => f[2] = s[v]
    BY <1>3 DEF Holds
  <2>2. QED
    BY <1>1, <1>2, <2>1
<1>4. ASSUME s[v] \notin D
      PROVE  \E f \in F : f[1] = v /\ f[2] # s[v] /\ D = {f[2]}
  <2>1. PICK f \in F : f[1] = v /\ f[2] # s[v]
    BY <1>1, <1>2, <1>4
  <2>2. f[2] \in Nat /\ f[2] < T.dom[v] /\ T.dom[v] \in Nat
    BY <2>1, FactIs, DomainIs DEF Goals
  <2>3. f[2] \in 0 .. T.dom[v] - 1
    BY <2>2
  <2>4. \A g \in F : g[1] = v => g[2] = f[2]
    BY <2>1 DEF Goals, OneValueEach
  <2>5. D = {f[2]}
    BY <1>1, <2>1, <2>3, <2>4
  <2>6. QED
    BY <2>1, <2>5
<1>5. QED
  BY <1>3, <1>4 DEF D

\* A state of the plan is in the abstract state that is to be split, and not
\* in the part that is wanted.
LEMMA StateSplits ==
  ASSUME NEW T, IsTask(T), NEW abs, NEW a \in States(abs), NEW s \in StatesOf(T), includes(a, s),
         NEW v \in Vars(T), DOMAIN a = Vars(T), NEW w, w \subseteq a[v], w # {}, s[v] \notin w,
         a = abs.init => s = InitialState(T)
  PROVE  CanSplit(T, abs, a, v, w)
<1>1. s[v] \in a[v]
  BY DEF includes
<1>2. QED
  BY <1>1 DEF CanSplit

\* The two ways in which a step can fail.
LEMMA StepFails ==
  ASSUME NEW T, IsPlain(T), NEW a \in Cartesian(T), NEW b \in Cartesian(T), NEW o \in OpsOf(T),
         Links(T, o, a, b), NEW s \in StatesOf(T), includes(a, s), NEW v \in Vars(T)
  PROVE  /\ LET w == a[v] \cap get_abstract_state(T, Range(T.ops[o].pre))[v] IN s[v] \notin w => w # {}
         /\ LET w == a[v] \cap regress(T, b, o)[v] IN is_applicable(T.ops[o], s) /\ s[v] \notin w => w # {}
<1> DEFINE pre == Range(T.ops[o].pre)
           free == {e.fact[1] : e \in Range(T.ops[o].effs)}
           D == get_abstract_state(T, pre)[v]
<1>1. IsTask(T) /\ pre \in Goals(T)
  BY OperatorIs DEF IsPlain, IsConsistent, Goals
<1>2. s[v] \in a[v]
  BY DEF includes, Cartesian
<1>3. /\ Holds(s, pre) => s[v] \in D
      /\ s[v] \notin D => \E f \in pre : f[1] = v /\ f[2] # s[v] /\ D = {f[2]}
  BY <1>1, AbstractStateIs
<1>4. Pre(T.ops[o], v) \subseteq a[v] /\ (Post(T.ops[o], v) = {} => a[v] \cap b[v] # {})
  BY DEF Links
<1>5. ASSUME s[v] \notin a[v] \cap D
      PROVE  a[v] \cap D # {}
  <2>1. PICK f \in pre : f[1] = v /\ D = {f[2]}
    BY <1>2, <1>3, <1>5
  <2>2. f[2] \in Pre(T.ops[o], v)
    BY <2>1 DEF Pre
  <2>3. QED
    BY <1>4, <2>1, <2>2
<1>6. ASSUME is_applicable(T.ops[o], s), s[v] \notin a[v] \cap regress(T, b, o)[v]
      PROVE  a[v] \cap regress(T, b, o)[v] # {}
  <2>1. s[v] \in D
    BY <1>3, <1>6 DEF is_applicable
  <2>2. regress(T, b, o)[v] = IF v \in free \/ (\E f \in pre : f[1] = v) THEN D ELSE b[v]
    BY DEF regress
  <2>3. regress(T, b, o)[v] = b[v] /\ v \notin free /\ ~ (\E f \in pre : f[1] = v)
    <3> HIDE DEF D, free, pre
    <3>1. QED
      BY <1>2, <1>6, <2>1, <2>2
  <2>4. Pre(T.ops[o], v) = {}
    BY <2>3 DEF Pre
  <2>5. {i \in DOMAIN T.ops[o].effs : T.ops[o].effs[i].fact[1] = v} = {}
    BY <2>3 DEF Range
  <2>6. Post(T.ops[o], v) = {}
    BY <2>4, <2>5 DEF Post
  <2>7. QED
    BY <1>4, <2>3, <2>6
<1>7. QED
  BY <1>5, <1>6

\* An operator that does not achieve the last fact reaches nothing new.
LEMMA StaysBefore ==
  ASSUME NEW T, IsPlain(T), NEW last, NEW F, AddedBefore(T, last, F) \subseteq F,
         NEW s \in StatesOf(T), FactsIn(s) \subseteq F, NEW o \in OpsOf(T), is_applicable(T.ops[o], s),
         ~ Holds(successor(T.ops[o], s), {last})
  PROVE  FactsIn(successor(T.ops[o], s)) \subseteq F
<1> DEFINE r == successor(T.ops[o], s)
           op == T.ops[o]
<1>1. IsTask(T) /\ ~ has_conditional_effects(T) /\ OneValueEach({e.fact : e \in Range(op.effs)})
  BY DEF IsPlain, IsConsistent
<1>2. /\ r \in StatesOf(T)
      /\ \A v \in Vars(T) : r[v] = IF Writes(op, v) = {} THEN s[v] ELSE Written(op, v)
  BY <1>1, SuccessorIs
<1>3. DOMAIN s = Vars(T) /\ DOMAIN r = Vars(T)
  BY <1>1, <1>2, StatesAre
<1>4. \A v : Writes(op, v) # {} => <<v, Written(op, v)>> \in EffectFacts(op)
  BY <1>1, WrittenIs
<1>5. EffectFacts(op) = {e.fact : e \in Range(op.effs)} /\ EffectFacts(op) \subseteq FactsOf(T)
  BY <1>1, OperatorIs DEF EffectFacts
<1>6. Range(op.pre) \subseteq F
  <2>1. ASSUME NEW f \in Range(op.pre)
        PROVE  f \in FactsIn(s)
    <3>1. f = <<f[1], f[2]>> /\ f[1] \in Vars(T)
      BY <1>1, OperatorIs, FactIs
    <3>2. s[f[1]] = f[2]
      BY DEF is_applicable, Holds
    <3>3. QED
      BY <1>3, <3>1, <3>2 DEF FactsIn
  <2>2. QED
    BY <2>1
<1>7. ASSUME NEW e \in Range(op.effs), e.fact = last
      PROVE  FALSE
  <2>1. last \in EffectFacts(op) /\ last = <<last[1], last[2]>> /\ last[1] \in Vars(T)
    BY <1>1, <1>5, <1>7, FactIs
  <2>2. Writes(op, last[1]) # {}
    <3>1. PICK i \in DOMAIN op.effs : e = op.effs[i]
      BY DEF Range
    <3>2. i \in Writes(op, last[1])
      BY <1>7, <3>1 DEF Writes
    <3>3. QED
      BY <3>2
  <2>3. <<last[1], Written(op, last[1])>> \in EffectFacts(op)
    BY <1>4, <2>2
  <2>4. <<last[1], Written(op, last[1])>> = last
    BY <1>1, <1>5, <2>1, <2>3 DEF OneValueEach
  <2>5. r[last[1]] = last[2]
    BY <1>2, <2>1, <2>2, <2>4
  <2>6. QED
    BY <2>5 DEF Holds
<1>8. op \in Range(T.ops)
  BY DEF Range, OpsOf
<1>9. EffectFacts(op) \subseteq F
  BY <1>5, <1>6, <1>7, <1>8 DEF AddedBefore
<1>10. ASSUME NEW f \in FactsIn(r)
       PROVE  f \in F
  <2>1. PICK v \in Vars(T) : f = <<v, r[v]>>
    BY <1>3 DEF FactsIn
  <2>2. CASE Writes(op, v) = {}
    <3>1. f = <<v, s[v]>>
      BY <1>2, <2>1, <2>2
    <3>2. QED
      BY <1>3, <3>1 DEF FactsIn
  <2>3. CASE Writes(op, v) # {}
    BY <1>2, <1>4, <1>9, <2>1, <2>3
  <2>4. QED
    BY <2>2, <2>3
<1>11. QED
  BY <1>10

\* The plan can be followed up to its state k.
Followed(T, abs, plan, k) ==
  /\ \A i \in 0 .. k : includes(At(abs, plan, i), Traced(T, plan)[i])
  /\ \A i \in 1 .. k : is_applicable(T.ops[plan[i][2]], Traced(T, plan)[i - 1])

\* A plan does not end beyond the goal.
LEMMA EndsBefore ==
  ASSUME NEW T, IsPlain(T), NEW goal \in Goals(T), NEW abs, IsAbstraction(T, abs), Covers(T, goal, abs),
         NEW plan, IsWay(T, abs, plan), Followed(T, abs, plan, Len(plan)),
         ~ Holds(Traced(T, plan)[Len(plan)], goal)
  PROVE  ~ Beyond(T, goal, At(abs, plan, Len(plan)))
<1> DEFINE n == Len(plan)
           tr == Traced(T, plan)
<1>1. n \in Nat /\ IsTask(T)
  BY DEF IsWay, IsPlain
<1>2. \A i \in 1 .. n : plan[i][2] \in OpsOf(T)
  BY WayStep
<1>3. /\ tr[0] = InitialState(T)
      /\ \A i \in 0 .. n : tr[i] \in StatesOf(T)
      /\ \A i \in 1 .. n : tr[i] = successor(T.ops[plan[i][2]], tr[i - 1])
  BY <1>1, <1>2, TracedAre
<1>4. ASSUME NEW i \in 0 .. n
      PROVE  ~ Holds(tr[i], goal)
  <2>1. CASE i = n
    BY <2>1
  <2>2. CASE i # n
    <3> DEFINE a == At(abs, plan, i)
    <3>1. i < n
      BY <1>1, <2>2
    <3>2. a \in States(abs) /\ a \notin abs.goals
      BY <3>1, WayStates
    <3>3. includes(a, tr[i]) /\ tr[i] \in StatesOf(T)
      BY <1>3 DEF Followed
    <3>4. abs.goals \subseteq States(abs) /\ Partitions(T, States(abs))
      BY AbstractionIs DEF IsAbstraction
    <3> HIDE DEF a, tr
    <3>5. \A b \in abs.goals : ~ includes(b, tr[i])
      BY <3>2, <3>3, <3>4 DEF Partitions
    <3>6. QED
      BY <3>3, <3>5 DEF Covers
  <2>3. QED
    BY <2>1, <2>2
<1>5. ASSUME Beyond(T, goal, At(abs, plan, n))
      PROVE  FALSE
  <2>1. PICK last \in goal, v \in Vars(T) :
          /\ goal = {last}
          /\ \A d \in At(abs, plan, n)[v] : <<v, d>> \notin get_relaxed_possible_before(T, last)
    BY <1>5 DEF Beyond
  <2> DEFINE F == PossiblyBefore(T, last, FactsIn(InitialState(T)))
             I == [i \in 0 .. n |-> {s \in StatesOf(T) : FactsIn(s) \subseteq F}]
  <2>2. last \in FactsOf(T)
    BY DEF Goals
  <2>3. /\ get_relaxed_possible_before(T, last) = F \cup {last}
        /\ AddedBefore(T, last, F) \subseteq F
    BY <1>1, <2>2, RelaxedPossibleIs
  <2>4. FactsIn(InitialState(T)) \subseteq F
    BY <1>1, InitialStateIs, PossibleIs
  <2> HIDE DEF F
  <2>5. \A i \in 0 .. n : \A s : s \in I[i] <=> s \in StatesOf(T) /\ FactsIn(s) \subseteq F
    OBVIOUS
  <2> HIDE DEF I, tr, n
  <2>6. tr[0] \in I[0]
    BY <1>1, <1>3, <2>4, <2>5
  <2>7. ASSUME NEW i \in 1 .. n, tr[i - 1] \in I[i - 1]
        PROVE  tr[i] \in I[i]
    <3>1. i \in 0 .. n /\ i - 1 \in 0 .. n
      BY <1>1
    <3>2. tr[i - 1] \in StatesOf(T) /\ FactsIn(tr[i - 1]) \subseteq F
      BY <2>5, <2>7, <3>1
    <3>3. is_applicable(T.ops[plan[i][2]], tr[i - 1]) /\ plan[i][2] \in OpsOf(T)
      BY <1>2 DEF Followed, tr, n
    <3>4. tr[i] = successor(T.ops[plan[i][2]], tr[i - 1]) /\ ~ Holds(tr[i], {last}) /\ tr[i] \in StatesOf(T)
      BY <1>3, <1>4, <2>1, <3>1
    <3>5. ASSUME NEW s, NEW o, s = tr[i - 1], o = plan[i][2]
          PROVE  FactsIn(tr[i]) \subseteq F
      <4>1. /\ s \in StatesOf(T) /\ FactsIn(s) \subseteq F /\ o \in OpsOf(T)
            /\ is_applicable(T.ops[o], s)
            /\ ~ Holds(successor(T.ops[o], s), {last})
            /\ tr[i] = successor(T.ops[o], s)
        BY <3>2, <3>3, <3>4, <3>5
      <4>2. FactsIn(successor(T.ops[o], s)) \subseteq F
        BY <2>3, <4>1, StaysBefore
      <4>3. QED
        BY <4>1, <4>2
    <3>6. QED
      BY <2>5, <3>1, <3>4, <3>5
  <2>8. \A i \in 0 .. n : tr[i] \in I[i]
    BY <1>1, <2>6, <2>7, PrefixStays
  <2>9. n \in 0 .. n
    BY <1>1
  <2>10. tr[n] \in StatesOf(T) /\ FactsIn(tr[n]) \subseteq F
    BY <2>5, <2>8, <2>9
  <2>11. tr[n][v] \in At(abs, plan, n)[v]
    <3>1. includes(At(abs, plan, n), tr[n])
      BY <2>9 DEF Followed, tr, n
    <3>2. At(abs, plan, n) \in States(abs)
      BY <2>9, WayStates DEF n
    <3>3. DOMAIN At(abs, plan, n) = Vars(T)
      BY <3>2, AbstractionIs DEF Cartesian
    <3>4. QED
      BY <3>1, <3>3 DEF includes
  <2>12. <<v, tr[n][v]>> \in FactsIn(tr[n])
    <3>1. DOMAIN tr[n] = Vars(T)
      BY <1>1, <2>10, StatesAre
    <3>2. QED
      BY <3>1 DEF FactsIn
  <2>13. QED
    BY <2>1, <2>3, <2>10, <2>11, <2>12
<1>6. QED
  BY <1>5

-----------------------------------------------------------------------------
(* Flaws and the splits that are made for them.                            *)

\* A split that keeps the goal states of an abstraction what they are.
SplitsWell(T, goal, abs, a, v, w) ==
  /\ CanSplit(T, abs, a, v, w)
  /\ a \in abs.goals => \E f \in goal : v = f[1] /\ w = {f[2]} /\ f[2] \in a[f[1]] /\ a[f[1]] # {f[2]}

LEMMA FlawAtIs ==
  ASSUME NEW T, IsPlain(T), NEW goal \in Goals(T), NEW abs, IsAbstraction(T, abs),
         Covers(T, goal, abs), GoalsHold(T, goal, abs), NEW plan, IsWay(T, abs, plan),
         NEW k \in 0 .. Len(plan), Followed(T, abs, plan, k),
         NEW flaw \in FlawsAfter(T, goal, abs, plan, k), NEW x \in get_possible_splits(T, flaw)
  PROVE  SplitsWell(T, goal, abs, flaw.current, x[1], x[2])
<1> DEFINE n == Len(plan)
           s == Traced(T, plan)[k]
           a == At(abs, plan, k)
<1>1. n \in Nat /\ IsTask(T)
  BY DEF IsWay, IsPlain
<1>2. /\ Traced(T, plan)[0] = InitialState(T) /\ s \in StatesOf(T)
  <2>1. \A i \in 1 .. n : plan[i][2] \in OpsOf(T)
    BY WayStep
  <2>2. QED
    BY <1>1, <2>1, TracedAre
<1>3. a \in States(abs) /\ (k < n => a \notin abs.goals) /\ (a = abs.init => k = 0)
  BY WayStates
<1>4. a \in Cartesian(T) /\ DOMAIN a = Vars(T) /\ includes(a, s)
  BY <1>1, <1>3, AbstractionIs DEF Cartesian, Followed
<1>5. a = abs.init => s = InitialState(T)
  BY <1>2, <1>3
<1>6. PICK v \in Vars(T) : /\ x = <<v, flaw.current[v] \cap flaw.desired[v]>>
                           /\ flaw.state[v] \notin flaw.current[v] \cap flaw.desired[v]
  BY DEF get_possible_splits
<1>7. x[1] = v /\ x[2] = flaw.current[v] \cap flaw.desired[v]
  BY <1>6
<1>8. s[v] \in a[v]
  BY <1>4 DEF includes
<1>9. ASSUME NEW D, flaw = Flaw(s, a, D)
      PROVE  flaw.current = a /\ x[2] = a[v] \cap D[v] /\ s[v] \notin a[v] \cap D[v]
  <2>1. flaw.current = a /\ flaw.state = s /\ flaw.desired = D
    BY <1>9 DEF Flaw
  <2> HIDE DEF a, s
  <2>2. QED
    BY <1>6, <1>7, <2>1
<1>10. ASSUME flaw.current = a, x[2] \subseteq a[v], x[2] # {}, s[v] \notin x[2]
       PROVE  CanSplit(T, abs, flaw.current, x[1], x[2])
  BY <1>1, <1>2, <1>3, <1>4, <1>5, <1>7, <1>10, StateSplits
<1>11. CASE k = n
  <2> DEFINE D == get_abstract_state(T, goal)
  <2>1. ~ Holds(s, goal) /\ flaw = Flaw(s, a, D)
    BY <1>11 DEF FlawsAfter
  <2>2. flaw.current = a /\ x[2] = a[v] \cap D[v] /\ s[v] \notin a[v] \cap D[v]
    BY <1>9, <2>1
  <2>3. PICK f \in goal : f[1] = v /\ f[2] # s[v] /\ D[v] = {f[2]}
    BY <1>1, <1>2, <1>8, <2>2, AbstractStateIs
  <2>4. ~ Beyond(T, goal, a) /\ a \in abs.goals
    BY <1>11, <2>1, EndsBefore DEF IsWay
  <2>5. f[2] \in a[v]
    BY <2>3, <2>4 DEF GoalsHold
  <2> HIDE DEF a, s, D
  <2>6. x[2] = {f[2]} /\ x[2] \subseteq a[v] /\ x[2] # {} /\ s[v] \notin x[2] /\ a[v] # {f[2]}
    BY <1>8, <2>2, <2>3, <2>5
  <2>7. CanSplit(T, abs, flaw.current, x[1], x[2])
    BY <1>10, <2>2, <2>6
  <2>8. QED
    BY <1>7, <2>2, <2>3, <2>5, <2>6, <2>7 DEF SplitsWell
<1>12. CASE k # n
  <2> DEFINE o == plan[k + 1][2]
             b == plan[k + 1][3]
             P == get_abstract_state(T, Range(T.ops[o].pre))
             R == regress(T, b, o)
  <2>1. k + 1 \in 1 .. n /\ k + 1 - 1 = k /\ k < n
    BY <1>1, <1>12
  <2>2. o \in OpsOf(T) /\ b \in States(abs) /\ Links(T, o, a, b)
    BY <2>1, WayStep
  <2>3. b \in Cartesian(T)
    BY <2>2, AbstractionIs
  <2>4. /\ s[v] \notin a[v] \cap P[v] => a[v] \cap P[v] # {}
        /\ is_applicable(T.ops[o], s) /\ s[v] \notin a[v] \cap R[v] => a[v] \cap R[v] # {}
    BY <1>2, <1>4, <2>2, <2>3, StepFails
  <2>5. flaw = Flaw(s, a, P) \/ (is_applicable(T.ops[o], s) /\ flaw = Flaw(s, a, R))
    BY <1>12 DEF FlawsAfter
  <2> HIDE DEF a, s, P, R, o, b
  <2>6. flaw.current = a /\ x[2] \subseteq a[v] /\ x[2] # {} /\ s[v] \notin x[2]
    <3>1. CASE flaw = Flaw(s, a, P)
      BY <1>9, <2>4, <3>1
    <3>2. CASE is_applicable(T.ops[o], s) /\ flaw = Flaw(s, a, R)
      BY <1>9, <2>4, <3>2
    <3>3. QED
      BY <2>5, <3>1, <3>2
  <2>7. CanSplit(T, abs, flaw.current, x[1], x[2])
    BY <1>10, <2>6
  <2>8. QED
    BY <1>3, <2>1, <2>6, <2>7 DEF SplitsWell
<1>13. QED
  BY <1>11, <1>12

\* Up to its first flaw a plan can be followed.
LEMMA FollowedIs ==
  ASSUME NEW T, IsPlain(T), NEW goal, NEW abs, IsAbstraction(T, abs), NEW plan, IsWay(T, abs, plan),
         NEW k \in 0 .. Len(plan), \A i \in 0 .. Len(plan) : i < k => FlawsAfter(T, goal, abs, plan, i) = {}
  PROVE  Followed(T, abs, plan, k)
<1> DEFINE n == Len(plan)
           tr == Traced(T, plan)
           I == [i \in 0 .. k |-> {s \in StatesOf(T) : includes(At(abs, plan, i), s)}]
<1>1. n \in Nat /\ IsTask(T) /\ k \in Nat
  BY DEF IsWay, IsPlain
<1>2. /\ tr[0] = InitialState(T)
      /\ \A i \in 0 .. n : tr[i] \in StatesOf(T)
      /\ \A i \in 1 .. n : tr[i] = successor(T.ops[plan[i][2]], tr[i - 1])
  <2>1. \A i \in 1 .. n : plan[i][2] \in OpsOf(T)
    BY WayStep
  <2>2. QED
    BY <1>1, <2>1, TracedAre
<1>3. \A i \in 0 .. k : \A s : s \in I[i] <=> s \in StatesOf(T) /\ includes(At(abs, plan, i), s)
  OBVIOUS
<1>4. ASSUME NEW i \in 1 .. k
      PROVE  /\ is_applicable(T.ops[plan[i][2]], tr[i - 1])
             /\ includes(At(abs, plan, i), tr[i])
             /\ tr[i] \in StatesOf(T)
  <2>1. i \in 1 .. n /\ i - 1 \in 0 .. n /\ i - 1 # n /\ i - 1 < k /\ i - 1 + 1 = i /\ i \in 0 .. n
    BY <1>1
  <2>2. FlawsAfter(T, goal, abs, plan, i - 1) = {}
    BY <2>1
  <2>3. plan[i][3] = At(abs, plan, i)
    BY <2>1, WayStep
  <2>4. is_applicable(T.ops[plan[i][2]], tr[i - 1]) /\ includes(plan[i][3], successor(T.ops[plan[i][2]], tr[i - 1]))
    BY <2>1, <2>2 DEF FlawsAfter
  <2>5. QED
    BY <1>2, <2>1, <2>3, <2>4
<1>5. includes(At(abs, plan, 0), tr[0])
  BY <1>2 DEF IsAbstraction, At
<1> HIDE DEF tr, I, n
<1>6. \A i \in 0 .. k : includes(At(abs, plan, i), tr[i])
  <2>1. ASSUME NEW i \in 0 .. k
        PROVE  includes(At(abs, plan, i), tr[i])
    <3>1. CASE i = 0
      BY <1>5, <3>1
    <3>2. CASE i # 0
      <4>1. i \in 1 .. k
        BY <1>1, <3>2
      <4>2. QED
        BY <1>4, <4>1
    <3>3. QED
      BY <3>1, <3>2
  <2>2. QED
    BY <2>1
<1>7. QED
  BY <1>4, <1>6 DEF Followed, tr

LEMMA FlawIs ==
  ASSUME NEW T, IsPlain(T), NEW goal \in Goals(T), NEW abs, IsAbstraction(T, abs),
         Covers(T, goal, abs), GoalsHold(T, goal, abs), NEW plan, IsWay(T, abs, plan),
         NEW flaw \in find_flaw(T, goal, abs, plan), NEW x \in get_possible_splits(T, flaw)
  PROVE  SplitsWell(T, goal, abs, flaw.current, x[1], x[2])
<1> DEFINE n == Len(plan)
           failing == {i \in 0 .. n : FlawsAfter(T, goal, abs, plan, i) # {}}
           k == Least(failing)
<1>1. n \in Nat
  BY DEF IsWay
<1>2. failing # {} /\ flaw \in FlawsAfter(T, goal, abs, plan, k)
  BY DEF find_flaw
<1>3. failing \subseteq Nat
  BY <1>1
<1> HIDE DEF k
<1>4. k \in failing /\ \A i \in failing : k <= i
  <2> HIDE DEF failing
  <2>1. QED
    BY <1>2, <1>3, LeastIn DEF k
<1>5. k \in 0 .. n /\ \A i \in 0 .. n : i < k => FlawsAfter(T, goal, abs, plan, i) = {}
  <2>1. k \in Nat
    BY <1>3, <1>4
  <2>2. ASSUME NEW i \in 0 .. n, i < k
        PROVE  i \notin failing
    <3>1. i \in failing => k <= i
      BY <1>4
    <3>2. i \in Nat
      BY <1>1
    <3>3. QED
      BY <2>1, <2>2, <3>1, <3>2
  <2>3. QED
    BY <1>4, <2>2
<1>6. Followed(T, abs, plan, k)
  BY <1>5, FollowedIs
<1>7. QED
  BY <1>2, <1>5, <1>6, FlawAtIs

\* A split that is made for a flaw of a cheapest plan.
LEMMA RefinedIs ==
  ASSUME NEW T, IsPlain(T), NEW goal \in Goals(T), NEW costs \in [OpsOf(T) -> Nat],
         NEW abs0, IsAbstraction(T, abs0), Covers(T, goal, abs0), GoalsHold(T, goal, abs0), Guides(abs0, costs),
         NEW plan \in find_solution(abs0, costs)
  PROVE  LET abs == [abs0 EXCEPT !.h = extract_solution(@, plan, costs)] IN
         /\ IsAbstraction(T, abs) /\ Covers(T, goal, abs) /\ GoalsHold(T, goal, abs) /\ Guides(abs, costs)
         /\ \A flaw \in find_flaw(T, goal, abs, plan) : \A x \in get_possible_splits(T, flaw) :
              LET r == refine(T, abs, flaw.current, x[1], x[2])
              IN IsAbstraction(T, r) /\ Covers(T, goal, r) /\ GoalsHold(T, goal, r) /\ Guides(r, costs)
<1> DEFINE g == extract_solution(abs0.h, plan, costs)
           abs == [abs0 EXCEPT !.h = g]
           d == AbstractDistances(abs0, costs, abs0.goals)
<1>1. IsWay(T, abs0, plan)
  BY WayIs
<1>2. g \in [States(abs0) -> 0 .. INFTY] /\ \A a \in States(abs0) : g[a] <= d[a]
  BY ExtractedIs
<1>3. /\ IsAbstraction(T, abs) /\ abs.goals = abs0.goals /\ abs.h = g /\ abs.init = abs0.init
      /\ abs.trans = abs0.trans /\ States(abs) = States(abs0)
  BY <1>2, WithHeights
<1>4. abs = [abs0 EXCEPT !.h = extract_solution(@, plan, costs)]
  OBVIOUS
<1> HIDE DEF abs
<1>5. Covers(T, goal, abs) /\ GoalsHold(T, goal, abs)
  BY <1>3 DEF Covers, GoalsHold
<1>6. AbstractDistances(abs, costs, abs.goals) = d
  BY <1>3 DEF AbstractDistances
<1>7. Guides(abs, costs)
  BY <1>2, <1>3, <1>6 DEF Guides
<1>8. \A i : At(abs, plan, i) = At(abs0, plan, i)
  BY <1>3 DEF At
<1>9. IsWay(T, abs, plan)
  BY <1>1, <1>3, <1>8 DEF IsWay
<1>10. ASSUME NEW flaw \in find_flaw(T, goal, abs, plan), NEW x \in get_possible_splits(T, flaw)
       PROVE  LET r == refine(T, abs, flaw.current, x[1], x[2])
              IN IsAbstraction(T, r) /\ Covers(T, goal, r) /\ GoalsHold(T, goal, r) /\ Guides(r, costs)
  <2> DEFINE a == flaw.current
             v == x[1]
             w == x[2]
             r == refine(T, abs, a, v, w)
  <2>1. SplitsWell(T, goal, abs, a, v, w)
    BY <1>3, <1>5, <1>9, FlawIs
  <2> HIDE DEF a, v, w
  <2>2. CanSplit(T, abs, a, v, w)
    BY <2>1 DEF SplitsWell
  <2>3. IsAbstraction(T, r) /\ Guides(r, costs)
    BY <1>3, <1>7, <2>2, RefineIs, RefineGuides
  <2>4. Covers(T, goal, r) /\ GoalsHold(T, goal, r)
    <3>1. CASE a \notin abs.goals
      BY <1>3, <1>5, <2>2, <3>1, OtherSplit
    <3>2. CASE a \in abs.goals
      <4>1. PICK f \in goal : v = f[1] /\ w = {f[2]} /\ f[2] \in a[f[1]] /\ a[f[1]] # {f[2]}
        BY <2>1, <3>2 DEF SplitsWell
      <4>2. CanSplit(T, abs, a, f[1], {f[2]}) /\ r = refine(T, abs, a, f[1], {f[2]})
        BY <2>2, <4>1
      <4>3. QED
        BY <1>3, <1>5, <3>2, <4>1, <4>2, GoalSplit
    <3>3. QED
      BY <3>1, <3>2
  <2>5. QED
    BY <2>3, <2>4 DEF a, v, w
<1>11. QED
  BY <1>3, <1>4, <1>5, <1>7, <1>10

-----------------------------------------------------------------------------
(* The costs that are left.                                                *)

LEMMA LargestBelow ==
  ASSUME NEW b \in Int, NEW S \in SUBSET Int, S # {}, \A k \in S : k <= b
  PROVE  Largest(S) \in S
<1> DEFINE D == {n \in Nat : b - n \in S}
<1>1. D \in SUBSET Nat
  OBVIOUS
<1>2. D # {}
  <2>1. PICK n \in S : TRUE
    OBVIOUS
  <2>2. n \in Int /\ n <= b
    OBVIOUS
  <2>3. b - n \in Nat /\ b - (b - n) = n
    BY <2>2
  <2>4. QED
    BY <2>1, <2>3
<1>3. PICK m \in D : \A n \in D : m <= n
  <2> HIDE DEF D
  <2>1. QED
    BY <1>1, <1>2, LeastNatural
<1>4. b - m \in S
  OBVIOUS
<1>5. ASSUME NEW k \in S
      PROVE  k <= b - m
  <2>1. k \in Int /\ k <= b
    OBVIOUS
  <2>2. b - k \in Nat /\ b - (b - k) = k
    BY <2>1
  <2>3. b - k \in D
    BY <2>2
  <2>4. m <= b - k /\ m \in Nat
    BY <1>3, <2>3
  <2>5. QED
    BY <2>1, <2>4
<1>6. QED
  BY <1>4, <1>5 DEF Largest

\* An operator is never charged more than it costs.
LEMMA SaturatedIs ==
  ASSUME NEW T, NEW abs, IsAbstraction(T, abs), NEW costs \in [OpsOf(T) -> Nat],
         abs.h = AbstractDistances(abs, costs, abs.goals), NEW g, NEW general, NEW o \in OpsOf(T)
  PROVE  LET c == Saturated(abs, costs, g, general, o) IN c \in Int /\ c <= costs[o]
<1> DEFINE h == abs.h
           alive(a) == g[a] < INFTY /\ h[a] < INFTY
           steps == {x \in abs.trans : x[2] = o /\ alive(x[1])}
           moving == {y \in steps : y[1] # y[3] /\ h[y[3]] < INFTY}
           A == {IF general THEN -INFTY ELSE 0}
           B == {h[x[1]] - h[x[3]] : x \in moving}
           C == IF general /\ \E x \in steps : x[1] = x[3] THEN {0} ELSE {}
           S == A \cup B \cup C
<1>1. Saturated(abs, costs, g, general, o) = Largest(S)
  BY DEF Saturated
<1>2. costs[o] \in Nat /\ INFTY \in Nat
  BY InftyIs
<1>3. ASSUME NEW k \in B
      PROVE  k \in Int /\ k <= costs[o]
  <2>1. PICK x \in moving : k = h[x[1]] - h[x[3]]
    OBVIOUS
  <2>2. x \in abs.trans /\ x[2] = o
    OBVIOUS
  <2>3. PICK a \in States(abs), p \in OpsOf(T), b \in States(abs) : x = <<a, p, b>>
    BY <2>2, AbstractionIs
  <2>4. h \in [States(abs) -> 0 .. INFTY] /\ h[x[1]] <= h[x[3]] + costs[x[2]]
    BY <2>2, AbstractDistancesAre
  <2> HIDE DEF h, moving, steps
  <2>5. h[a] \in 0 .. INFTY /\ h[b] \in 0 .. INFTY /\ h[a] <= h[b] + costs[o] /\ k = h[a] - h[b]
    BY <2>1, <2>2, <2>3, <2>4
  <2>6. QED
    BY <1>2, <2>5
<1>4. \A k \in A : k \in Int /\ k <= costs[o]
  BY <1>2
<1>5. \A k \in C : k \in Int /\ k <= costs[o]
  BY <1>2
<1>6. A # {}
  OBVIOUS
<1> HIDE DEF A, B, C
<1>7. S \in SUBSET Int /\ S # {} /\ \A k \in S : k <= costs[o]
  BY <1>3, <1>4, <1>5, <1>6
<1>8. Largest(S) \in S
  <2> HIDE DEF S
  <2>1. ASSUME NEW b, b = costs[o]
        PROVE  Largest(S) \in S
    <3>1. b \in Int /\ \A k \in S : k <= b
      BY <1>2, <1>7, <2>1
    <3>2. QED
      BY <1>7, <3>1, LargestBelow
  <2>2. QED
    BY <2>1
<1> HIDE DEF S
<1>9. QED
  BY <1>1, <1>7, <1>8

LEMMA RemainingCostsAre ==
  ASSUME NEW T, NEW abs, IsAbstraction(T, abs), NEW costs \in [OpsOf(T) -> Nat], NEW general
  PROVE  reduce_remaining_costs(costs, get_saturated_costs(update_h_values(abs, costs), costs, general))
           \in [OpsOf(T) -> Nat]
<1> DEFINE d == AbstractDistances(abs, costs, abs.goals)
           x == update_h_values(abs, costs)
           g == get_g_values(x, costs)
           saturated == get_saturated_costs(x, costs, general)
<1>1. d \in [States(abs) -> 0 .. INFTY]
  BY AbstractDistancesAre
<1>2. x = [abs EXCEPT !.h = d]
  BY DEF update_h_values
<1>3. IsAbstraction(T, x) /\ x.goals = abs.goals /\ x.h = d /\ x.trans = abs.trans /\ States(x) = States(abs)
  <2> HIDE DEF d, x
  <2>1. QED
    BY <1>1, <1>2, WithHeights
<1>4. x.h = AbstractDistances(x, costs, x.goals)
  BY <1>3 DEF AbstractDistances
<1>5. saturated = [o \in OpsOf(T) |-> Saturated(x, costs, g, general, o)]
  BY DEF get_saturated_costs
<1> HIDE DEF x, g, saturated
<1>6. \A o \in OpsOf(T) : saturated[o] \in Int /\ saturated[o] <= costs[o]
  BY <1>3, <1>4, <1>5, SaturatedIs
<1>7. ASSUME NEW o \in OpsOf(T)
      PROVE  (IF costs[o] = INFTY \/ saturated[o] = -INFTY THEN INFTY ELSE costs[o] - saturated[o]) \in Nat
  <2>1. saturated[o] \in Int /\ saturated[o] <= costs[o] /\ costs[o] \in Nat /\ INFTY \in Nat
    BY <1>6, InftyIs
  <2>2. QED
    BY <2>1
<1>8. DOMAIN costs = OpsOf(T)
  OBVIOUS
<1>9. QED
  BY <1>7, <1>8 DEF reduce_remaining_costs, saturated, x

-----------------------------------------------------------------------------
(* The subtasks.                                                           *)

LEMMA SubtasksAre ==
  ASSUME NEW T, IsPlain(T), NEW generator \in {"original", "goals", "landmarks"},
         NEW q \in get_subtasks(T, generator)
  PROVE  q \in Seq(Goals(T))
<1> DEFINE Ordered(F) == LET s == SetToSeq({{f} : f \in F \ FactsIn(InitialState(T))}) IN {s, Reverse(s)}
<1>1. IsTask(T) /\ IsFiniteSet(FactsOf(T)) /\ T.goal \subseteq FactsOf(T) /\ OneValueEach(T.goal)
  BY FactsFinite DEF IsPlain, IsConsistent, IsTask
<1>2. ASSUME NEW F \in SUBSET FactsOf(T), q \in Ordered(F)
      PROVE  q \in Seq(Goals(T))
  <2> DEFINE S == {{f} : f \in F \ FactsIn(InitialState(T))}
             s == SetToSeq(S)
             G == Goals(T)
  <2>1. S \subseteq SUBSET FactsOf(T) /\ IsFiniteSet(SUBSET FactsOf(T))
    BY <1>1, FS_SUBSET
  <2>2. S \subseteq G
    BY DEF Goals, OneValueEach
  <2>3. IsFiniteSet(S)
    BY <2>1, FS_Subset
  <2>4. q = s \/ q = Reverse(s)
    BY <1>2
  <2> HIDE DEF S, G, s
  <2>5. s \in Seq(S)
    BY <2>3, SequenceIs DEF s
  <2>6. s \in Seq(G)
    BY <2>2, <2>5
  <2>7. Len(s) \in Nat /\ \A i \in 1 .. Len(s) : s[i] \in G
    BY <2>6
  <2>8. \A i \in 1 .. Len(s) : Len(s) - i + 1 \in 1 .. Len(s)
    BY <2>7
  <2>9. Reverse(s) \in [1 .. Len(s) -> G]
    BY <2>7, <2>8 DEF Reverse
  <2>10. Reverse(s) \in Seq(G)
    BY <2>7, <2>9
  <2>11. QED
    BY <2>4, <2>6, <2>10 DEF G
<1>3. CASE generator = "original"
  <2>1. q = <<T.goal>>
    BY <1>3 DEF get_subtasks
  <2>2. T.goal \in Goals(T)
    BY <1>1 DEF Goals
  <2>3. QED
    BY <2>1, <2>2
<1>4. CASE generator = "goals"
  <2>1. q \in Ordered(T.goal)
    BY <1>4 DEF get_subtasks
  <2>2. QED
    BY <1>1, <1>2, <2>1
<1>5. CASE generator = "landmarks"
  <2>1. q \in Ordered(FactLandmarks(T)) /\ FactLandmarks(T) \subseteq FactsOf(T)
    BY <1>5 DEF get_subtasks, FactLandmarks
  <2>2. QED
    BY <1>2, <2>1
<1>6. QED
  BY <1>3, <1>4, <1>5

-----------------------------------------------------------------------------
(* The invariant of Cegar.                                                 *)

(***************************************************************************)
(* The inductive invariant.  An abstraction is a partition of the states   *)
(* into Cartesian sets with exactly their transitions; its goal states     *)
(* have all states with the goal, and nothing else unless they are beyond  *)
(* it, so that the first flaw splits a state properly; and its distances   *)
(* are lower bounds, which depends on costs that are natural numbers.      *)
(***************************************************************************)
Refining(T, goal, abs, costs) ==
  IsAbstraction(T, abs) /\ Covers(T, goal, abs) /\ GoalsHold(T, goal, abs) /\ Guides(abs, costs)

CegarInv ==
  /\ cTask \in DOMAIN Tasks
  /\ cPc \in {"idle", "next", "refine", "finish"}
  /\ cPc # "idle" => /\ IsPlain(cT)
                     /\ cCosts \in [OpsOf(cT) -> Nat]
                     /\ cSubtasks \in Seq(Goals(cT))
  /\ cPc \in {"refine", "finish"} => /\ cSubtasks # <<>>
                                     /\ Refining(cT, Head(cSubtasks), cAbstraction, cCosts)

LEMMA InitCegar ==
  ASSUME NEW t \in DOMAIN Tasks, CegarIdle(t) \/ CegarInit(t)
  PROVE  CegarInv
<1>1. CASE CegarIdle(t)
  BY <1>1 DEF CegarIdle, CegarInv
<1>2. CASE CegarInit(t)
  <2> DEFINE T == Tasks[t]
  <2>1. ~ has_conditional_effects(T) /\ cTask = t /\ cOptions \in CegarOptions /\ cPc = "next" /\ cT = T
    BY <1>2 DEF CegarInit, cT
  <2>2. IsPlain(T)
    BY <2>1, TasksAssumption, CegarAssumption DEF CegarAssumption, TasksAssumption, IsPlain
  <2>3. cCosts \in [OpsOf(T) -> Nat]
    <3>1. \A o \in OpsOf(T) : T.ops[o].cost \in Nat
      BY <2>2, OperatorIs DEF IsPlain
    <3>2. cCosts = [o \in OpsOf(T) |-> T.ops[o].cost]
      BY <1>2 DEF CegarInit
    <3>3. QED
      BY <3>1, <3>2
  <2>4. cSubtasks \in Seq(Goals(T))
    <3> DEFINE g == cOptions.subtasks
    <3>1. g \in Seq({"original", "goals", "landmarks"}) /\ Len(g) \in 1 .. 2
      BY <2>1, CegarAssumption DEF CegarAssumption
    <3>2. Head(g) \in {"original", "goals", "landmarks"}
      BY <3>1
    <3>3. Len(g) # 1 => g[2] \in {"original", "goals", "landmarks"}
      BY <3>1
    <3>4. PICK first \in get_subtasks(T, Head(g)) :
            IF Len(g) = 1 THEN cSubtasks = first
            ELSE \E second \in get_subtasks(T, g[2]) : cSubtasks = first \o second
      BY <1>2 DEF CegarInit
    <3> HIDE DEF g, T
    <3>5. first \in Seq(Goals(T))
      BY <2>2, <3>2, SubtasksAre
    <3>6. CASE Len(g) = 1
      BY <3>4, <3>5, <3>6
    <3>7. CASE Len(g) # 1
      <4>1. PICK second \in get_subtasks(T, g[2]) : cSubtasks = first \o second
        BY <3>4, <3>7
      <4>2. second \in Seq(Goals(T))
        BY <2>2, <3>3, <3>7, SubtasksAre
      <4>3. QED
        BY <3>5, <4>1, <4>2
    <3>8. QED
      BY <3>6, <3>7
  <2>5. QED
    BY <2>1, <2>2, <2>3, <2>4 DEF CegarInv
<1>3. QED
  BY <1>1, <1>2

LEMMA StartKeeps ==
  ASSUME CegarInv, StartAbstraction
  PROVE  CegarInv'
<1>1. /\ cPc = "next" /\ cPc' \in {"refine", "finish"} /\ cSubtasks # <<>>
      /\ UNCHANGED <<cTask, cSubtasks, cCosts>> /\ cT' = cT
  BY DEF StartAbstraction, cT
<1>2. /\ cTask \in DOMAIN Tasks /\ IsPlain(cT) /\ cCosts \in [OpsOf(cT) -> Nat] /\ cSubtasks \in Seq(Goals(cT))
  BY <1>1 DEF CegarInv
<1>3. Head(cSubtasks) \in Goals(cT)
  BY <1>1, <1>2
<1>4. PICK n \in 0 .. Len(cT.dom) : cAbstraction' = Started(cT, Head(cSubtasks), n)
  BY DEF StartAbstraction
<1>5. Refining(cT, Head(cSubtasks), cAbstraction', cCosts)
  BY <1>2, <1>3, <1>4, StartedIs DEF Refining
<1>6. QED
  BY <1>1, <1>2, <1>5 DEF CegarInv

LEMMA RefineKeeps ==
  ASSUME CegarInv, Refine
  PROVE  CegarInv'
<1> DEFINE goal == Head(cSubtasks)
<1>1. cPc = "refine" /\ UNCHANGED <<cTask, cSubtasks, cCosts>> /\ cT' = cT
  BY DEF Refine, cT
<1>2. /\ cTask \in DOMAIN Tasks /\ IsPlain(cT) /\ cCosts \in [OpsOf(cT) -> Nat] /\ cSubtasks \in Seq(Goals(cT))
      /\ cSubtasks # <<>> /\ Refining(cT, goal, cAbstraction, cCosts)
  BY <1>1 DEF CegarInv
<1>3. goal \in Goals(cT)
  BY <1>2
<1>4. PICK plan \in find_solution(cAbstraction, cCosts) :
        LET abs == [cAbstraction EXCEPT !.h = extract_solution(@, plan, cCosts)]
            flaws == find_flaw(cT, goal, abs, plan)
        IN \/ flaws = {} /\ cAbstraction' = abs /\ cPc' = "finish"
           \/ /\ \E flaw \in flaws : \E x \in get_possible_splits(cT, flaw) :
                   cAbstraction' = refine(cT, abs, flaw.current, x[1], x[2])
              /\ cPc' = cPc
  BY DEF Refine
<1> DEFINE abs == [cAbstraction EXCEPT !.h = extract_solution(@, plan, cCosts)]
<1>5. /\ Refining(cT, goal, abs, cCosts)
      /\ \A flaw \in find_flaw(cT, goal, abs, plan) : \A x \in get_possible_splits(cT, flaw) :
           Refining(cT, goal, refine(cT, abs, flaw.current, x[1], x[2]), cCosts)
  BY <1>2, <1>3, RefinedIs DEF Refining
<1>6. Refining(cT, goal, cAbstraction', cCosts) /\ cPc' \in {"refine", "finish"}
  <2> HIDE DEF abs, goal
  <2>1. \/ find_flaw(cT, goal, abs, plan) = {} /\ cAbstraction' = abs /\ cPc' = "finish"
        \/ /\ \E flaw \in find_flaw(cT, goal, abs, plan) : \E x \in get_possible_splits(cT, flaw) :
                cAbstraction' = refine(cT, abs, flaw.current, x[1], x[2])
           /\ cPc' = cPc
    BY <1>4 DEF abs
  <2>2. QED
    BY <1>1, <1>5, <2>1
<1>7. QED
  BY <1>1, <1>2, <1>6 DEF CegarInv

LEMMA StopKeeps ==
  ASSUME CegarInv, Stop
  PROVE  CegarInv'
<1>1. /\ cPc = "refine" /\ cPc' = "finish"
      /\ UNCHANGED <<cTask, cSubtasks, cCosts, cAbstraction>> /\ cT' = cT
  BY DEF Stop, cT
<1>2. QED
  BY <1>1 DEF CegarInv

LEMMA FinishKeeps ==
  ASSUME CegarInv, FinishAbstraction
  PROVE  CegarInv'
<1>1. /\ cPc = "finish" /\ cPc' = "next" /\ cTask' = cTask /\ cT' = cT
      /\ cCosts' = reduce_remaining_costs(cCosts, get_saturated_costs(update_h_values(cAbstraction, cCosts), cCosts,
                                                                      cOptions.use_general_costs))
      /\ cSubtasks' = <<>> \/ cSubtasks' = Tail(cSubtasks)
  BY DEF FinishAbstraction, cT
<1>2. /\ cTask \in DOMAIN Tasks /\ IsPlain(cT) /\ cCosts \in [OpsOf(cT) -> Nat] /\ cSubtasks \in Seq(Goals(cT))
      /\ cSubtasks # <<>> /\ IsAbstraction(cT, cAbstraction)
  BY <1>1 DEF CegarInv, Refining
<1>3. cCosts' \in [OpsOf(cT) -> Nat]
  BY <1>1, <1>2, RemainingCostsAre
<1>4. cSubtasks' \in Seq(Goals(cT))
  <2>1. ASSUME NEW G, NEW q \in Seq(G), q # <<>>
        PROVE  <<>> \in Seq(G) /\ Tail(q) \in Seq(G)
    BY <2>1
  <2>2. <<>> \in Seq(Goals(cT)) /\ Tail(cSubtasks) \in Seq(Goals(cT))
    BY <1>2, <2>1
  <2>3. QED
    BY <1>1, <2>2
<1>5. QED
  BY <1>1, <1>2, <1>3, <1>4 DEF CegarInv

\* CegarInv is an invariant.
THEOREM CegarHolds == CegarSpec => []CegarInv
<1>1. (\E t \in DOMAIN Tasks : CegarIdle(t) \/ CegarInit(t)) => CegarInv
  BY InitCegar
<1>2. CegarInv /\ [CegarNext]_cegarVars => CegarInv'
  <2> SUFFICES ASSUME CegarInv, [CegarNext]_cegarVars
               PROVE  CegarInv'
    OBVIOUS
  <2>1. CASE StartAbstraction
    BY <2>1, StartKeeps
  <2>2. CASE Refine
    BY <2>2, RefineKeeps
  <2>3. CASE Stop
    BY <2>3, StopKeeps
  <2>4. CASE FinishAbstraction
    BY <2>4, FinishKeeps
  <2>5. CASE UNCHANGED cegarVars
    BY <2>5 DEF CegarInv, cegarVars, cT
  <2>6. QED
    BY <2>1, <2>2, <2>3, <2>4, <2>5 DEF CegarNext
<1>3. QED
  BY <1>1, <1>2, PTL DEF CegarSpec

-----------------------------------------------------------------------------
\* The transitions of an abstraction are those of the task.
LEMMA TransitionsAre ==
  ASSUME NEW t \in DOMAIN Tasks, IsPlain(Tasks[t]), NEW abs, IsAbstraction(Tasks[t], abs)
  PROVE  abs.trans = UNION {{<<a, x[4], b>> : a \in {y \in States(abs) : includes(y, x[1])},
                                              b \in {y \in States(abs) : includes(y, x[2])}} : x \in Transitions[t]}
<1> DEFINE T == Tasks[t]
           S == States(abs)
           In(s) == {y \in S : includes(y, s)}
           Of(x) == {<<a, x[4], b>> : a \in In(x[1]), b \in In(x[2])}
<1>1. S \subseteq Cartesian(T)
  BY AbstractionIs
<1>2. \A y : y \in abs.trans <=> \E a \in S, o \in OpsOf(T), b \in S : y = <<a, o, b>> /\ Links(T, o, a, b)
  BY AbstractionIs
<1>3. ASSUME NEW y \in abs.trans
      PROVE  y \in UNION {Of(x) : x \in Transitions[t]}
  <2>1. PICK a \in S, o \in OpsOf(T), b \in S : y = <<a, o, b>> /\ Links(T, o, a, b)
    BY <1>2
  <2>2. PICK s \in StatesOf(T) : is_applicable(T.ops[o], s) /\ includes(a, s) /\ includes(b, successor(T.ops[o], s))
    BY <1>1, <2>1, LinksAre
  <2> DEFINE r == successor(T.ops[o], s)
             x == <<s, r, T.ops[o].cost, o>>
  <2>3. x \in Transitions[t]
    BY <2>2, TransitionIs
  <2>4. x[1] = s /\ x[2] = r /\ x[4] = o
    OBVIOUS
  <2> HIDE DEF x, r, S, T
  <2>5. a \in In(x[1]) /\ b \in In(x[2])
    BY <2>2, <2>4 DEF r
  <2>6. y = <<a, x[4], b>>
    BY <2>1, <2>4
  <2>7. y \in Of(x)
    <3> HIDE DEF In
    <3>1. QED
      BY <2>5, <2>6
  <2> HIDE DEF Of
  <2>8. QED
    BY <2>3, <2>7
<1>4. ASSUME NEW x \in Transitions[t], NEW y \in Of(x)
      PROVE  y \in abs.trans
  <2>1. PICK o \in OpsOf(T), s \in StatesOf(T) :
          is_applicable(T.ops[o], s) /\ x = <<s, successor(T.ops[o], s), T.ops[o].cost, o>>
    BY TransitionIs
  <2>2. PICK a \in In(x[1]), b \in In(x[2]) : y = <<a, x[4], b>>
    <3> HIDE DEF In
    <3>1. QED
      OBVIOUS
  <2>3. a \in S /\ b \in S /\ includes(a, s) /\ includes(b, successor(T.ops[o], s)) /\ y = <<a, o, b>>
    BY <2>1, <2>2
  <2>4. Links(T, o, a, b)
    BY <1>1, <2>1, <2>3, LinksAre
  <2>5. QED
    BY <1>2, <2>3, <2>4
<1>5. abs.trans = UNION {Of(x) : x \in Transitions[t]}
  <2> HIDE DEF Of
  <2>1. QED
    BY <1>3, <1>4
<1>6. QED
  BY <1>5

\* While an abstraction is refined its states are a partition with exactly the
\* transitions of the task, its goal states have all goal states, and its
\* distances never exceed the true ones.
THEOREM AbstractionCorrect == CegarSpec => []AbstractionIsExact
<1>1. CegarInv => AbstractionIsExact
  <2> SUFFICES ASSUME CegarInv, cPc \in {"refine", "finish"}
               PROVE  LET abs == cAbstraction S == States(abs) IN
                      /\ \A s \in StatesOf(cT) : Cardinality({a \in S : includes(a, s)}) = 1
                      /\ \A a \in S : \A v \in DOMAIN a : a[v] # {}
                      /\ includes(abs.init, InitialState(cT))
                      /\ \A s \in StatesOf(cT) : Holds(s, Head(cSubtasks)) => \E a \in abs.goals : includes(a, s)
                      /\ abs.trans = UNION {{<<a, x[4], b>> : a \in {y \in S : includes(y, x[1])},
                                                              b \in {y \in S : includes(y, x[2])}} :
                                              x \in Transitions[cTask]}
                      /\ \A a \in S : abs.h[a] <= AbstractDistances(abs, cCosts, abs.goals)[a]
    BY DEF AbstractionIsExact
  <2> DEFINE abs == cAbstraction
             S == States(abs)
  <2>1. /\ cTask \in DOMAIN Tasks /\ cT = Tasks[cTask] /\ IsPlain(cT)
        /\ IsAbstraction(cT, abs) /\ Covers(cT, Head(cSubtasks), abs) /\ Guides(abs, cCosts)
    BY DEF CegarInv, Refining, cT
  <2>2. ASSUME NEW s \in StatesOf(cT)
        PROVE  Cardinality({a \in S : includes(a, s)}) = 1
    <3>1. PICK a \in S : \A b \in S : includes(b, s) <=> b = a
      BY <2>1 DEF IsAbstraction, Partitions
    <3>2. {b \in S : includes(b, s)} = {a}
      BY <3>1
    <3>3. QED
      BY <3>2, FS_Singleton
  <2>3. ASSUME NEW a \in S, NEW v \in DOMAIN a
        PROVE  a[v] # {}
    <3>1. a \in Cartesian(cT)
      BY <2>1, AbstractionIs
    <3>2. QED
      BY <3>1 DEF Cartesian
  <2>4. includes(abs.init, InitialState(cT))
    BY <2>1 DEF IsAbstraction
  <2>5. abs.trans = UNION {{<<a, x[4], b>> : a \in {y \in S : includes(y, x[1])},
                                             b \in {y \in S : includes(y, x[2])}} : x \in Transitions[cTask]}
    BY <2>1, TransitionsAre
  <2>6. QED
    BY <2>1, <2>2, <2>3, <2>4, <2>5 DEF Covers, Guides
<1>2. QED
  BY <1>1, CegarHolds, PTL
=============================================================================
