------------------------- MODULE ForbidTasksProofs --------------------------
(***************************************************************************)
(* Proofs about ForbidTasks for every parent task, every set of plans and  *)
(* every group of permutations.                                            *)
(***************************************************************************)
EXTENDS ForbidTasks, FiniteSetTheorems, RecursionLemmas, TLAPS

Multiset == [Op -> Nat]

-----------------------------------------------------------------------------
(* Numbers.                                                                *)

\* Finitely many natural numbers have an upper bound: otherwise there is a
\* least number of them that has none.
LEMMA Bounded ==
  ASSUME NEW n \in Nat, NEW f \in [1 .. n -> Nat]
  PROVE  \E b \in Nat : \A i \in 1 .. n : f[i] <= b
<1> DEFINE HasBound(k) == \E b \in Nat : \A i \in 1 .. k : f[i] <= b
           Without == {k \in 0 .. n : ~ HasBound(k)}
<1>1. HasBound(0)
  OBVIOUS
<1>2. ASSUME Without # {}
      PROVE  FALSE
  <2>1. Without \in SUBSET Nat
    OBVIOUS
  <2>2. PICK k \in Without : \A j \in Without : k <= j
    <3> HIDE DEF Without
    <3>1. QED
      BY <1>2, <2>1, LeastNatural
  <2>3. k \in 1 .. n
    BY <1>1, <2>2
  <2>4. PICK b \in Nat : \A i \in 1 .. k - 1 : f[i] <= b
    <3>1. k - 1 \in 0 .. n /\ ~ (k <= k - 1)
      BY <2>3
    <3>2. k - 1 \notin Without
      BY <2>2, <3>1
    <3>3. HasBound(k - 1)
      BY <3>1, <3>2
    <3>4. QED
      BY <3>3
  <2>5. f[k] \in Nat
    BY <2>3
  <2>6. PICK c \in Nat : c >= b /\ c >= f[k]
    <3>1. CASE b >= f[k]
      BY <2>5, <3>1
    <3>2. CASE ~ (b >= f[k])
      BY <2>5, <3>2
    <3>3. QED
      BY <3>1, <3>2
  <2>7. ASSUME NEW i \in 1 .. k
        PROVE  f[i] <= c
    <3>1. i \in 1 .. n /\ f[i] \in Nat
      BY <2>3
    <3>2. CASE i = k
      BY <2>6, <3>2
    <3>3. CASE i # k
      <4>1. i \in 1 .. k - 1
        BY <2>3, <3>3
      <4>2. f[i] <= b
        BY <2>4, <4>1
      <4>3. QED
        BY <2>6, <3>1, <4>2
    <3>4. QED
      BY <3>2, <3>3
  <2>8. HasBound(k)
    BY <2>7
  <2>9. QED
    BY <2>2, <2>8
<1>3. HasBound(n)
  <2>1. n \in 0 .. n /\ n \notin Without
    <3> HIDE DEF Without
    <3>1. QED
      BY <1>2
  <2>2. QED
    BY <2>1
<1>4. QED
  BY <1>3

\* What MaxOf returns for finitely many natural numbers.
LEMMA Largest ==
  ASSUME NEW n \in Nat, NEW f \in [1 .. n -> Nat],
         NEW S, S = {f[i] : i \in 1 .. n} \cup {0}
  PROVE  MaxOf(S) \in S /\ \A k \in S : k <= MaxOf(S)
<1> DEFINE Bounds == {b \in Nat : \A i \in 1 .. n : f[i] <= b}
<1>1. Bounds # {} /\ Bounds \in SUBSET Nat
  BY Bounded
<1>2. PICK b \in Bounds : \A c \in Bounds : b <= c
  BY <1>1, LeastNatural
<1>3. b \in S
  <2>1. CASE b = 0
    BY <2>1
  <2>2. CASE b # 0 /\ b \notin S
    <3>1. b - 1 \in Nat
      BY <2>2
    <3>2. \A i \in 1 .. n : f[i] <= b - 1
      <4>1. ASSUME NEW i \in 1 .. n
            PROVE  f[i] <= b - 1
        <5>1. f[i] \in Nat /\ f[i] <= b /\ f[i] # b
          BY <2>2
        <5>2. QED
          BY <5>1
      <4>2. QED
        BY <4>1
    <3>3. b <= b - 1
      BY <1>2, <3>1, <3>2
    <3>4. QED
      BY <3>3
  <2>3. QED
    BY <2>1, <2>2
<1>4. \A k \in S : k <= b
  OBVIOUS
<1>5. QED
  BY <1>3, <1>4 DEF MaxOf

-----------------------------------------------------------------------------
(* Multisets of plans.                                                     *)

MultisetsOf(q) == {plan_to_multiset(q[i]) : i \in DOMAIN q}

LEMMA OpNat == Op \subseteq Nat
BY TaskAssumption DEF Op

LEMMA Positions1 ==
  ASSUME NEW p \in Seq(Op), NEW o
  PROVE  /\ IsFiniteSet({i \in DOMAIN p : p[i] = o})
         /\ Cardinality({i \in DOMAIN p : p[i] = o}) \in Nat
<1>1. DOMAIN p = 1 .. Len(p) /\ Len(p) \in Nat
  OBVIOUS
<1>2. IsFiniteSet(1 .. Len(p))
  BY <1>1, FS_Interval
<1>3. IsFiniteSet({i \in DOMAIN p : p[i] = o})
  BY <1>1, <1>2, FS_Subset
<1>4. QED
  BY <1>3, FS_CardinalityType

LEMMA MultisetType ==
  ASSUME NEW p \in Seq(Op)
  PROVE  plan_to_multiset(p) \in Multiset
BY Positions1 DEF plan_to_multiset, Multiset

\* The empty plan has no operator, and appending one counts it.
LEMMA EmptyPlan ==
  \A o \in Op : plan_to_multiset(<<>>)[o] = 0
<1>1. ASSUME NEW o \in Op
      PROVE  plan_to_multiset(<<>>)[o] = 0
  <2>1. {i \in DOMAIN <<>> : <<>>[i] = o} = {}
    OBVIOUS
  <2>2. QED
    BY <2>1, FS_EmptySet DEF plan_to_multiset
<1>2. QED
  BY <1>1

LEMMA Counting ==
  ASSUME NEW p \in Seq(Op), NEW o \in Op
  PROVE  plan_to_multiset(Append(p, o)) =
           [plan_to_multiset(p) EXCEPT ![o] = plan_to_multiset(p)[o] + 1]
<1> DEFINE At(q, k) == {i \in DOMAIN q : q[i] = k}
<1>1. ASSUME NEW k \in Op, k # o
      PROVE  At(Append(p, o), k) = At(p, k)
  BY <1>1
<1>2. At(Append(p, o), o) = At(p, o) \cup {Len(p) + 1}
  OBVIOUS
<1>3. IsFiniteSet(At(p, o)) /\ Len(p) + 1 \notin At(p, o)
  BY Positions1
<1>4. Cardinality(At(Append(p, o), o)) = Cardinality(At(p, o)) + 1
  <2> HIDE DEF At
  <2>1. QED
    BY <1>2, <1>3, FS_AddElement
<1>5. \A q : plan_to_multiset(q) = [k \in Op |-> Cardinality(At(q, k))]
  BY DEF plan_to_multiset
<1>6. QED
  <2> HIDE DEF At
  <2>1. QED
    BY <1>1, <1>4, <1>5

\* The multiset of a permuted plan depends on that of the plan only.
LEMMA ImageOfPlan ==
  ASSUME NEW p \in Seq(Op), NEW sigma \in [Op -> Op],
         \A o \in Op : \E k \in Op : sigma[k] = o,
         \A k, l \in Op : sigma[k] = sigma[l] => k = l
  PROVE  /\ Permuted(p, sigma) \in Seq(Op)
         /\ plan_to_multiset(Permuted(p, sigma)) = PermutedCounts(plan_to_multiset(p), sigma)
<1>1. Permuted(p, sigma) \in Seq(Op)
  BY DEF Permuted
<1>2. ASSUME NEW o \in Op
      PROVE  plan_to_multiset(Permuted(p, sigma))[o] = PermutedCounts(plan_to_multiset(p), sigma)[o]
  <2> DEFINE k == CHOOSE l \in Op : sigma[l] = o
  <2>1. k \in Op /\ sigma[k] = o
    OBVIOUS
  <2> HIDE DEF k
  <2>2. DOMAIN Permuted(p, sigma) = DOMAIN p
    BY DEF Permuted
  <2>3. \A i \in DOMAIN p : p[i] \in Op /\ Permuted(p, sigma)[i] = sigma[p[i]]
    BY DEF Permuted
  <2>4. {i \in DOMAIN Permuted(p, sigma) : Permuted(p, sigma)[i] = o} = {i \in DOMAIN p : p[i] = k}
    BY <2>1, <2>2, <2>3
  <2>5. plan_to_multiset(Permuted(p, sigma))[o] = plan_to_multiset(p)[k]
    BY <2>1, <2>4 DEF plan_to_multiset
  <2>6. QED
    BY <2>5 DEF PermutedCounts, k
<1>3. QED
  BY <1>1, <1>2 DEF plan_to_multiset, PermutedCounts

LEMMA MultisetsOfAppend ==
  ASSUME NEW q \in Seq(Seq(Op)), NEW p \in Seq(Op)
  PROVE  MultisetsOf(Append(q, p)) = MultisetsOf(q) \cup {plan_to_multiset(p)}
<1> DEFINE r == Append(q, p)
<1>1. /\ DOMAIN r = DOMAIN q \cup {Len(q) + 1}
      /\ \A i \in DOMAIN q : r[i] = q[i]
      /\ r[Len(q) + 1] = p
  OBVIOUS
<1> HIDE DEF r
<1>2. MultisetsOf(r) = MultisetsOf(q) \cup {plan_to_multiset(p)}
  BY <1>1 DEF MultisetsOf
<1>3. QED
  BY <1>2 DEF r

\* The union of multisets is the least multiset that each of them is within.
LEMMA Union ==
  ASSUME NEW q \in Seq(Seq(Op))
  PROVE  LET u == multiset_union(MultisetsOf(q)) IN
         /\ u \in Multiset
         /\ \A m \in MultisetsOf(q) : Within(m, u)
         /\ \A o \in Op : u[o] = 0 \/ \E m \in MultisetsOf(q) : m[o] = u[o]
<1> DEFINE u == multiset_union(MultisetsOf(q))
<1>1. \A i \in 1 .. Len(q) : plan_to_multiset(q[i]) \in Multiset
  BY MultisetType
<1>0. \A m : m \in MultisetsOf(q) <=> \E i \in 1 .. Len(q) : m = plan_to_multiset(q[i])
  <2>1. DOMAIN q = 1 .. Len(q)
    OBVIOUS
  <2>2. QED
    BY <2>1 DEF MultisetsOf
<1>2. ASSUME NEW o \in Op
      PROVE  /\ u[o] \in Nat
             /\ \A m \in MultisetsOf(q) : m[o] <= u[o]
             /\ u[o] = 0 \/ \E m \in MultisetsOf(q) : m[o] = u[o]
  <2> DEFINE S == {m[o] : m \in MultisetsOf(q)} \cup {0}
             f == [i \in 1 .. Len(q) |-> plan_to_multiset(q[i])[o]]
  <2>1. S = {f[i] : i \in 1 .. Len(q)} \cup {0}
    <3>1. \A i \in 1 .. Len(q) : f[i] = plan_to_multiset(q[i])[o]
      OBVIOUS
    <3>2. \A x : x \in S <=> x = 0 \/ \E i \in 1 .. Len(q) : x = plan_to_multiset(q[i])[o]
      BY <1>0
    <3> HIDE DEF S, f
    <3>3. \A x : x \in S <=> x = 0 \/ \E i \in 1 .. Len(q) : x = f[i]
      BY <3>1, <3>2
    <3>4. \A x : x \in S <=> x \in {f[i] : i \in 1 .. Len(q)} \cup {0}
      BY <3>3, Zenon
    <3>5. QED
      BY <3>4, Zenon
  <2>2. f \in [1 .. Len(q) -> Nat]
    BY <1>1 DEF Multiset
  <2>3. Len(q) \in Nat
    OBVIOUS
  <2>4. \A n \in S : n \in Nat
    BY <1>1, <1>0 DEF Multiset
  <2>5. u[o] = MaxOf(S)
    BY DEF multiset_union
  <2>6. MaxOf(S) \in S /\ \A k \in S : k <= MaxOf(S)
    <3> HIDE DEF S, f
    <3>1. QED
      BY <2>1, <2>2, <2>3, Largest
  <2>7. QED
    BY <2>4, <2>5, <2>6
<1>3. u \in Multiset
  BY <1>2 DEF Multiset, multiset_union
<1>4. QED
  BY <1>2, <1>3 DEF Within

-----------------------------------------------------------------------------
(* The inductive invariant.                                                *)

Unfinished == number_of_plans = -1 \/ Len(plans) < number_of_plans

TypeOK ==
  /\ kind \in Kinds /\ gens \in Groups /\ number_of_plans \in Limits /\ input \in Inputs
  /\ pc \in {"read", "round", "extend", "build", "task", "exited"}
  /\ plans \in Seq(Seq(Op)) /\ plans_sets \in SUBSET Multiset
  /\ frontier \in Seq(Seq(Op)) /\ new_frontier \in Seq(Seq(Op))
  /\ generator \in Nat \ {0} /\ position \in Nat \ {0}
  /\ cur \in State /\ run \in Seq(Op)
  /\ kind = "plan" => /\ Len(input) = 1 /\ number_of_plans = -1 /\ plans = input
                      /\ pc \in {"build", "task", "exited"}

Reading ==
  pc = "read" =>
    /\ plans = input /\ new_frontier = <<>> /\ position <= Len(input) + 1
    /\ plans_sets = {plan_to_multiset(input[i]) : i \in 1 .. position - 1}
    /\ MultisetsOf(frontier) = plans_sets

Known ==
  kind # "plan" /\ pc # "read" =>
    /\ plans_sets = MultisetsOf(plans) /\ MultisetsOf(input) \subseteq plans_sets
    /\ MultisetsOf(frontier) \subseteq plans_sets /\ MultisetsOf(new_frontier) \subseteq plans_sets

\* The images of m are known.
Closed(m) == \A k \in DOMAIN gens : PermutedCounts(m, gens[k]) \in plans_sets

\* Only plans in a frontier may have images that are not known,
Done ==
  pc \in {"round", "extend"} /\ Unfinished =>
    \A m \in plans_sets :
      m \in MultisetsOf(frontier) \/ (pc = "extend" /\ m \in MultisetsOf(new_frontier)) \/ Closed(m)

\* and a round learns these, generator by generator and plan by plan.
Applied ==
  pc = "extend" /\ Unfinished =>
    \A i \in DOMAIN frontier : \A k \in DOMAIN gens :
      k < generator \/ (k = generator /\ i < position) =>
        PermutedCounts(plan_to_multiset(frontier[i]), gens[k]) \in plans_sets

Complete ==
  pc \in {"build", "task"} /\ kind # "plan" /\ Unfinished => \A m \in plans_sets : Closed(m)

Least == \A M \in SUBSET Multiset : Symmetric(M) => plans_sets \subseteq M

Fresh == (pc # "task" => run = <<>>) /\ (pc = "task" => Unfinished)

ExtensionInv == TypeOK /\ Reading /\ Known /\ Done /\ Applied /\ Complete /\ Least /\ Fresh

LEMMA Enough == ASSUME TypeOK PROVE Unfinished <=> ~ enough_plans_found
BY TaskAssumption DEF TypeOK, Unfinished, enough_plans_found

\* The image of a plan under a generator.
LEMMA Generators ==
  ASSUME TypeOK, NEW p \in Seq(Op), NEW k \in DOMAIN gens
  PROVE  /\ Permuted(p, gens[k]) \in Seq(Op)
         /\ plan_to_multiset(Permuted(p, gens[k])) \in Multiset
         /\ plan_to_multiset(Permuted(p, gens[k])) = PermutedCounts(plan_to_multiset(p), gens[k])
<1>1. gens \in Groups /\ gens \in Seq([Op -> Op])
  BY TaskAssumption DEF TypeOK
<1>2. gens[k] \in [Op -> Op]
  BY <1>1
<1>3. /\ \A o \in Op : \E l \in Op : gens[k][l] = o
      /\ \A j, l \in Op : gens[k][j] = gens[k][l] => j = l
  BY <1>1, TaskAssumption
<1>4. Permuted(p, gens[k]) \in Seq(Op) /\ plan_to_multiset(Permuted(p, gens[k])) = PermutedCounts(plan_to_multiset(p), gens[k])
  BY <1>2, <1>3, ImageOfPlan
<1>5. QED
  BY <1>4, MultisetType

LEMMA InitialExtension ==
  Init => ExtensionInv
<1> SUFFICES ASSUME Init
             PROVE  ExtensionInv
  OBVIOUS
<1>1. input \in Inputs /\ input \in Seq(Seq(Op))
  BY TaskAssumption DEF Init
<1>2. MultisetsOf(<<>>) = {}
  BY DEF MultisetsOf
<1>3. TypeOK
  BY <1>1, TaskAssumption DEF Init, TypeOK, Multiset
<1>4. Reading
  <2>1. {plan_to_multiset(input[i]) : i \in 1 .. 1 - 1} = {}
    OBVIOUS
  <2>2. QED
    BY <1>1, <1>2, <2>1 DEF Init, Reading
<1>5. Known /\ Done /\ Applied /\ Least /\ Fresh
  BY DEF Init, Known, Done, Applied, Least, Fresh
<1>6. Complete
  BY DEF Init, Complete
<1>7. QED
  BY <1>3, <1>4, <1>5, <1>6 DEF ExtensionInv

-----------------------------------------------------------------------------
(* Every step preserves the invariant.                                     *)

LEMMA OptionsStay ==
  ASSUME NEW M, UNCHANGED <<input, gens>>
  PROVE  Symmetric(M) <=> Symmetric(M)'
BY DEF Symmetric

LEMMA ReadPlanStep ==
  ASSUME ExtensionInv, ReadPlan
  PROVE  ExtensionInv'
<1> DEFINE p == input[position]
           m == plan_to_multiset(p)
<1> USE DEF ReadPlan, options
<1>1. /\ TypeOK /\ Reading /\ Least /\ Fresh /\ pc = "read" /\ pc' = "read"
      /\ plans_sets' = plans_sets \cup {m} /\ position' = position + 1
      /\ frontier' = IF m \in plans_sets THEN frontier ELSE Append(frontier, p)
      /\ UNCHANGED <<kind, gens, number_of_plans, input, plans, new_frontier, generator, cur, run>>
      /\ position \in DOMAIN input
  BY DEF ExtensionInv
<1>2. input \in Seq(Seq(Op)) /\ p \in Seq(Op) /\ m \in Multiset /\ position \in Nat /\ position >= 1
  <2>1. input \in Seq(Seq(Op)) /\ position \in Nat /\ position >= 1
    BY <1>1, TaskAssumption DEF TypeOK
  <2>2. p \in Seq(Op)
    BY <1>1, <2>1
  <2>3. QED
    BY <2>1, <2>2, MultisetType
<1> USE DEF TypeOK
<1> HIDE DEF ReadPlan, m, p
<1>3. TypeOK'
  BY <1>1, <1>2
<1>4. Reading'
  <2>1. plans_sets = {plan_to_multiset(input[i]) : i \in 1 .. position - 1}
    BY <1>1 DEF Reading
  <2>2. 1 .. position' - 1 = (1 .. position - 1) \cup {position}
    BY <1>1, <1>2
  <2>3. m = plan_to_multiset(input[position])
    BY DEF m, p
  <2>4. plans_sets' = {plan_to_multiset(input'[i]) : i \in 1 .. position' - 1}
    BY <1>1, <2>1, <2>2, <2>3
  <2>5. MultisetsOf(frontier') = plans_sets'
    <3>1. MultisetsOf(frontier) = plans_sets
      BY <1>1 DEF Reading
    <3>2. MultisetsOf(Append(frontier, p)) = MultisetsOf(frontier) \cup {m}
      BY <1>1, <1>2, MultisetsOfAppend DEF m
    <3>3. QED
      BY <1>1, <3>1, <3>2
  <2>6. plans' = input' /\ new_frontier' = <<>> /\ position' <= Len(input') + 1
    <3>1. position <= Len(input)
      BY <1>1, <1>2
    <3>2. Len(input) \in Nat
      BY <1>2
    <3>3. QED
      BY <1>1, <1>2, <3>1, <3>2 DEF Reading
  <2>7. MultisetsOf(frontier)' = MultisetsOf(frontier')
    BY DEF MultisetsOf
  <2>8. QED
    BY <2>4, <2>5, <2>6, <2>7 DEF Reading
<1>5. Known' /\ Done' /\ Applied' /\ Complete' /\ Fresh'
  BY <1>1 DEF Known, Done, Applied, Complete, Fresh
<1>6. Least'
  <2>1. ASSUME NEW M \in SUBSET Multiset, Symmetric(M)
        PROVE  plans_sets' \subseteq M
    <3>1. m \in M
      BY <1>1, <2>1 DEF Symmetric, m, p
    <3>2. plans_sets \subseteq M
      BY <1>1, <2>1 DEF Least
    <3>3. QED
      BY <1>1, <3>1, <3>2
  <2>2. QED
    BY <1>1, <2>1, OptionsStay DEF Least
<1>7. QED
  BY <1>3, <1>4, <1>5, <1>6 DEF ExtensionInv

LEMMA AllReadStep ==
  ASSUME ExtensionInv, AllRead
  PROVE  ExtensionInv'
<1>1. /\ TypeOK /\ Reading /\ Least /\ Fresh /\ pc = "read" /\ pc' = "round"
      /\ UNCHANGED <<kind, gens, number_of_plans, input, plans, plans_sets, frontier,
                     new_frontier, generator, position, cur, run>>
      /\ position \notin DOMAIN input
  BY DEF ExtensionInv, AllRead, options, call
<1>2. input \in Seq(Seq(Op)) /\ position \in Nat /\ position >= 1 /\ position <= Len(input) + 1
  BY <1>1, TaskAssumption DEF TypeOK, Reading
<1>3. TypeOK' /\ Reading' /\ Applied' /\ Complete' /\ Fresh'
  BY <1>1 DEF TypeOK, Reading, Applied, Complete, Fresh
<1>4. plans_sets = MultisetsOf(input)
  <2>1. position - 1 = Len(input)
    BY <1>1, <1>2
  <2>2. DOMAIN input = 1 .. Len(input)
    BY <1>2
  <2>3. QED
    BY <1>1, <2>1, <2>2 DEF Reading, MultisetsOf
<1>5. Known'
  <2>1. MultisetsOf(new_frontier) = {}
    BY <1>1 DEF Reading, MultisetsOf
  <2>2. QED
    BY <1>1, <1>4, <2>1 DEF Known, Reading, MultisetsOf
<1>6. Done'
  BY <1>1 DEF Done, Reading, MultisetsOf
<1>7. Least'
  BY <1>1, OptionsStay DEF Least
<1>8. QED
  BY <1>3, <1>5, <1>6, <1>7 DEF ExtensionInv

LEMMA StartRoundStep ==
  ASSUME ExtensionInv, StartRound
  PROVE  ExtensionInv'
<1>1. /\ TypeOK /\ Known /\ Done /\ Least /\ Fresh
      /\ pc = "round" /\ pc' = IF enough_plans_found THEN "build" ELSE "extend"
      /\ new_frontier' = <<>> /\ generator' = 1 /\ position' = 1
      /\ UNCHANGED <<kind, gens, number_of_plans, input, plans, plans_sets, frontier, cur, run>>
  BY DEF ExtensionInv, StartRound, options
<1>2. kind # "plan"
  BY <1>1 DEF TypeOK
<1>3. TypeOK' /\ Reading' /\ Fresh'
  BY <1>1, <1>2 DEF TypeOK, Reading, Fresh
<1>4. Known'
  BY <1>1 DEF Known, MultisetsOf
<1>5. Done' /\ Complete'
  <2>1. CASE enough_plans_found
    <3>1. ~ Unfinished'
      BY <1>1, <2>1, Enough DEF Unfinished
    <3>2. QED
      BY <3>1 DEF Done, Complete
  <2>2. CASE ~ enough_plans_found
    <3>1. pc' = "extend" /\ Unfinished
      BY <1>1, <2>2, Enough
    <3>2. QED
      BY <1>1, <3>1 DEF Done, Complete, Closed, MultisetsOf
  <2>3. QED
    BY <2>1, <2>2
<1>6. Applied'
  <2>1. ASSUME NEW i \in DOMAIN frontier, NEW k \in DOMAIN gens
        PROVE  ~ (k < 1 \/ (k = 1 /\ i < 1))
    <3>1. gens \in Seq([Op -> Op]) /\ frontier \in Seq(Seq(Op))
      BY <1>1, TaskAssumption DEF TypeOK
    <3>2. QED
      BY <3>1
  <2>2. QED
    BY <1>1, <2>1 DEF Applied
<1>7. Least'
  BY <1>1, OptionsStay DEF Least
<1>8. QED
  BY <1>3, <1>4, <1>5, <1>6, <1>7 DEF ExtensionInv

LEMMA PermutePlanStep ==
  ASSUME ExtensionInv, PermutePlan
  PROVE  ExtensionInv'
<1> DEFINE p == Permuted(frontier[position], gens[generator])
           m == plan_to_multiset(p)
<1>1. /\ TypeOK /\ Known /\ Done /\ Applied /\ Least /\ Fresh /\ pc = "extend" /\ pc' = "extend"
      /\ generator \in DOMAIN gens /\ position \in DOMAIN frontier
      /\ plans_sets' = plans_sets \cup {m} /\ position' = position + 1
      /\ IF m \in plans_sets THEN UNCHANGED <<plans, new_frontier>>
         ELSE plans' = Append(plans, p) /\ new_frontier' = Append(new_frontier, p)
      /\ UNCHANGED <<kind, gens, number_of_plans, input, frontier, generator, cur, run>>
  BY DEF ExtensionInv, PermutePlan, options
<1>2. kind # "plan"
  BY <1>1 DEF TypeOK
<1>3. /\ frontier \in Seq(Seq(Op)) /\ frontier[position] \in Seq(Op)
      /\ plans \in Seq(Seq(Op)) /\ new_frontier \in Seq(Seq(Op)) /\ position \in Nat
      /\ generator \in Nat
  BY <1>1 DEF TypeOK
<1>4. p \in Seq(Op) /\ m \in Multiset /\ m = PermutedCounts(plan_to_multiset(frontier[position]), gens[generator])
  BY <1>1, <1>3, Generators
<1>5. plan_to_multiset(frontier[position]) \in plans_sets
  BY <1>1, <1>2 DEF Known, MultisetsOf
<1>6. MultisetsOf(Append(plans, p)) = MultisetsOf(plans) \cup {m}
  BY <1>3, <1>4, MultisetsOfAppend
<1>7. MultisetsOf(Append(new_frontier, p)) = MultisetsOf(new_frontier) \cup {m}
  BY <1>3, <1>4, MultisetsOfAppend
<1> HIDE DEF p, m
<1>grown. /\ plans' \in Seq(Seq(Op)) /\ new_frontier' \in Seq(Seq(Op))
      /\ Len(plans') \in Nat /\ Len(plans') >= Len(plans)
  <2>1. CASE m \in plans_sets
    BY <1>1, <1>3, <2>1
  <2>2. CASE m \notin plans_sets
    <3>1. plans' = Append(plans, p) /\ new_frontier' = Append(new_frontier, p)
      BY <1>1, <2>2
    <3>2. Len(plans') = Len(plans) + 1 /\ Len(plans) \in Nat
      BY <1>3, <1>4, <3>1
    <3>3. plans' \in Seq(Seq(Op)) /\ new_frontier' \in Seq(Seq(Op))
      BY <1>3, <1>4, <3>1
    <3>4. QED
      BY <3>2, <3>3
  <2>3. QED
    BY <2>1, <2>2
<1>8. TypeOK' /\ Reading' /\ Complete' /\ Fresh'
  BY <1>1, <1>2, <1>3, <1>4, <1>grown DEF TypeOK, Reading, Complete, Fresh
<1>9. /\ MultisetsOf(plans)' = MultisetsOf(plans') /\ MultisetsOf(new_frontier)' = MultisetsOf(new_frontier')
      /\ MultisetsOf(input)' = MultisetsOf(input) /\ MultisetsOf(frontier)' = MultisetsOf(frontier)
  BY <1>1 DEF MultisetsOf
<1>10. Known'
  BY <1>1, <1>2, <1>6, <1>7, <1>9 DEF Known
<1>11. Unfinished' => Unfinished
  <2>1. number_of_plans \in Nat \cup {-1} /\ Len(plans) \in Nat /\ Len(plans') >= Len(plans) /\ Len(plans') \in Nat
    BY <1>1, <1>3, <1>grown, TaskAssumption DEF TypeOK
  <2>2. QED
    BY <1>1, <2>1 DEF Unfinished
<1>12. \A n : Closed(n) => Closed(n)'
  BY <1>1 DEF Closed
<1>13. Done'
  <2>1. ASSUME Unfinished', NEW n \in plans_sets'
        PROVE  n \in MultisetsOf(frontier)' \/ n \in MultisetsOf(new_frontier)' \/ Closed(n)'
    <3>1. CASE n \in plans_sets
      <4>1. n \in MultisetsOf(frontier) \/ n \in MultisetsOf(new_frontier) \/ Closed(n)
        BY <1>1, <1>11, <2>1, <3>1 DEF Done
      <4>2. MultisetsOf(new_frontier) \subseteq MultisetsOf(new_frontier)'
        BY <1>1, <1>7, <1>9
      <4>3. QED
        BY <1>9, <1>12, <4>1, <4>2
    <3>2. CASE n \notin plans_sets
      <4>1. n = m /\ m \notin plans_sets
        BY <1>1, <2>1, <3>2
      <4>2. QED
        BY <1>1, <1>7, <1>9, <4>1
    <3>3. QED
      BY <3>1, <3>2
  <2>2. QED
    BY <1>1, <2>1 DEF Done
<1>14. Applied'
  <2>1. ASSUME Unfinished', NEW i \in DOMAIN frontier, NEW k \in DOMAIN gens,
               k < generator \/ (k = generator /\ i < position + 1)
        PROVE  PermutedCounts(plan_to_multiset(frontier[i]), gens[k]) \in plans_sets'
    <3>1. i \in Nat /\ k \in Nat
      <4>1. gens \in Seq([Op -> Op])
        BY <1>1, TaskAssumption DEF TypeOK
      <4>2. QED
        BY <1>3, <4>1
    <3>2. CASE k = generator /\ i = position
      BY <1>1, <1>4, <3>2
    <3>3. CASE k < generator \/ (k = generator /\ i < position)
      BY <1>1, <1>11, <2>1, <3>3 DEF Applied
    <3>4. QED
      BY <1>3, <2>1, <3>1, <3>2, <3>3
  <2>2. QED
    BY <1>1, <2>1 DEF Applied
<1>15. Least'
  <2>1. ASSUME NEW M \in SUBSET Multiset, Symmetric(M)
        PROVE  plans_sets' \subseteq M
    <3>1. plans_sets \subseteq M
      BY <1>1, <2>1 DEF Least
    <3>2. m \in M
      BY <1>1, <1>4, <1>5, <2>1, <3>1 DEF Symmetric
    <3>3. QED
      BY <1>1, <3>1, <3>2
  <2>2. QED
    BY <1>1, <2>1, OptionsStay DEF Least
<1>16. QED
  BY <1>8, <1>10, <1>13, <1>14, <1>15 DEF ExtensionInv

LEMMA NextGeneratorStep ==
  ASSUME ExtensionInv, NextGenerator
  PROVE  ExtensionInv'
<1>1. /\ TypeOK /\ Known /\ Done /\ Applied /\ Least /\ Fresh /\ pc = "extend" /\ pc' = "extend"
      /\ generator \in DOMAIN gens /\ position \notin DOMAIN frontier
      /\ generator' = IF enough_plans_found THEN Len(gens) + 1 ELSE generator + 1
      /\ position' = 1
      /\ UNCHANGED <<kind, gens, number_of_plans, input, plans, plans_sets, frontier, new_frontier, cur, run>>
  BY DEF ExtensionInv, NextGenerator, options
<1>2. /\ frontier \in Seq(Seq(Op)) /\ gens \in Seq([Op -> Op])
      /\ position \in Nat /\ position >= 1 /\ generator \in Nat
  BY <1>1, TaskAssumption DEF TypeOK
<1>3. generator' \in Nat \ {0} /\ position' \in Nat \ {0}
  BY <1>1, <1>2
<1>4. TypeOK' /\ Reading' /\ Complete' /\ Fresh'
  BY <1>1, <1>3 DEF TypeOK, Reading, Complete, Fresh
<1>5. Known' /\ Done'
  BY <1>1 DEF Known, Done, Unfinished, Closed, MultisetsOf
<1>6. Applied'
  <2>1. ASSUME Unfinished, NEW i \in DOMAIN frontier, NEW k \in DOMAIN gens,
               k < generator' \/ (k = generator' /\ i < 1)
        PROVE  PermutedCounts(plan_to_multiset(frontier[i]), gens[k]) \in plans_sets
    <3>1. generator' = generator + 1
      BY <1>1, <2>1, Enough
    <3>2. i \in Nat /\ i >= 1 /\ i < position /\ k \in Nat
      BY <1>1, <1>2
    <3>3. k < generator \/ (k = generator /\ i < position)
      BY <1>2, <2>1, <3>1, <3>2
    <3>4. QED
      BY <1>1, <2>1, <3>3 DEF Applied
  <2>2. QED
    BY <1>1, <2>1 DEF Applied, Unfinished
<1>7. Least'
  BY <1>1, OptionsStay DEF Least
<1>8. QED
  BY <1>4, <1>5, <1>6, <1>7 DEF ExtensionInv

LEMMA EndOfRoundStep ==
  ASSUME ExtensionInv, EndOfRound
  PROVE  ExtensionInv'
<1>1. /\ TypeOK /\ Known /\ Done /\ Applied /\ Least /\ Fresh /\ pc = "extend"
      /\ generator \notin DOMAIN gens
      /\ pc' = IF new_frontier = <<>> THEN "build" ELSE "round"
      /\ frontier' = IF new_frontier = <<>> THEN frontier ELSE new_frontier
      /\ UNCHANGED <<kind, gens, number_of_plans, input, plans, plans_sets, new_frontier,
                     generator, position, cur, run>>
  BY DEF ExtensionInv, EndOfRound, options
<1>2. kind # "plan"
  BY <1>1 DEF TypeOK
<1>3. TypeOK' /\ Reading' /\ Applied' /\ Fresh'
  BY <1>1, <1>2 DEF TypeOK, Reading, Applied, Fresh
<1>4. Known'
  BY <1>1 DEF Known, MultisetsOf
<1>5. ASSUME Unfinished, NEW n \in MultisetsOf(frontier)
      PROVE  Closed(n)
  <2>1. PICK i \in DOMAIN frontier : n = plan_to_multiset(frontier[i])
    BY <1>5 DEF MultisetsOf
  <2>2. \A k \in DOMAIN gens : k < generator
    <3>1. gens \in Seq([Op -> Op]) /\ generator \in Nat /\ generator >= 1
      BY <1>1, TaskAssumption DEF TypeOK
    <3>2. QED
      BY <1>1, <3>1
  <2>3. QED
    BY <1>1, <1>5, <2>1, <2>2 DEF Applied, Closed
<1>6. \A n \in plans_sets : Unfinished => n \in MultisetsOf(new_frontier) \/ Closed(n)
  BY <1>1, <1>5 DEF Done
<1>7. Unfinished' <=> Unfinished
  BY <1>1 DEF Unfinished
<1>8. Done' /\ Complete'
  <2>1. CASE new_frontier = <<>>
    <3>1. MultisetsOf(new_frontier) = {}
      BY <2>1 DEF MultisetsOf
    <3>2. QED
      BY <1>1, <1>6, <1>7, <2>1, <3>1 DEF Done, Complete, Closed
  <2>2. CASE new_frontier # <<>>
    BY <1>1, <1>6, <1>7, <2>2 DEF Done, Complete, Closed, MultisetsOf
  <2>3. QED
    BY <2>1, <2>2
<1>9. Least'
  BY <1>1, OptionsStay DEF Least
<1>10. QED
  BY <1>3, <1>4, <1>8, <1>9 DEF ExtensionInv

-----------------------------------------------------------------------------
(* The variables and the copies of the reformulated tasks.                 *)

Enabled(c) == \A x \in DOMAIN c.pre : extra[x] = c.pre[x]

LEMMA Names ==
  /\ \A a, b : (possible(a) = possible(b) <=> a = b) /\ (count(a) = count(b) <=> a = b)
               /\ (following(a) = following(b) <=> a = b)
  /\ \A a, b : possible(a) # count(b) /\ possible(a) # following(b) /\ count(a) # following(b)
  /\ \A a : possible(a)[1] = "possible" /\ count(a)[1] = "count" /\ count(a)[2] = a
            /\ following(a)[1] = "following"
BY DEF possible, count, following

LEMMA OnlyIs ==
  ASSUME NEW x, NEW v
  PROVE  DOMAIN Only(x, v) = {x} /\ Only(x, v)[x] = v
BY DEF Only

LEMMA AllIs ==
  ASSUME NEW X, NEW v
  PROVE  DOMAIN All(X, v) = X /\ \A y \in X : All(X, v)[y] = v
BY DEF All

LEMMA AndIs ==
  ASSUME NEW f, NEW g
  PROVE  /\ DOMAIN And(f, g) = DOMAIN f \cup DOMAIN g
         /\ \A y \in DOMAIN f : And(f, g)[y] = f[y]
         /\ \A y \in DOMAIN g \ DOMAIN f : And(f, g)[y] = g[y]
BY DEF And

\* Effects on one variable and on a set of them.
LEMMA SetOne ==
  ASSUME NEW x, NEW v, NEW g
  PROVE  /\ \A y : y \in DOMAIN And(Only(x, v), g) <=> y = x \/ y \in DOMAIN g
         /\ And(Only(x, v), g)[x] = v
         /\ \A y \in DOMAIN g : y # x => And(Only(x, v), g)[y] = g[y]
<1> DEFINE f == Only(x, v)
<1>1. DOMAIN f = {x} /\ f[x] = v
  BY OnlyIs
<1> HIDE DEF f
<1>2. /\ DOMAIN And(f, g) = DOMAIN f \cup DOMAIN g
      /\ \A y \in DOMAIN f : And(f, g)[y] = f[y]
      /\ \A y \in DOMAIN g \ DOMAIN f : And(f, g)[y] = g[y]
  BY AndIs
<1>3. QED
  BY <1>1, <1>2 DEF f

LEMMA NothingIs == DOMAIN Nothing = {}
BY DEF Nothing

LEMMA Fields ==
  \A o, pre, eff : /\ Copy(o, pre, eff).op = o
                   /\ Copy(o, pre, eff).pre = pre /\ Copy(o, pre, eff).eff = eff
BY DEF Copy

\* The copies of the three tasks by what they do to a plan: it has left what
\* is forbidden, leaves it for an operator of no or of another position, or
\* follows it.
Outside(o) == Copy(o, Nothing, Only(possible(1), 0))
Gone(o) == Copy(o, Only(possible(1), 0), Nothing)
Diverge(p, o) == Copy(o, And(Only(possible(1), 1), All(Positions(p, o), 0)), Only(possible(1), 0))
Follow(p, i) == Copy(p[i], All({possible(1), following(i - 1)}, 1),
                     And(Only(following(i - 1), 0), Only(following(i), 1)))

LEMMA PlanShapes ==
  ASSUME NEW p, NEW c
  PROVE  c \in PlanCopies(p) <=>
           \/ \E o \in Op \ Range(p) : c = Outside(o)
           \/ \E o \in Range(p) : c = Gone(o)
           \/ \E o \in Range(p) : c = Diverge(p, o)
           \/ \E i \in DOMAIN p : c = Follow(p, i)
BY DEF PlanCopies, Outside, Gone, Diverge, Follow

LEMMA PlanFields ==
  ASSUME NEW p, NEW o, NEW i
  PROVE  /\ Outside(o).op = o /\ Gone(o).op = o /\ Diverge(p, o).op = o /\ Follow(p, i).op = p[i]
         /\ Enabled(Outside(o))
         /\ Enabled(Gone(o)) <=> extra[possible(1)] = 0
         /\ Enabled(Diverge(p, o)) <=>
              extra[possible(1)] = 1 /\ \A k \in DOMAIN p : p[k] = o => extra[following(k - 1)] = 0
         /\ Enabled(Follow(p, i)) <=> extra[possible(1)] = 1 /\ extra[following(i - 1)] = 1
<1>1. /\ Outside(o).op = o /\ Gone(o).op = o /\ Diverge(p, o).op = o /\ Follow(p, i).op = p[i]
      /\ Outside(o).pre = Nothing /\ Gone(o).pre = Only(possible(1), 0)
      /\ Diverge(p, o).pre = And(Only(possible(1), 1), All(Positions(p, o), 0))
      /\ Follow(p, i).pre = All({possible(1), following(i - 1)}, 1)
  BY Fields DEF Outside, Gone, Diverge, Follow
<1>2. Enabled(Outside(o)) /\ (Enabled(Gone(o)) <=> extra[possible(1)] = 0)
  <2>1. DOMAIN Outside(o).pre = {}
    BY <1>1, NothingIs
  <2>2. DOMAIN Gone(o).pre = {possible(1)} /\ Gone(o).pre[possible(1)] = 0
    <3>1. DOMAIN Only(possible(1), 0) = {possible(1)} /\ Only(possible(1), 0)[possible(1)] = 0
      BY OnlyIs
    <3>2. QED
      BY <1>1, <3>1
  <2>3. QED
    BY <2>1, <2>2 DEF Enabled
<1>3. Enabled(Follow(p, i)) <=> extra[possible(1)] = 1 /\ extra[following(i - 1)] = 1
  <2> DEFINE X == {possible(1), following(i - 1)}
  <2>1. /\ DOMAIN Follow(p, i).pre = X /\ \A x \in X : Follow(p, i).pre[x] = 1
    <3> HIDE DEF X
    <3>1. QED
      BY <1>1, AllIs DEF X
  <2>2. QED
    BY <2>1 DEF Enabled
<1>4. \A x : x \in Positions(p, o) <=> \E k \in DOMAIN p : p[k] = o /\ x = following(k - 1)
  BY DEF Positions
<1>5. possible(1) \notin Positions(p, o)
  BY <1>4, Names
<1>6. Enabled(Diverge(p, o)) <=> extra[possible(1)] = 1 /\ \A x \in Positions(p, o) : extra[x] = 0
  <2> DEFINE f == Only(possible(1), 1)
             g == All(Positions(p, o), 0)
  <2>1. /\ DOMAIN f = {possible(1)} /\ f[possible(1)] = 1
        /\ DOMAIN g = Positions(p, o) /\ \A x \in Positions(p, o) : g[x] = 0
        /\ Diverge(p, o).pre = And(f, g)
    BY <1>1, OnlyIs, AllIs
  <2> HIDE DEF f, g
  <2>2. /\ DOMAIN And(f, g) = {possible(1)} \cup Positions(p, o)
        /\ And(f, g)[possible(1)] = 1 /\ \A x \in Positions(p, o) : And(f, g)[x] = 0
    <3>1. /\ DOMAIN And(f, g) = DOMAIN f \cup DOMAIN g
          /\ \A y \in DOMAIN f : And(f, g)[y] = f[y]
          /\ \A y \in DOMAIN g \ DOMAIN f : And(f, g)[y] = g[y]
      BY AndIs
    <3>2. QED
      BY <1>5, <2>1, <3>1
  <2>3. QED
    BY <2>1, <2>2 DEF Enabled
<1>7. QED
  BY <1>1, <1>2, <1>3, <1>4, <1>6

-----------------------------------------------------------------------------
(* PlanForbidReformulatedTask.                                             *)

AsPrefix(p) == Len(run) <= Len(p) /\ \A i \in 1 .. Len(run) : run[i] = p[i]

\* possible(1) says that the run is a prefix of the plan, and as long as it is,
\* the only following variable that holds is the one of its length.
PlanState(p) ==
  /\ DOMAIN extra = {possible(1)} \cup {following(i) : i \in 0 .. Len(p)}
  /\ \A x \in DOMAIN extra : extra[x] \in {0, 1}
  /\ extra[possible(1)] = 1 <=> AsPrefix(p)
  /\ extra[possible(1)] = 1 => \A i \in 0 .. Len(p) : extra[following(i)] = 1 <=> i = Len(run)

LEMMA PlanStart ==
  ASSUME NEW p \in Seq(Op), extra' = PlanVariables(p), run' = <<>>
  PROVE  PlanState(p)'
<1> DEFINE f == All({possible(1), following(0)}, 1)
           g == All({following(i) : i \in DOMAIN p}, 0)
<1>1. Len(p) \in Nat /\ DOMAIN p = 1 .. Len(p)
  OBVIOUS
<1>2. DOMAIN f = {possible(1), following(0)} /\ \A x \in {possible(1), following(0)} : f[x] = 1
  <2> DEFINE X == {possible(1), following(0)}
  <2> HIDE DEF X
  <2>1. DOMAIN All(X, 1) = X /\ \A x \in X : All(X, 1)[x] = 1
    BY AllIs
  <2>2. QED
    BY <2>1 DEF X
<1>3. DOMAIN g = {following(i) : i \in 1 .. Len(p)} /\ \A x \in {following(i) : i \in 1 .. Len(p)} : g[x] = 0
  <2> DEFINE X == {following(i) : i \in DOMAIN p}
  <2> HIDE DEF X
  <2>1. DOMAIN All(X, 0) = X /\ \A x \in X : All(X, 0)[x] = 0
    BY AllIs
  <2>2. QED
    BY <1>1, <2>1 DEF X
<1>4. extra' = And(f, g)
  BY DEF PlanVariables
<1> HIDE DEF f, g
<1>5. /\ DOMAIN extra' = DOMAIN f \cup DOMAIN g
      /\ \A y \in DOMAIN f : extra'[y] = f[y]
      /\ \A y \in DOMAIN g \ DOMAIN f : extra'[y] = g[y]
  <2>1. /\ DOMAIN And(f, g) = DOMAIN f \cup DOMAIN g
        /\ \A y \in DOMAIN f : And(f, g)[y] = f[y]
        /\ \A y \in DOMAIN g \ DOMAIN f : And(f, g)[y] = g[y]
    BY AndIs
  <2>2. QED
    BY <1>4, <2>1
<1>6. extra'[possible(1)] = 1 /\ extra'[following(0)] = 1
  BY <1>2, <1>5
<1>7. ASSUME NEW i \in 1 .. Len(p)
      PROVE  extra'[following(i)] = 0
  <2>1. following(i) # possible(1) /\ following(i) # following(0)
    BY Names
  <2>2. following(i) \in DOMAIN g \ DOMAIN f
    BY <1>2, <1>3, <2>1
  <2>3. QED
    BY <1>3, <1>5, <2>2
<1>8. DOMAIN extra' = {possible(1)} \cup {following(i) : i \in 0 .. Len(p)}
  <2>1. \A i : i \in 0 .. Len(p) <=> i = 0 \/ i \in 1 .. Len(p)
    BY <1>1
  <2>2. QED
    BY <1>2, <1>3, <1>5, <2>1
<1>9. \A x \in DOMAIN extra' : extra'[x] \in {0, 1}
  BY <1>2, <1>3, <1>5, <1>6, <1>7
<1>10. AsPrefix(p)' /\ \A i \in 0 .. Len(p) : extra'[following(i)] = 1 <=> i = Len(run')
  <2>1. Len(run') = 0
    OBVIOUS
  <2>2. QED
    BY <1>1, <1>6, <1>7, <2>1 DEF AsPrefix
<1>11. QED
  BY <1>6, <1>8, <1>9, <1>10 DEF PlanState

LEMMA PlanCases ==
  ASSUME NEW p, NEW d \in PlanCopies(p), Enabled(d)
  PROVE  \/ d.op \in Op \ Range(p) /\ d = Outside(d.op)
         \/ d.op \in Range(p) /\ d = Gone(d.op) /\ extra[possible(1)] = 0
         \/ /\ d.op \in Range(p) /\ d = Diverge(p, d.op) /\ extra[possible(1)] = 1
            /\ \A k \in DOMAIN p : p[k] = d.op => extra[following(k - 1)] = 0
         \/ \E i \in DOMAIN p : /\ p[i] = d.op /\ d = Follow(p, i)
                                /\ extra[possible(1)] = 1 /\ extra[following(i - 1)] = 1
<1>1. \/ \E o \in Op \ Range(p) : d = Outside(o)
      \/ \E o \in Range(p) : d = Gone(o)
      \/ \E o \in Range(p) : d = Diverge(p, o)
      \/ \E i \in DOMAIN p : d = Follow(p, i)
  BY PlanShapes
<1>2. CASE \E o \in Op \ Range(p) : d = Outside(o)
  BY <1>2, PlanFields
<1>3. CASE \E o \in Range(p) : d = Gone(o)
  BY <1>3, PlanFields
<1>4. CASE \E o \in Range(p) : d = Diverge(p, o)
  <2>1. PICK o \in Range(p) : d = Diverge(p, o)
    BY <1>4
  <2>2. d.op = o
    BY <2>1, PlanFields
  <2>3. extra[possible(1)] = 1 /\ \A k \in DOMAIN p : p[k] = o => extra[following(k - 1)] = 0
    BY <2>1, PlanFields
  <2>4. QED
    BY <2>1, <2>2, <2>3
<1>5. CASE \E i \in DOMAIN p : d = Follow(p, i)
  <2>1. PICK i \in DOMAIN p : d = Follow(p, i)
    BY <1>5
  <2>2. d.op = p[i] /\ extra[possible(1)] = 1 /\ extra[following(i - 1)] = 1
    BY <2>1, PlanFields
  <2>3. QED
    BY <2>1, <2>2
<1>6. QED
  BY <1>1, <1>2, <1>3, <1>4, <1>5

\* For every operator exactly one copy is enabled.
LEMMA PlanOnlyCopy ==
  ASSUME NEW p \in Seq(Op), NEW o \in Op, PlanState(p), run \in Seq(Op)
  PROVE  \E c \in PlanCopies(p) :
           /\ c.op = o /\ Enabled(c)
           /\ \A d \in PlanCopies(p) : d.op = o /\ Enabled(d) => d = c
<1>1. /\ Len(p) \in Nat /\ DOMAIN p = 1 .. Len(p) /\ Len(run) \in Nat
      /\ \A i \in DOMAIN p : p[i] \in Range(p)
  BY DEF Range
<1>2. extra[possible(1)] \in {0, 1}
  BY DEF PlanState
<1>3. \A i \in DOMAIN p : i - 1 \in 0 .. Len(p) /\ extra[following(i - 1)] \in {0, 1}
  BY <1>1 DEF PlanState
<1>4. CASE o \notin Range(p)
  <2>1. Outside(o) \in PlanCopies(p) /\ Outside(o).op = o /\ Enabled(Outside(o))
    BY <1>4, PlanShapes, PlanFields
  <2>2. \A d \in PlanCopies(p) : d.op = o /\ Enabled(d) => d = Outside(o)
    BY <1>1, <1>4, PlanCases
  <2>3. QED
    BY <2>1, <2>2
<1>5. CASE o \in Range(p) /\ extra[possible(1)] = 0
  <2>1. Gone(o) \in PlanCopies(p) /\ Gone(o).op = o /\ Enabled(Gone(o))
    BY <1>5, PlanShapes, PlanFields
  <2>2. \A d \in PlanCopies(p) : d.op = o /\ Enabled(d) => d = Gone(o)
    BY <1>5, PlanCases
  <2>3. QED
    BY <2>1, <2>2
<1>6. CASE o \in Range(p) /\ extra[possible(1)] = 1 /\ \E i \in DOMAIN p : p[i] = o /\ i - 1 = Len(run)
  <2>1. PICK i \in DOMAIN p : p[i] = o /\ i - 1 = Len(run)
    BY <1>6
  <2>2. \A k \in DOMAIN p : extra[following(k - 1)] = 1 <=> k = i
    BY <1>1, <1>3, <1>6, <2>1 DEF PlanState
  <2>3. Follow(p, i) \in PlanCopies(p) /\ Follow(p, i).op = o /\ Enabled(Follow(p, i))
    BY <1>6, <2>1, <2>2, PlanShapes, PlanFields
  <2>4. \A d \in PlanCopies(p) : d.op = o /\ Enabled(d) => d = Follow(p, i)
    BY <1>6, <2>1, <2>2, PlanCases
  <2>5. QED
    BY <2>3, <2>4
<1>7. CASE o \in Range(p) /\ extra[possible(1)] = 1 /\ ~ \E i \in DOMAIN p : p[i] = o /\ i - 1 = Len(run)
  <2>1. \A k \in DOMAIN p : p[k] = o => extra[following(k - 1)] = 0
    BY <1>1, <1>3, <1>7 DEF PlanState
  <2>2. Diverge(p, o) \in PlanCopies(p) /\ Diverge(p, o).op = o /\ Enabled(Diverge(p, o))
    BY <1>7, <2>1, PlanShapes, PlanFields
  <2>3. \A d \in PlanCopies(p) : d.op = o /\ Enabled(d) => d = Diverge(p, o)
    BY <1>7, <2>1, PlanCases
  <2>4. QED
    BY <2>2, <2>3
<1>8. QED
  BY <1>2, <1>4, <1>5, <1>6, <1>7

LEMMA PrefixGrows ==
  ASSUME NEW p \in Seq(Op), NEW o \in Op, run \in Seq(Op), run' = Append(run, o)
  PROVE  AsPrefix(p)' <=> AsPrefix(p) /\ Len(run) + 1 \in DOMAIN p /\ p[Len(run) + 1] = o
<1>1. /\ Len(run) \in Nat /\ Len(p) \in Nat /\ DOMAIN p = 1 .. Len(p)
      /\ Len(run') = Len(run) + 1 /\ run'[Len(run) + 1] = o
      /\ \A i \in 1 .. Len(run) : run'[i] = run[i]
  OBVIOUS
<1>2. \A i : i \in 1 .. Len(run) + 1 <=> i \in 1 .. Len(run) \/ i = Len(run) + 1
  BY <1>1
<1>3. QED
  BY <1>1, <1>2 DEF AsPrefix

LEMMA PlanStep ==
  ASSUME NEW p \in Seq(Op), PlanState(p), run \in Seq(Op),
         NEW c \in PlanCopies(p), Enabled(c), c.op \in Op,
         extra' = And(c.eff, extra), run' = Append(run, c.op)
  PROVE  PlanState(p)'
<1> DEFINE l == Len(run)
           Ids == {following(i) : i \in 0 .. Len(p)}
<1>1. /\ Len(p) \in Nat /\ DOMAIN p = 1 .. Len(p) /\ Len(run) \in Nat /\ Len(run') = Len(run) + 1
      /\ \A i \in DOMAIN p : p[i] \in Range(p)
  BY DEF Range
<1>2. AsPrefix(p)' <=> AsPrefix(p) /\ l + 1 \in DOMAIN p /\ p[l + 1] = c.op
  BY PrefixGrows
<1>3. DOMAIN extra = {possible(1)} \cup Ids /\ \A x \in Ids : x # possible(1)
  BY Names DEF PlanState
<1>4. ASSUME c.eff = Only(possible(1), 0), ~ AsPrefix(p)'
      PROVE  PlanState(p)'
  <2>1. extra' = And(Only(possible(1), 0), extra)
    BY <1>4
  <2>2. /\ \A x : x \in DOMAIN extra' <=> x = possible(1) \/ x \in DOMAIN extra
        /\ extra'[possible(1)] = 0
        /\ \A x \in DOMAIN extra : x # possible(1) => extra'[x] = extra[x]
    BY <2>1, SetOne
  <2>3. DOMAIN extra' = DOMAIN extra
    BY <1>3, <2>2
  <2>4. \A x \in DOMAIN extra' : extra'[x] \in {0, 1}
    <3>1. \A x \in DOMAIN extra : extra[x] \in {0, 1}
      BY DEF PlanState
    <3>2. QED
      BY <2>2, <2>3, <3>1
  <2>5. QED
    BY <1>3, <1>4, <2>2, <2>3, <2>4 DEF PlanState
<1>5. CASE c.op \in Op \ Range(p) /\ c = Outside(c.op)
  <2>1. c.eff = Only(possible(1), 0)
    BY <1>5, Fields DEF Outside
  <2>2. ~ AsPrefix(p)'
    BY <1>1, <1>2, <1>5
  <2>3. QED
    BY <1>4, <2>1, <2>2
<1>6. CASE c = Gone(c.op) /\ extra[possible(1)] = 0
  <2>1. c.eff = Nothing
    BY <1>6, Fields DEF Gone
  <2>2. DOMAIN extra' = DOMAIN extra /\ \A x \in DOMAIN extra : extra'[x] = extra[x]
    <3>1. DOMAIN And(Nothing, extra) = DOMAIN Nothing \cup DOMAIN extra
          /\ \A y \in DOMAIN extra \ DOMAIN Nothing : And(Nothing, extra)[y] = extra[y]
      BY AndIs
    <3>2. QED
      BY <2>1, <3>1, NothingIs
  <2>3. ~ AsPrefix(p)'
    BY <1>2, <1>6 DEF PlanState
  <2>4. QED
    BY <1>3, <1>6, <2>2, <2>3 DEF PlanState
<1>7. CASE /\ c = Diverge(p, c.op) /\ extra[possible(1)] = 1
           /\ \A k \in DOMAIN p : p[k] = c.op => extra[following(k - 1)] = 0
  <2>1. c.eff = Only(possible(1), 0)
    BY <1>7, Fields DEF Diverge
  <2>2. AsPrefix(p) /\ l \in 0 .. Len(p) /\ extra[following(l)] = 1
    BY <1>1, <1>7 DEF PlanState, AsPrefix
  <2>3. ~ AsPrefix(p)'
    <3>1. SUFFICES ASSUME l + 1 \in DOMAIN p, p[l + 1] = c.op
                   PROVE  FALSE
      BY <1>2
    <3>2. l + 1 - 1 = l
      BY <1>1
    <3>3. QED
      BY <1>7, <2>2, <3>1, <3>2
  <2>4. QED
    BY <1>4, <2>1, <2>3
<1>8. CASE \E i \in DOMAIN p : /\ p[i] = c.op /\ c = Follow(p, i)
                               /\ extra[possible(1)] = 1 /\ extra[following(i - 1)] = 1
  <2>1. PICK i \in DOMAIN p : /\ p[i] = c.op /\ c = Follow(p, i)
                              /\ extra[possible(1)] = 1 /\ extra[following(i - 1)] = 1
    BY <1>8
  <2>2. AsPrefix(p) /\ i - 1 = l /\ i = l + 1 /\ l \in 0 .. Len(p) /\ l + 1 \in 0 .. Len(p)
    BY <1>1, <2>1 DEF PlanState, AsPrefix
  <2>3. AsPrefix(p)'
    BY <1>2, <2>1, <2>2
  <2> DEFINE f == And(Only(following(l), 0), Only(following(l + 1), 1))
  <2>4. c.eff = f
    BY <2>1, <2>2, Fields DEF Follow
  <2>5. following(l) # following(l + 1) /\ following(l) \in Ids /\ following(l + 1) \in Ids
    <3>1. l # l + 1
      BY <1>1
    <3>2. QED
      BY <2>2, <3>1, Names
  <2>6. /\ DOMAIN f = {following(l), following(l + 1)}
        /\ f[following(l)] = 0 /\ f[following(l + 1)] = 1
    <3> DEFINE g == Only(following(l + 1), 1)
    <3>1. DOMAIN g = {following(l + 1)} /\ g[following(l + 1)] = 1
      BY OnlyIs
    <3> HIDE DEF g
    <3>2. f = And(Only(following(l), 0), g)
      BY DEF g
    <3> HIDE DEF f
    <3>3. /\ \A y : y \in DOMAIN f <=> y = following(l) \/ y \in DOMAIN g
          /\ f[following(l)] = 0
          /\ \A y \in DOMAIN g : y # following(l) => f[y] = g[y]
      BY <3>2, SetOne
    <3>4. QED
      BY <2>5, <3>1, <3>3
  <2> HIDE DEF f
  <2>7. /\ DOMAIN extra' = DOMAIN extra /\ extra'[following(l)] = 0 /\ extra'[following(l + 1)] = 1
        /\ \A x \in DOMAIN extra : x # following(l) /\ x # following(l + 1) => extra'[x] = extra[x]
    <3>1. /\ DOMAIN extra' = DOMAIN f \cup DOMAIN extra
          /\ \A y \in DOMAIN f : extra'[y] = f[y]
          /\ \A y \in DOMAIN extra \ DOMAIN f : extra'[y] = extra[y]
      <4>1. /\ DOMAIN And(f, extra) = DOMAIN f \cup DOMAIN extra
            /\ \A y \in DOMAIN f : And(f, extra)[y] = f[y]
            /\ \A y \in DOMAIN extra \ DOMAIN f : And(f, extra)[y] = extra[y]
        BY AndIs
      <4>2. extra' = And(f, extra)
        BY <2>4
      <4>3. QED
        BY <4>1, <4>2
    <3>2. DOMAIN f \subseteq DOMAIN extra
      BY <1>3, <2>5, <2>6
    <3>3. DOMAIN extra' = DOMAIN extra
      BY <3>1, <3>2
    <3>4. QED
      BY <2>6, <3>1, <3>3
  <2>8. extra'[possible(1)] = 1
    BY <1>3, <2>1, <2>5, <2>7
  <2>9. \A k \in 0 .. Len(p) : extra'[following(k)] = 1 <=> k = Len(run')
    <3>1. ASSUME NEW k \in 0 .. Len(p), k # l, k # l + 1
          PROVE  extra'[following(k)] # 1
      <4>1. following(k) # following(l) /\ following(k) # following(l + 1) /\ following(k) \in DOMAIN extra
        BY <1>3, <3>1, Names
      <4>2. extra[following(k)] # 1
        BY <2>1, <3>1 DEF PlanState
      <4>3. QED
        BY <2>7, <4>1, <4>2
    <3>2. l # l + 1
      BY <1>1
    <3>3. QED
      BY <1>1, <2>7, <3>1, <3>2
  <2>10. \A x \in DOMAIN extra' : extra'[x] \in {0, 1}
    BY <2>7 DEF PlanState
  <2>11. QED
    BY <2>3, <2>7, <2>8, <2>9, <2>10 DEF PlanState
<1>9. QED
  BY <1>5, <1>6, <1>7, <1>8, PlanCases

-----------------------------------------------------------------------------
(* MultisetForbidReformulatedTask.                                         *)

counted == plan_to_multiset(run)

\* One more operator is within m unless m has no more of them.
LEMMA WithinGrows ==
  ASSUME NEW m \in Multiset, NEW o \in Op, run \in Seq(Op), run' = Append(run, o)
  PROVE  /\ counted \in Multiset /\ counted' = [counted EXCEPT ![o] = counted[o] + 1]
         /\ counted'[o] = counted[o] + 1 /\ \A k \in Op \ {o} : counted'[k] = counted[k]
         /\ Within(counted', m) <=> Within(counted, m) /\ counted[o] < m[o]
<1>1. counted \in Multiset /\ counted' = [counted EXCEPT ![o] = counted[o] + 1]
  BY MultisetType, Counting DEF counted
<1>2. counted'[o] = counted[o] + 1 /\ \A k \in Op \ {o} : counted'[k] = counted[k]
  BY <1>1 DEF Multiset
<1>3. \A k \in Op : counted[k] \in Nat /\ m[k] \in Nat
  BY <1>1 DEF Multiset
<1>4. Within(counted', m) <=> Within(counted, m) /\ counted[o] < m[o]
  <2>1. counted[o] + 1 <= m[o] <=> counted[o] <= m[o] /\ counted[o] < m[o]
    BY <1>3
  <2>2. QED
    BY <1>2, <2>1 DEF Within
<1>5. QED
  BY <1>1, <1>2, <1>4

OneTooMany(m, o) == Copy(o, And(Only(possible(1), 1), Only(count(o), m[o])), Only(possible(1), 0))
OneMore(o, n) == Copy(o, And(Only(possible(1), 1), Only(count(o), n)), Only(count(o), n + 1))

LEMMA UnionShapes ==
  ASSUME NEW m, NEW c
  PROVE  c \in MultisetCopies(m) <=>
           \/ \E o \in Op \ On(m) : c = Outside(o)
           \/ \E o \in On(m) : c = Gone(o)
           \/ \E o \in On(m) : c = OneTooMany(m, o)
           \/ \E o \in On(m) : \E n \in Counted(m[o]) : c = OneMore(o, n)
BY DEF MultisetCopies, Outside, Gone, OneTooMany, OneMore

LEMMA UnionFields ==
  ASSUME NEW m, NEW o, NEW n
  PROVE  /\ OneTooMany(m, o).op = o /\ OneMore(o, n).op = o
         /\ OneTooMany(m, o).eff = Only(possible(1), 0) /\ OneMore(o, n).eff = Only(count(o), n + 1)
         /\ Enabled(OneTooMany(m, o)) <=> extra[possible(1)] = 1 /\ extra[count(o)] = m[o]
         /\ Enabled(OneMore(o, n)) <=> extra[possible(1)] = 1 /\ extra[count(o)] = n
<1>1. ASSUME NEW k, NEW c, c.pre = And(Only(possible(1), 1), Only(count(o), k))
      PROVE  Enabled(c) <=> extra[possible(1)] = 1 /\ extra[count(o)] = k
  <2> DEFINE g == Only(count(o), k)
  <2>1. DOMAIN g = {count(o)} /\ g[count(o)] = k
    BY OnlyIs
  <2> HIDE DEF g
  <2>2. /\ \A x : x \in DOMAIN And(Only(possible(1), 1), g) <=> x = possible(1) \/ x \in DOMAIN g
        /\ And(Only(possible(1), 1), g)[possible(1)] = 1
        /\ \A x \in DOMAIN g : x # possible(1) => And(Only(possible(1), 1), g)[x] = g[x]
    BY SetOne
  <2>3. c.pre = And(Only(possible(1), 1), g)
    BY <1>1 DEF g
  <2>4. possible(1) # count(o)
    BY Names
  <2>5. /\ \A x : x \in DOMAIN c.pre <=> x = possible(1) \/ x = count(o)
        /\ c.pre[possible(1)] = 1 /\ c.pre[count(o)] = k
    BY <2>1, <2>2, <2>3, <2>4
  <2>6. QED
    BY <2>5 DEF Enabled
<1>2. /\ OneTooMany(m, o).op = o /\ OneMore(o, n).op = o
      /\ OneTooMany(m, o).eff = Only(possible(1), 0) /\ OneMore(o, n).eff = Only(count(o), n + 1)
      /\ OneTooMany(m, o).pre = And(Only(possible(1), 1), Only(count(o), m[o]))
      /\ OneMore(o, n).pre = And(Only(possible(1), 1), Only(count(o), n))
  BY Fields DEF OneTooMany, OneMore
<1>3. QED
  BY <1>1, <1>2

LEMMA UnionCases ==
  ASSUME NEW m, NEW d \in MultisetCopies(m), Enabled(d)
  PROVE  \/ d.op \in Op \ On(m) /\ d = Outside(d.op)
         \/ d.op \in On(m) /\ d = Gone(d.op) /\ extra[possible(1)] = 0
         \/ /\ d.op \in On(m) /\ d = OneTooMany(m, d.op)
            /\ extra[possible(1)] = 1 /\ extra[count(d.op)] = m[d.op]
         \/ /\ d.op \in On(m) /\ extra[count(d.op)] \in Counted(m[d.op])
            /\ d = OneMore(d.op, extra[count(d.op)]) /\ extra[possible(1)] = 1
<1>1. \/ \E o \in Op \ On(m) : d = Outside(o)
      \/ \E o \in On(m) : d = Gone(o)
      \/ \E o \in On(m) : d = OneTooMany(m, o)
      \/ \E o \in On(m) : \E n \in Counted(m[o]) : d = OneMore(o, n)
  BY UnionShapes
<1>2. CASE \E o \in Op \ On(m) : d = Outside(o)
  BY <1>2, PlanFields
<1>3. CASE \E o \in On(m) : d = Gone(o)
  BY <1>3, PlanFields
<1>4. CASE \E o \in On(m) : d = OneTooMany(m, o)
  <2>1. PICK o \in On(m) : d = OneTooMany(m, o)
    BY <1>4
  <2>2. d.op = o /\ extra[possible(1)] = 1 /\ extra[count(o)] = m[o]
    BY <2>1, UnionFields
  <2>3. QED
    BY <2>1, <2>2
<1>5. CASE \E o \in On(m) : \E n \in Counted(m[o]) : d = OneMore(o, n)
  <2>1. PICK o \in On(m) : \E n \in Counted(m[o]) : d = OneMore(o, n)
    BY <1>5
  <2>2. PICK n \in Counted(m[o]) : d = OneMore(o, n)
    BY <2>1
  <2>3. d.op = o /\ extra[possible(1)] = 1 /\ extra[count(o)] = n
    BY <2>2, UnionFields
  <2>4. QED
    BY <2>2, <2>3
<1>6. QED
  BY <1>1, <1>2, <1>3, <1>4, <1>5

\* possible(1) says that the run is within m, and as long as it is, the
\* counters are those of the run.
UnionState(m) ==
  /\ DOMAIN extra = {possible(1)} \cup {count(o) : o \in On(m)}
  /\ extra[possible(1)] \in {0, 1} /\ \A o \in On(m) : extra[count(o)] \in 0 .. m[o]
  /\ extra[possible(1)] = 1 <=> Within(counted, m)
  /\ extra[possible(1)] = 1 => \A o \in On(m) : extra[count(o)] = counted[o]

LEMMA UnionStart ==
  ASSUME NEW m \in Multiset, extra' = MultisetVariables(m), run' = <<>>
  PROVE  UnionState(m)'
<1> DEFINE X == {count(o) : o \in On(m)}
           g == All(X, 0)
<1>1. extra' = And(Only(possible(1), 1), g)
  BY DEF MultisetVariables
<1>2. \A o \in On(m) : count(o) \in X /\ count(o) # possible(1)
  BY Names
<1> HIDE DEF X
<1>3. DOMAIN g = X /\ \A x \in X : g[x] = 0
  BY AllIs
<1> HIDE DEF g
<1>4. /\ \A x : x \in DOMAIN And(Only(possible(1), 1), g) <=> x = possible(1) \/ x \in DOMAIN g
      /\ And(Only(possible(1), 1), g)[possible(1)] = 1
      /\ \A x \in DOMAIN g : x # possible(1) => And(Only(possible(1), 1), g)[x] = g[x]
  BY SetOne
<1>5. DOMAIN extra' = {possible(1)} \cup X /\ extra'[possible(1)] = 1
  BY <1>1, <1>3, <1>4
<1>6. \A o \in On(m) : extra'[count(o)] = 0
  BY <1>1, <1>2, <1>3, <1>4
<1>7. \A o \in Op : counted'[o] = 0 /\ m[o] \in Nat
  BY EmptyPlan DEF counted, Multiset
<1>8. \A o \in On(m) : o \in Op /\ 0 \in 0 .. m[o]
  BY <1>7 DEF On
<1>9. Within(counted', m)
  BY <1>7 DEF Within
<1>10. QED
  BY <1>5, <1>6, <1>7, <1>8, <1>9 DEF UnionState, X

LEMMA UnionOnlyCopy ==
  ASSUME NEW m \in Multiset, NEW o \in Op, UnionState(m)
  PROVE  \E c \in MultisetCopies(m) :
           /\ c.op = o /\ Enabled(c)
           /\ \A d \in MultisetCopies(m) : d.op = o /\ Enabled(d) => d = c
<1>1. extra[possible(1)] \in {0, 1} /\ \A k \in On(m) : extra[count(k)] \in 0 .. m[k] /\ m[k] \in Nat
  BY DEF UnionState, On, Multiset
<1>2. \A k \in On(m) : extra[count(k)] \in Counted(m[k]) <=> extra[count(k)] # m[k]
  BY <1>1 DEF Counted
<1>3. CASE o \notin On(m)
  <2>1. Outside(o) \in MultisetCopies(m) /\ Outside(o).op = o /\ Enabled(Outside(o))
    BY <1>3, UnionShapes, PlanFields
  <2>2. \A d \in MultisetCopies(m) : d.op = o /\ Enabled(d) => d = Outside(o)
    BY <1>3, UnionCases
  <2>3. QED
    BY <2>1, <2>2
<1>4. CASE o \in On(m) /\ extra[possible(1)] = 0
  <2>1. Gone(o) \in MultisetCopies(m) /\ Gone(o).op = o /\ Enabled(Gone(o))
    BY <1>4, UnionShapes, PlanFields
  <2>2. \A d \in MultisetCopies(m) : d.op = o /\ Enabled(d) => d = Gone(o)
    BY <1>4, UnionCases
  <2>3. QED
    BY <2>1, <2>2
<1>5. CASE o \in On(m) /\ extra[possible(1)] = 1 /\ extra[count(o)] = m[o]
  <2>1. OneTooMany(m, o) \in MultisetCopies(m) /\ OneTooMany(m, o).op = o /\ Enabled(OneTooMany(m, o))
    BY <1>5, UnionShapes, UnionFields
  <2>2. \A d \in MultisetCopies(m) : d.op = o /\ Enabled(d) => d = OneTooMany(m, o)
    BY <1>2, <1>5, UnionCases
  <2>3. QED
    BY <2>1, <2>2
<1>6. CASE o \in On(m) /\ extra[possible(1)] = 1 /\ extra[count(o)] # m[o]
  <2> DEFINE n == extra[count(o)]
  <2>1. n \in Counted(m[o])
    BY <1>2, <1>6
  <2>2. OneMore(o, n) \in MultisetCopies(m) /\ OneMore(o, n).op = o /\ Enabled(OneMore(o, n))
    BY <1>6, <2>1, UnionShapes, UnionFields
  <2>3. \A d \in MultisetCopies(m) : d.op = o /\ Enabled(d) => d = OneMore(o, n)
    BY <1>6, UnionCases
  <2>4. QED
    BY <2>2, <2>3
<1>7. QED
  BY <1>1, <1>3, <1>4, <1>5, <1>6

LEMMA UnionStep ==
  ASSUME NEW m \in Multiset, UnionState(m), run \in Seq(Op),
         NEW c \in MultisetCopies(m), Enabled(c), c.op \in Op,
         extra' = And(c.eff, extra), run' = Append(run, c.op)
  PROVE  UnionState(m)'
<1> DEFINE o == c.op
           Ids == {count(k) : k \in On(m)}
<1>1. /\ counted \in Multiset /\ counted'[o] = counted[o] + 1
      /\ \A k \in Op \ {o} : counted'[k] = counted[k]
      /\ Within(counted', m) <=> Within(counted, m) /\ counted[o] < m[o]
  BY WithinGrows
<1>2. DOMAIN extra = {possible(1)} \cup Ids /\ \A x \in Ids : x # possible(1)
  BY Names DEF UnionState
<1>3. \A k \in Op : m[k] \in Nat /\ counted[k] \in Nat /\ (k \in On(m) <=> m[k] > 0)
  BY <1>1 DEF Multiset, On
<1>4. \A k \in On(m) : k \in Op /\ count(k) \in Ids
  BY DEF On
<1>5. ASSUME c.eff = Only(possible(1), 0), ~ Within(counted', m)
      PROVE  UnionState(m)'
  <2>1. extra' = And(Only(possible(1), 0), extra)
    BY <1>5
  <2>2. /\ \A x : x \in DOMAIN extra' <=> x = possible(1) \/ x \in DOMAIN extra
        /\ extra'[possible(1)] = 0
        /\ \A x \in DOMAIN extra : x # possible(1) => extra'[x] = extra[x]
    BY <2>1, SetOne
  <2>3. DOMAIN extra' = DOMAIN extra
    BY <1>2, <2>2
  <2>4. \A k \in On(m) : extra'[count(k)] \in 0 .. m[k]
    BY <1>2, <1>4, <2>2 DEF UnionState
  <2>5. QED
    BY <1>2, <1>5, <2>2, <2>3, <2>4 DEF UnionState
<1>6. CASE o \in Op \ On(m) /\ c = Outside(o)
  <2>1. c.eff = Only(possible(1), 0)
    BY <1>6, Fields DEF Outside
  <2>2. ~ Within(counted', m)
    BY <1>1, <1>3, <1>6
  <2>3. QED
    BY <1>5, <2>1, <2>2
<1>7. CASE c = Gone(o) /\ extra[possible(1)] = 0
  <2>1. c.eff = Nothing
    BY <1>7, Fields DEF Gone
  <2>2. DOMAIN extra' = DOMAIN extra /\ \A x \in DOMAIN extra : extra'[x] = extra[x]
    <3>1. DOMAIN And(Nothing, extra) = DOMAIN Nothing \cup DOMAIN extra
          /\ \A y \in DOMAIN extra \ DOMAIN Nothing : And(Nothing, extra)[y] = extra[y]
      BY AndIs
    <3>2. QED
      BY <2>1, <3>1, NothingIs
  <2>3. ~ Within(counted', m)
    BY <1>1, <1>7 DEF UnionState
  <2>4. \A k \in On(m) : extra'[count(k)] \in 0 .. m[k]
    BY <1>2, <1>4, <2>2 DEF UnionState
  <2>5. QED
    BY <1>2, <1>7, <2>2, <2>3, <2>4 DEF UnionState
<1>8. CASE o \in On(m) /\ c = OneTooMany(m, o) /\ extra[possible(1)] = 1 /\ extra[count(o)] = m[o]
  <2>1. c.eff = Only(possible(1), 0)
    <3>1. OneTooMany(m, o).eff = Only(possible(1), 0)
      BY Fields DEF OneTooMany
    <3>2. QED
      BY <1>8, <3>1
  <2>2. ~ Within(counted', m)
    BY <1>1, <1>3, <1>4, <1>8 DEF UnionState
  <2>3. QED
    BY <1>5, <2>1, <2>2
<1>9. CASE /\ o \in On(m) /\ extra[count(o)] \in Counted(m[o])
           /\ c = OneMore(o, extra[count(o)]) /\ extra[possible(1)] = 1
  <2> DEFINE n == extra[count(o)]
  <2>1. c.eff = Only(count(o), n + 1)
    <3>1. OneMore(o, n).eff = Only(count(o), n + 1)
      BY UnionFields
    <3>2. QED
      BY <1>9, <3>1
  <2>2. n = counted[o] /\ Within(counted, m) /\ n < m[o] /\ n \in Nat
    BY <1>3, <1>4, <1>9 DEF UnionState, Counted
  <2>3. Within(counted', m)
    BY <1>1, <2>2
  <2>4. extra' = And(Only(count(o), n + 1), extra)
    BY <2>1
  <2> HIDE DEF n
  <2>5. /\ \A x : x \in DOMAIN extra' <=> x = count(o) \/ x \in DOMAIN extra
        /\ extra'[count(o)] = n + 1
        /\ \A x \in DOMAIN extra : x # count(o) => extra'[x] = extra[x]
    BY <2>4, SetOne
  <2>6. DOMAIN extra' = DOMAIN extra
    BY <1>2, <1>4, <1>9, <2>5
  <2>7. extra'[possible(1)] = 1
    BY <1>2, <1>4, <1>9, <2>5
  <2>8. \A k \in On(m) : extra'[count(k)] = counted'[k]
    <3>1. ASSUME NEW k \in On(m), k # o
          PROVE  extra'[count(k)] = counted'[k]
      <4>1. count(k) # count(o) /\ count(k) \in DOMAIN extra
        BY <1>2, <1>4, <3>1, Names
      <4>2. extra[count(k)] = counted[k] /\ counted'[k] = counted[k]
        BY <1>1, <1>4, <1>9, <3>1 DEF UnionState
      <4>3. QED
        BY <2>5, <4>1, <4>2
    <3>2. QED
      BY <1>1, <2>2, <2>5, <3>1
  <2>9. \A k \in On(m) : counted'[k] \in 0 .. m[k]
    <3>1. \A k \in Op : counted'[k] \in Nat /\ counted'[k] <= m[k]
      BY <1>1, <1>3, <2>3 DEF Within
    <3>2. QED
      BY <1>3, <1>4, <3>1
  <2>10. QED
    BY <1>2, <2>3, <2>6, <2>7, <2>8, <2>9 DEF UnionState
<1>10. QED
  BY <1>6, <1>7, <1>8, <1>9, UnionCases

-----------------------------------------------------------------------------
(* MultisetsForbidReformulatedTask.                                        *)

Discarding(N) == All({possible(m) : m \in N}, 0)
Leaving(M, o, n) == {m \in M : Leaves(m, o, n)}
OutsideAll(M, o) == Copy(o, Nothing, Discarding(M))
AtMost(M, o, n) == Copy(o, Only(count(o), n), Discarding(M))
Discard(M, o, n) == Copy(o, Only(count(o), n), And(Only(count(o), n + 1), Discarding(Leaving(M, o, n))))

LEMMA MultisetsShapes ==
  ASSUME NEW M, NEW c
  PROVE  LET u == multiset_union(M) IN
         c \in MultisetsCopies(M) <=>
           \/ \E o \in Op \ On(u) : c = OutsideAll(M, o)
           \/ \E o \in On(u) : c = AtMost(M, o, u[o])
           \/ \E o \in On(u) : \E n \in Counted(u[o]) : c = Discard(M, o, n)
<1> DEFINE u == multiset_union(M)
<1>1. MultisetsCopies(M) =
             {OutsideAll(M, o) : o \in Op \ On(u)}
        \cup {AtMost(M, o, u[o]) : o \in On(u)}
        \cup UNION {{Discard(M, o, n) : n \in Counted(u[o])} : o \in On(u)}
  BY DEF MultisetsCopies, OutsideAll, AtMost, Discard, Discarding, Leaving
<1> HIDE DEF u
<1>2. c \in UNION {{Discard(M, o, n) : n \in Counted(u[o])} : o \in On(u)}
        <=> \E o \in On(u) : \E n \in Counted(u[o]) : c = Discard(M, o, n)
  OBVIOUS
<1>3. c \in MultisetsCopies(M) <=>
        \/ \E o \in Op \ On(u) : c = OutsideAll(M, o)
        \/ \E o \in On(u) : c = AtMost(M, o, u[o])
        \/ \E o \in On(u) : \E n \in Counted(u[o]) : c = Discard(M, o, n)
  BY <1>1, <1>2
<1>4. QED
  BY <1>3 DEF u

LEMMA MultisetsFields ==
  ASSUME NEW M, NEW o, NEW n
  PROVE  /\ OutsideAll(M, o).op = o /\ AtMost(M, o, n).op = o /\ Discard(M, o, n).op = o
         /\ Enabled(OutsideAll(M, o))
         /\ Enabled(AtMost(M, o, n)) <=> extra[count(o)] = n
         /\ Enabled(Discard(M, o, n)) <=> extra[count(o)] = n
<1>1. /\ OutsideAll(M, o).op = o /\ AtMost(M, o, n).op = o /\ Discard(M, o, n).op = o
      /\ OutsideAll(M, o).pre = Nothing
      /\ AtMost(M, o, n).pre = Only(count(o), n) /\ Discard(M, o, n).pre = Only(count(o), n)
  BY Fields DEF OutsideAll, AtMost, Discard
<1>2. Enabled(OutsideAll(M, o))
  BY <1>1, NothingIs DEF Enabled
<1>3. DOMAIN Only(count(o), n) = {count(o)} /\ Only(count(o), n)[count(o)] = n
  BY OnlyIs
<1>4. QED
  BY <1>1, <1>2, <1>3 DEF Enabled

LEMMA MultisetsCases ==
  ASSUME NEW M, NEW u, u = multiset_union(M), NEW d \in MultisetsCopies(M), Enabled(d)
  PROVE  \/ d.op \in Op \ On(u) /\ d = OutsideAll(M, d.op)
         \/ d.op \in On(u) /\ d = AtMost(M, d.op, u[d.op]) /\ extra[count(d.op)] = u[d.op]
         \/ /\ d.op \in On(u) /\ extra[count(d.op)] \in Counted(u[d.op])
            /\ d = Discard(M, d.op, extra[count(d.op)])
<1>1. \/ \E o \in Op \ On(u) : d = OutsideAll(M, o)
      \/ \E o \in On(u) : d = AtMost(M, o, u[o])
      \/ \E o \in On(u) : \E n \in Counted(u[o]) : d = Discard(M, o, n)
  BY MultisetsShapes
<1>2. CASE \E o \in Op \ On(u) : d = OutsideAll(M, o)
  <2>1. PICK o \in Op \ On(u) : d = OutsideAll(M, o)
    BY <1>2
  <2>2. d.op = o
    BY <2>1, Fields DEF OutsideAll
  <2>3. QED
    BY <2>1, <2>2
<1>3. CASE \E o \in On(u) : d = AtMost(M, o, u[o])
  <2>1. PICK o \in On(u) : d = AtMost(M, o, u[o])
    BY <1>3
  <2>2. d.op = o /\ extra[count(o)] = u[o]
    BY <2>1, MultisetsFields
  <2>3. QED
    BY <2>1, <2>2
<1>4. CASE \E o \in On(u) : \E n \in Counted(u[o]) : d = Discard(M, o, n)
  <2>1. PICK o \in On(u) : \E n \in Counted(u[o]) : d = Discard(M, o, n)
    BY <1>4
  <2>2. PICK n \in Counted(u[o]) : d = Discard(M, o, n)
    BY <2>1
  <2>3. d.op = o /\ extra[count(o)] = n
    BY <2>2, MultisetsFields
  <2>4. QED
    BY <2>1, <2>2, <2>3
<1>5. QED
  BY <1>1, <1>2, <1>3, <1>4

AtCount(m, n) == IF m <= n THEN m ELSE n

\* The variable of a multiset says that the run is within it; a counter stops
\* at the largest count of its operator in any of them.
MultisetsState(M) ==
  LET u == multiset_union(M) IN
  /\ DOMAIN extra = {possible(m) : m \in M} \cup {count(o) : o \in On(u)}
  /\ \A m \in M : extra[possible(m)] \in {0, 1} /\ (extra[possible(m)] = 1 <=> Within(counted, m))
  /\ \A o \in On(u) : extra[count(o)] = AtCount(counted[o], u[o])

\* What is used of the union.
Covers(u, M) == u \in Multiset /\ \A m \in M : m \in Multiset /\ Within(m, u)

LEMMA MultisetsStart ==
  ASSUME NEW M, Covers(multiset_union(M), M), extra' = MultisetsVariables(M), run' = <<>>
  PROVE  MultisetsState(M)'
<1> DEFINE u == multiset_union(M)
           X == {possible(m) : m \in M}
           Y == {count(o) : o \in On(u)}
           f == All(X, 1)
           g == All(Y, 0)
<1>1. extra' = And(f, g)
  BY DEF MultisetsVariables
<1>2. /\ \A m \in M : possible(m) \in X
      /\ \A o \in On(u) : count(o) \in Y /\ count(o) \notin X
  BY Names
<1> HIDE DEF X, Y
<1>3. DOMAIN f = X /\ (\A x \in X : f[x] = 1) /\ DOMAIN g = Y /\ (\A y \in Y : g[y] = 0)
  BY AllIs
<1> HIDE DEF f, g
<1>4. /\ DOMAIN And(f, g) = DOMAIN f \cup DOMAIN g
      /\ \A y \in DOMAIN f : And(f, g)[y] = f[y]
      /\ \A y \in DOMAIN g \ DOMAIN f : And(f, g)[y] = g[y]
  BY AndIs
<1>5. DOMAIN extra' = X \cup Y /\ (\A m \in M : extra'[possible(m)] = 1) /\ (\A o \in On(u) : extra'[count(o)] = 0)
  BY <1>1, <1>2, <1>3, <1>4
<1>6. \A o \in Op : counted'[o] = 0 /\ u[o] \in Nat
  BY EmptyPlan DEF counted, Multiset, Covers
<1>7. \A o \in On(u) : AtCount(counted'[o], u[o]) = 0
  BY <1>6 DEF On, AtCount
<1>8. \A m \in M : Within(counted', m)
  BY <1>6 DEF Within, Covers, Multiset
<1>9. QED
  BY <1>5, <1>7, <1>8 DEF MultisetsState, X, Y

LEMMA MultisetsOnlyCopy ==
  ASSUME NEW M, Covers(multiset_union(M), M), NEW o \in Op, MultisetsState(M), counted \in Multiset
  PROVE  \E c \in MultisetsCopies(M) :
           /\ c.op = o /\ Enabled(c)
           /\ \A d \in MultisetsCopies(M) : d.op = o /\ Enabled(d) => d = c
<1> DEFINE u == multiset_union(M)
<1> HIDE DEF u
<1>0. u = multiset_union(M)
  BY DEF u
<1>1. CASE o \notin On(u)
  <2>1. OutsideAll(M, o) \in MultisetsCopies(M) /\ OutsideAll(M, o).op = o /\ Enabled(OutsideAll(M, o))
    BY <1>0, <1>1, MultisetsShapes, MultisetsFields
  <2>2. \A d \in MultisetsCopies(M) : d.op = o /\ Enabled(d) => d = OutsideAll(M, o)
    BY <1>0, <1>1, MultisetsCases
  <2>3. QED
    BY <2>1, <2>2
<1>2. CASE o \in On(u)
  <2> DEFINE n == extra[count(o)]
  <2>1. u[o] \in Nat /\ counted[o] \in Nat /\ n = AtCount(counted[o], u[o])
    BY <1>0, <1>2 DEF MultisetsState, Covers, Multiset
  <2>2. n \in Counted(u[o]) <=> n # u[o]
    BY <2>1 DEF AtCount, Counted
  <2>3. CASE n = u[o]
    <3>1. AtMost(M, o, u[o]) \in MultisetsCopies(M) /\ AtMost(M, o, u[o]).op = o /\ Enabled(AtMost(M, o, u[o]))
      BY <1>0, <1>2, <2>3, MultisetsShapes, MultisetsFields
    <3>2. \A d \in MultisetsCopies(M) : d.op = o /\ Enabled(d) => d = AtMost(M, o, u[o])
      BY <1>0, <1>2, <2>2, <2>3, MultisetsCases
    <3>3. QED
      BY <3>1, <3>2
  <2>4. CASE n # u[o]
    <3>1. Discard(M, o, n) \in MultisetsCopies(M) /\ Discard(M, o, n).op = o /\ Enabled(Discard(M, o, n))
      BY <1>0, <1>2, <2>2, <2>4, MultisetsShapes, MultisetsFields
    <3>2. \A d \in MultisetsCopies(M) : d.op = o /\ Enabled(d) => d = Discard(M, o, n)
      BY <1>0, <1>2, <2>4, MultisetsCases
    <3>3. QED
      BY <3>1, <3>2
  <2>5. QED
    BY <2>3, <2>4
<1>3. QED
  BY <1>1, <1>2

LEMMA MultisetsStep ==
  ASSUME NEW M, Covers(multiset_union(M), M), MultisetsState(M), run \in Seq(Op),
         NEW c \in MultisetsCopies(M), Enabled(c), c.op \in Op,
         extra' = And(c.eff, extra), run' = Append(run, c.op)
  PROVE  MultisetsState(M)'
<1> DEFINE o == c.op
           u == multiset_union(M)
           X == {possible(m) : m \in M}
           Y == {count(k) : k \in On(u)}
<1>1. /\ u \in Multiset /\ \A m \in M : m \in Multiset /\ Within(m, u)
      /\ DOMAIN extra = X \cup Y
      /\ \A m \in M : extra[possible(m)] \in {0, 1} /\ (extra[possible(m)] = 1 <=> Within(counted, m))
      /\ \A k \in On(u) : extra[count(k)] = AtCount(counted[k], u[k])
  BY DEF Covers, MultisetsState
<1>2. /\ counted \in Multiset /\ counted'[o] = counted[o] + 1
      /\ \A k \in Op \ {o} : counted'[k] = counted[k]
      /\ \A m \in M : Within(counted', m) <=> Within(counted, m) /\ counted[o] < m[o]
  BY <1>1, WithinGrows
<1>3. /\ \A k \in Op : u[k] \in Nat /\ counted[k] \in Nat /\ (k \in On(u) <=> u[k] > 0)
      /\ \A m \in M : m[o] \in Nat /\ m[o] <= u[o]
  BY <1>1, <1>2 DEF Multiset, On, Within
<1>4. /\ \A m \in M : possible(m) \in X /\ \A k : possible(m) # count(k)
      /\ \A k \in On(u) : k \in Op /\ count(k) \in Y /\ count(k) \notin X
      /\ \A x \in X : \E m \in M : x = possible(m)
      /\ \A m, n : possible(m) = possible(n) => m = n
      /\ \A k, l : count(k) = count(l) => k = l
  BY Names DEF On
<1>5. multiset_union(M)' = u
  BY DEF multiset_union
<1> HIDE DEF X, Y, u
\* What remains to show, of the new values of the variables.
<1>6. ASSUME DOMAIN extra' = X \cup Y,
             \A m \in M : extra'[possible(m)] \in {0, 1} /\ (extra'[possible(m)] = 1 <=> Within(counted', m)),
             \A k \in On(u) : extra'[count(k)] = AtCount(counted'[k], u[k])
      PROVE  MultisetsState(M)'
  BY <1>5, <1>6 DEF MultisetsState, X, Y, u
<1>7. ASSUME NEW N, N \subseteq M
      PROVE  LET d == Discarding(N) IN
             /\ \A x : x \in DOMAIN d <=> \E m \in N : x = possible(m)
             /\ \A m \in N : d[possible(m)] = 0
  <2> DEFINE Z == {possible(m) : m \in N}
  <2>1. \A m \in N : possible(m) \in Z
    OBVIOUS
  <2>2. \A x : x \in Z <=> \E m \in N : x = possible(m)
    OBVIOUS
  <2> HIDE DEF Z
  <2>3. DOMAIN All(Z, 0) = Z /\ \A y \in Z : All(Z, 0)[y] = 0
    BY AllIs
  <2>4. Discarding(N) = All(Z, 0)
    BY DEF Discarding, Z
  <2>5. QED
    BY <2>1, <2>2, <2>3, <2>4
<1>8. ASSUME c.eff = Discarding(M), u[o] <= counted[o]
      PROVE  MultisetsState(M)'
  <2> DEFINE d == Discarding(M)
  <2>1. DOMAIN d = X /\ \A m \in M : d[possible(m)] = 0
    BY <1>7 DEF X
  <2>2. /\ DOMAIN And(d, extra) = DOMAIN d \cup DOMAIN extra
        /\ \A y \in DOMAIN d : And(d, extra)[y] = d[y]
        /\ \A y \in DOMAIN extra \ DOMAIN d : And(d, extra)[y] = extra[y]
    BY AndIs
  <2>3. extra' = And(d, extra)
    BY <1>8
  <2> HIDE DEF d
  <2>4. DOMAIN extra' = X \cup Y
    BY <1>1, <2>1, <2>2, <2>3
  <2>5. \A m \in M : extra'[possible(m)] = 0 /\ ~ Within(counted', m)
    <3>1. \A m \in M : extra'[possible(m)] = 0
      BY <1>4, <2>1, <2>2, <2>3
    <3>2. \A m \in M : ~ Within(counted', m)
      BY <1>2, <1>3, <1>8
    <3>3. QED
      BY <3>1, <3>2
  <2>6. \A k \in On(u) : extra'[count(k)] = extra[count(k)]
    BY <1>1, <1>4, <2>1, <2>2, <2>3
  <2>7. \A k \in On(u) : AtCount(counted'[k], u[k]) = AtCount(counted[k], u[k])
    <3>1. ASSUME NEW k \in On(u)
          PROVE  AtCount(counted'[k], u[k]) = AtCount(counted[k], u[k])
      <4>1. CASE k = o
        BY <1>2, <1>3, <1>4, <1>8, <4>1 DEF AtCount
      <4>2. CASE k # o
        BY <1>2, <1>4, <4>2
      <4>3. QED
        BY <4>1, <4>2
    <3>2. QED
      BY <3>1
  <2>8. QED
    BY <1>1, <1>6, <2>4, <2>5, <2>6, <2>7
<1>9. CASE o \in Op \ On(u) /\ c = OutsideAll(M, o)
  <2>1. c.eff = Discarding(M)
    BY <1>9, Fields DEF OutsideAll
  <2>2. u[o] <= counted[o]
    BY <1>3, <1>9
  <2>3. QED
    BY <1>8, <2>1, <2>2
<1>10. CASE o \in On(u) /\ c = AtMost(M, o, u[o]) /\ extra[count(o)] = u[o]
  <2>1. c.eff = Discarding(M)
    BY <1>10, Fields DEF AtMost
  <2>2. u[o] <= counted[o]
    BY <1>1, <1>3, <1>4, <1>10 DEF AtCount
  <2>3. QED
    BY <1>8, <2>1, <2>2
<1>11. CASE o \in On(u) /\ extra[count(o)] \in Counted(u[o]) /\ c = Discard(M, o, extra[count(o)])
  <2> DEFINE n == extra[count(o)]
             N == Leaving(M, o, n)
             g == Discarding(N)
             e == And(Only(count(o), n + 1), g)
  <2>1. n = counted[o] /\ n \in Nat /\ n < u[o] /\ o \in Op
    BY <1>1, <1>3, <1>4, <1>11 DEF AtCount, Counted
  <2>2. c.eff = e
    BY <1>11, Fields DEF Discard
  <2>3. N \subseteq M /\ \A m \in M : m \in N <=> m[o] = n
    BY DEF Leaving, Leaves
  <2> HIDE DEF N
  <2>4. /\ \A x : x \in DOMAIN g <=> \E m \in N : x = possible(m)
        /\ \A m \in N : g[possible(m)] = 0
    BY <1>7, <2>3
  <2> HIDE DEF g, n
  <2>5. /\ \A y : y \in DOMAIN e <=> y = count(o) \/ y \in DOMAIN g
        /\ e[count(o)] = n + 1
        /\ \A y \in DOMAIN g : y # count(o) => e[y] = g[y]
    BY SetOne
  <2> HIDE DEF e
  <2>6. /\ DOMAIN And(e, extra) = DOMAIN e \cup DOMAIN extra
        /\ \A y \in DOMAIN e : And(e, extra)[y] = e[y]
        /\ \A y \in DOMAIN extra \ DOMAIN e : And(e, extra)[y] = extra[y]
    BY AndIs
  <2>7. extra' = And(e, extra)
    BY <2>2
  <2>8. DOMAIN extra' = X \cup Y
    <3>1. \A y \in DOMAIN e : y \in X \cup Y
      BY <1>4, <1>11, <2>3, <2>4, <2>5
    <3>2. QED
      BY <1>1, <2>6, <2>7, <3>1
  <2>9. ASSUME NEW m \in M
        PROVE  extra'[possible(m)] \in {0, 1} /\ (extra'[possible(m)] = 1 <=> Within(counted', m))
    <3>1. CASE m \in N
      <4>1. possible(m) \in DOMAIN e /\ e[possible(m)] = 0
        BY <1>4, <2>4, <2>5, <3>1
      <4>2. ~ Within(counted', m)
        BY <1>2, <1>3, <2>1, <2>3, <3>1
      <4>3. extra'[possible(m)] = 0
        BY <2>6, <2>7, <4>1
      <4>4. QED
        BY <4>2, <4>3
    <3>2. CASE m \notin N
      <4>1. possible(m) \notin DOMAIN e
        <5>1. possible(m) # count(o)
          BY <1>4
        <5>2. possible(m) \notin DOMAIN g
          BY <1>4, <2>4, <3>2
        <5>3. QED
          BY <2>5, <5>1, <5>2
      <4>2. extra'[possible(m)] = extra[possible(m)]
        BY <1>1, <1>4, <2>6, <2>7, <4>1
      <4>3. Within(counted', m) <=> Within(counted, m)
        <5>1. m[o] # counted[o]
          BY <2>1, <2>3, <3>2
        <5>2. Within(counted, m) => counted[o] < m[o]
          BY <1>3, <2>1, <5>1 DEF Within
        <5>3. QED
          BY <1>2, <5>2
      <4>4. QED
        BY <1>1, <4>2, <4>3
    <3>3. QED
      BY <3>1, <3>2
  <2>10. ASSUME NEW k \in On(u)
         PROVE  extra'[count(k)] = AtCount(counted'[k], u[k])
    <3>1. CASE k = o
      <4>1. extra'[count(k)] = n + 1
        BY <2>5, <2>6, <2>7, <3>1
      <4>2. counted'[k] = n + 1 /\ n + 1 <= u[k]
        BY <1>2, <1>3, <2>1, <3>1
      <4>3. QED
        BY <4>1, <4>2 DEF AtCount
    <3>2. CASE k # o
      <4>1. count(k) \notin DOMAIN e
        <5>1. count(k) # count(o)
          BY <1>4, <3>2
        <5>2. count(k) \notin DOMAIN g
          BY <2>4, Names
        <5>3. QED
          BY <2>5, <5>1, <5>2
      <4>2. extra'[count(k)] = extra[count(k)]
        BY <1>1, <1>4, <2>6, <2>7, <4>1
      <4>3. counted'[k] = counted[k]
        BY <1>2, <1>4, <3>2
      <4>4. QED
        BY <1>1, <4>2, <4>3
    <3>3. QED
      BY <3>1, <3>2
  <2>11. QED
    BY <1>6, <2>8, <2>9, <2>10
<1>12. QED
  <2>1. u = multiset_union(M)
    BY DEF u
  <2>2. QED
    BY <1>9, <1>10, <1>11, <2>1, MultisetsCases

-----------------------------------------------------------------------------
(* The specification.                                                      *)

TaskInv ==
  pc = "task" =>
    /\ kind = "plan" => PlanState(input[1])
    /\ kind = "multiset" => UnionState(multiset_union(multisets))
    /\ kind = "multisets" => MultisetsState(multisets)

IInv == ExtensionInv /\ TaskInv

LEMMA ForbiddenTypes ==
  ASSUME TypeOK
  PROVE  /\ kind \in {"plan", "multiset", "multisets"}
         /\ kind = "plan" => input[1] \in Seq(Op)
         /\ multisets = MultisetsOf(plans) /\ Covers(multiset_union(multisets), multisets)
<1>1. multisets = MultisetsOf(plans)
  BY DEF multisets, MultisetsOf
<1>2. plans \in Seq(Seq(Op)) /\ input \in Seq(Seq(Op)) /\ kind \in {"plan", "multiset", "multisets"}
  BY TaskAssumption DEF TypeOK
<1>3. Covers(multiset_union(multisets), multisets)
  <2>1. \A i \in DOMAIN plans : plans[i] \in Seq(Op)
    BY <1>2
  <2>2. \A m \in MultisetsOf(plans) : m \in Multiset
    BY <2>1, MultisetType DEF MultisetsOf
  <2>3. QED
    BY <1>1, <1>2, <2>2, Union DEF Covers
<1>4. kind = "plan" => input[1] \in Seq(Op)
  <2>1. kind = "plan" => 1 \in DOMAIN input
    BY <1>2 DEF TypeOK
  <2>2. QED
    BY <1>2, <2>1
<1>5. QED
  BY <1>1, <1>2, <1>3, <1>4

LEMMA BuildStep ==
  ASSUME IInv, Build
  PROVE  IInv'
<1>1. /\ ExtensionInv /\ pc = "build" /\ pc' = "task" /\ ~ enough_plans_found /\ extra' = Variables
      /\ UNCHANGED <<kind, gens, number_of_plans, input, plans, plans_sets, frontier,
                     new_frontier, generator, position, cur, run>>
  BY DEF IInv, Build, options, call
<1>2. TypeOK /\ run = <<>> /\ Unfinished
  BY <1>1, Enough DEF ExtensionInv, Fresh
<1>3. TypeOK' /\ Reading' /\ Done' /\ Applied' /\ Fresh'
  BY <1>1, <1>2 DEF TypeOK, Reading, Done, Applied, Fresh, Unfinished
<1>4. Known'
  BY <1>1 DEF ExtensionInv, Known, MultisetsOf
<1>5. Complete'
  BY <1>1 DEF ExtensionInv, Complete, Closed, Unfinished
<1>6. Least'
  BY <1>1, OptionsStay DEF ExtensionInv, Least
<1>7. TaskInv'
  <2>1. multisets' = multisets /\ run' = <<>> /\ input' = input /\ kind' = kind
    BY <1>1, <1>2 DEF multisets
  <2>2. kind = "plan" => PlanState(input[1])'
    <3>1. SUFFICES ASSUME kind = "plan"
                   PROVE  PlanState(input[1])'
      OBVIOUS
    <3>2. extra' = PlanVariables(input[1])
      BY <1>1, <3>1 DEF Variables
    <3>3. input'[1] \in Seq(Op) /\ extra' = PlanVariables(input'[1])
      BY <1>1, <1>2, <3>1, <3>2, ForbiddenTypes
    <3>4. QED
      BY <2>1, <3>3, PlanStart
  <2>3. kind = "multiset" => UnionState(multiset_union(multisets))'
    <3>1. SUFFICES ASSUME kind = "multiset"
                   PROVE  UnionState(multiset_union(multisets))'
      OBVIOUS
    <3>2. extra' = MultisetVariables(multiset_union(multisets))
      BY <1>1, <3>1 DEF Variables
    <3>3. multiset_union(multisets) \in Multiset
      BY <1>2, ForbiddenTypes DEF Covers
    <3>4. QED
      BY <2>1, <3>2, <3>3, UnionStart
  <2>4. kind = "multisets" => MultisetsState(multisets)'
    <3>1. SUFFICES ASSUME kind = "multisets"
                   PROVE  MultisetsState(multisets)'
      OBVIOUS
    <3>2. extra' = MultisetsVariables(multisets)
      BY <1>1, <3>1 DEF Variables
    <3>3. Covers(multiset_union(multisets), multisets)
      BY <1>2, ForbiddenTypes
    <3>4. QED
      BY <2>1, <3>2, <3>3, MultisetsStart
  <2>5. QED
    BY <2>1, <2>2, <2>3, <2>4 DEF TaskInv
<1>8. QED
  BY <1>3, <1>4, <1>5, <1>6, <1>7 DEF IInv, ExtensionInv

LEMMA NoTaskStep ==
  ASSUME IInv, NoTask
  PROVE  IInv'
<1>1. /\ ExtensionInv /\ pc = "build" /\ pc' = "exited"
      /\ UNCHANGED <<kind, gens, number_of_plans, input, plans, plans_sets, frontier,
                     new_frontier, generator, position, cur, run>>
  BY DEF IInv, NoTask, options, call
<1>2. TypeOK' /\ Reading' /\ Known' /\ Done' /\ Applied' /\ Complete' /\ Fresh'
  BY <1>1 DEF ExtensionInv, TypeOK, Reading, Known, Done, Applied, Complete, Fresh, MultisetsOf
<1>3. Least'
  BY <1>1, OptionsStay DEF ExtensionInv, Least
<1>4. TaskInv'
  BY <1>1 DEF TaskInv
<1>5. QED
  BY <1>2, <1>3, <1>4 DEF IInv, ExtensionInv

LEMMA ApplyStep ==
  ASSUME IInv, NEW c \in Copies, Apply(c)
  PROVE  IInv'
<1>1. /\ ExtensionInv /\ TaskInv /\ pc = "task" /\ pc' = "task" /\ Enabled(c)
      /\ <<cur, c.op>> \in DOMAIN Succ /\ cur' = Succ[<<cur, c.op>>]
      /\ extra' = And(c.eff, extra) /\ run' = Append(run, c.op)
      /\ UNCHANGED <<kind, gens, number_of_plans, input, plans, plans_sets, frontier,
                     new_frontier, generator, position>>
  BY DEF IInv, Apply, Applicable, Enabled, options, call
<1>2. TypeOK
  BY <1>1 DEF ExtensionInv
<1>3. c.op \in Op /\ cur' \in State
  BY <1>1, TaskAssumption
<1>4. run \in Seq(Op) /\ run' \in Seq(Op)
  BY <1>1, <1>2, <1>3 DEF TypeOK
<1>5. TypeOK' /\ Reading' /\ Done' /\ Applied' /\ Fresh'
  BY <1>1, <1>2, <1>3, <1>4 DEF ExtensionInv, TypeOK, Reading, Done, Applied, Fresh, Unfinished
<1>6. Known'
  BY <1>1 DEF ExtensionInv, Known, MultisetsOf
<1>7. Complete'
  BY <1>1 DEF ExtensionInv, Complete, Closed, Unfinished
<1>8. Least'
  BY <1>1, OptionsStay DEF ExtensionInv, Least
<1>9. multisets' = multisets /\ input' = input /\ kind' = kind
  BY <1>1 DEF multisets
<1>10. kind = "plan" => PlanState(input[1])'
  <2>1. SUFFICES ASSUME kind = "plan"
                 PROVE  PlanState(input[1])'
    OBVIOUS
  <2>2. input[1] \in Seq(Op) /\ PlanState(input[1]) /\ c \in PlanCopies(input[1])
    BY <1>1, <1>2, <2>1, ForbiddenTypes DEF TaskInv, Copies
  <2>3. QED
    BY <1>1, <1>3, <1>4, <1>9, <2>2, PlanStep
<1>11. kind = "multiset" => UnionState(multiset_union(multisets))'
  <2> DEFINE u == multiset_union(multisets)
  <2>1. SUFFICES ASSUME kind = "multiset"
                 PROVE  UnionState(u)'
    OBVIOUS
  <2>2. u \in Multiset /\ UnionState(u) /\ c \in MultisetCopies(u)
    BY <1>1, <1>2, <2>1, ForbiddenTypes DEF TaskInv, Copies, Covers
  <2>3. u' = u
    BY <1>9 DEF multiset_union
  <2> HIDE DEF u
  <2>4. QED
    BY <1>1, <1>3, <1>4, <2>2, <2>3, UnionStep
<1>12. kind = "multisets" => MultisetsState(multisets)'
  <2>1. SUFFICES ASSUME kind = "multisets"
                 PROVE  MultisetsState(multisets)'
    OBVIOUS
  <2>2. Covers(multiset_union(multisets), multisets) /\ MultisetsState(multisets) /\ c \in MultisetsCopies(multisets)
    BY <1>1, <1>2, <2>1, ForbiddenTypes DEF TaskInv, Copies
  <2>3. QED
    BY <1>1, <1>3, <1>4, <1>9, <2>2, MultisetsStep
<1>13. TaskInv'
  BY <1>9, <1>10, <1>11, <1>12 DEF TaskInv
<1>14. QED
  BY <1>5, <1>6, <1>7, <1>8, <1>13 DEF IInv, ExtensionInv

LEMMA StutterStep ==
  ASSUME IInv, UNCHANGED vars
  PROVE  IInv'
<1>1. UNCHANGED <<kind, gens, number_of_plans, input, pc, plans, plans_sets, frontier, new_frontier,
                  generator, position, extra, cur, run>>
  BY DEF vars, options, call
<1>2. multisets' = multisets /\ Least'
  BY <1>1, OptionsStay DEF IInv, ExtensionInv, Least, multisets
<1>3. TypeOK' /\ Reading' /\ Known' /\ Done' /\ Applied' /\ Complete' /\ Fresh'
  BY <1>1 DEF IInv, ExtensionInv, TypeOK, Reading, Known, Done, Applied, Complete, Fresh, Unfinished,
              Closed, MultisetsOf
<1>4. TaskInv'
  <2>1. multiset_union(multisets)' = multiset_union(multisets)
    BY <1>2 DEF multiset_union
  <2>2. PlanState(input[1])' <=> PlanState(input[1])
    BY <1>1 DEF PlanState, AsPrefix
  <2>3. UnionState(multiset_union(multisets))' <=> UnionState(multiset_union(multisets))
    BY <1>1, <2>1 DEF UnionState, counted
  <2>4. MultisetsState(multisets)' <=> MultisetsState(multisets)
    BY <1>1, <1>2, <2>1 DEF MultisetsState, counted
  <2>5. QED
    BY <1>1, <2>2, <2>3, <2>4 DEF IInv, TaskInv
<1>5. QED
  BY <1>2, <1>3, <1>4 DEF IInv, ExtensionInv

\* Until the task is built, only the plans change.
LEMMA ExtensionSteps ==
  ASSUME IInv, ReadPlan \/ AllRead \/ StartRound \/ PermutePlan \/ NextGenerator \/ EndOfRound
  PROVE  IInv'
<1>1. ExtensionInv'
  BY ReadPlanStep, AllReadStep, StartRoundStep, PermutePlanStep, NextGeneratorStep, EndOfRoundStep DEF IInv
<1>2. pc' # "task"
  BY DEF ReadPlan, AllRead, StartRound, PermutePlan, NextGenerator, EndOfRound, options
<1>3. QED
  BY <1>1, <1>2 DEF IInv, TaskInv

\* Every reachable state satisfies the inductive invariant.
THEOREM Invariance == Spec => []IInv
<1>1. Init => IInv
  BY InitialExtension DEF IInv, TaskInv, Init
<1>2. IInv /\ [Next]_vars => IInv'
  BY ExtensionSteps, BuildStep, NoTaskStep, ApplyStep, StutterStep DEF Next
<1>3. QED
  BY <1>1, <1>2, PTL DEF Spec

\* Type correctness of the call and of the task it builds.
THEOREM TypeCorrect == Spec => []TypeOK
<1>1. IInv => TypeOK
  BY DEF IInv, ExtensionInv
<1>2. QED
  BY <1>1, Invariance, PTL

-----------------------------------------------------------------------------
(* The properties.                                                         *)

LEMMA PrefixIs ==
  ASSUME NEW p \in Seq(Op), run \in Seq(Op)
  PROVE  IsPrefix(run, p) <=> AsPrefix(p)
<1>1. Len(run) \in Nat /\ Len(p) \in Nat
  OBVIOUS
<1>2. SubSeq(run, 1, Len(run)) = [i \in 1 .. Len(run) |-> run[i]]
  OBVIOUS
<1>3. Len(run) <= Len(p) => SubSeq(p, 1, Len(run)) = [i \in 1 .. Len(run) |-> p[i]]
  BY <1>1
<1>4. QED
  BY <1>1, <1>2, <1>3 DEF IsPrefix, AsPrefix

LEMMA GoalIsExact ==
  ASSUME IInv, pc = "task"
  PROVE  GoalReached <=> cur \in Goal /\ ~ Forbidden(run)
<1> DEFINE Left == \A x \in DOMAIN extra : x[1] = "possible" => extra[x] = 0
<1>1. TypeOK /\ TaskInv /\ run \in Seq(Op)
  BY DEF IInv, ExtensionInv, TypeOK
<1>2. CASE kind = "plan"
  <2>1. PlanState(input[1]) /\ input[1] \in Seq(Op)
    BY <1>1, <1>2, ForbiddenTypes DEF TaskInv
  <2>2. Left <=> extra[possible(1)] = 0
    BY <2>1, Names DEF PlanState
  <2>3. extra[possible(1)] \in {0, 1} /\ (extra[possible(1)] = 1 <=> AsPrefix(input[1]))
    BY <2>1 DEF PlanState
  <2>4. Forbidden(run) <=> AsPrefix(input[1])
    BY <1>1, <1>2, <2>1, PrefixIs DEF Forbidden
  <2>5. QED
    BY <2>2, <2>3, <2>4 DEF GoalReached
<1>3. CASE kind = "multiset"
  <2>1. UnionState(multiset_union(multisets))
    BY <1>1, <1>3 DEF TaskInv
  <2>2. Left <=> extra[possible(1)] = 0
    BY <2>1, Names DEF UnionState
  <2>3. Forbidden(run) <=> Within(counted, multiset_union(multisets))
    BY <1>3 DEF Forbidden, counted
  <2>4. QED
    BY <2>1, <2>2, <2>3 DEF GoalReached, UnionState
<1>4. CASE kind = "multisets"
  <2>1. MultisetsState(multisets)
    BY <1>1, <1>4 DEF TaskInv
  <2>2. Left <=> \A m \in multisets : extra[possible(m)] = 0
    BY <2>1, Names DEF MultisetsState
  <2>3. Forbidden(run) <=> \E m \in multisets : Within(counted, m)
    BY <1>4 DEF Forbidden, counted
  <2>4. QED
    BY <2>1, <2>2, <2>3 DEF GoalReached, MultisetsState
<1>5. QED
  BY <1>1, <1>2, <1>3, <1>4, ForbiddenTypes

\* When the rounds end, the plans are all that the generators lead to, and
\* whatever is closed under the generators has them all.
LEMMA OrbitIsExact ==
  ASSUME IInv, pc = "build", kind # "plan", ~ enough_plans_found
  PROVE  /\ Symmetric(multisets)
         /\ \A M \in SUBSET multisets : Symmetric(M) => M = multisets
<1>1. /\ TypeOK /\ Unfinished /\ plans_sets = multisets /\ multisets \subseteq Multiset
      /\ MultisetsOf(input) \subseteq multisets /\ \A m \in multisets : Closed(m)
  <2>1. TypeOK /\ Unfinished
    BY Enough DEF IInv, ExtensionInv
  <2>2. plans_sets = multisets /\ MultisetsOf(input) \subseteq multisets
    BY <2>1, ForbiddenTypes DEF IInv, ExtensionInv, Known
  <2>3. multisets \subseteq Multiset
    BY <2>1, <2>2 DEF TypeOK
  <2>4. \A m \in multisets : Closed(m)
    BY <2>1, <2>2 DEF IInv, ExtensionInv, Complete
  <2>5. QED
    BY <2>1, <2>2, <2>3, <2>4
<1>2. Symmetric(multisets)
  BY <1>1 DEF Symmetric, Closed, MultisetsOf
<1>3. \A M \in SUBSET multisets : Symmetric(M) => M = multisets
  BY <1>1 DEF IInv, ExtensionInv, Least
<1>4. QED
  BY <1>2, <1>3

\* The reformulated task forbids exactly the plans that were read and those
\* symmetric to them, for every parent task, every set of plans and every
\* group of permutations.
THEOREM SolutionsCorrect == Spec => []SolutionsAreExact
<1>1. IInv => SolutionsAreExact
  BY GoalIsExact, OrbitIsExact DEF SolutionsAreExact
<1>2. QED
  BY <1>1, Invariance, PTL

\* The variables that the reformulated task declares.
LEMMA DeclaredVariables ==
  /\ \A p \in Seq(Op) :
       DOMAIN PlanVariables(p) = {possible(1)} \cup {following(i) : i \in 0 .. Len(p)}
  /\ \A m : DOMAIN MultisetVariables(m) = {possible(1)} \cup {count(o) : o \in On(m)}
  /\ \A M : DOMAIN MultisetsVariables(M) =
              {possible(m) : m \in M} \cup {count(o) : o \in On(multiset_union(M))}
<1>1. \A X, Y, v, w : DOMAIN And(All(X, v), All(Y, w)) = X \cup Y
  BY DEF And, All
<1>2. \A x, Y, v, w : DOMAIN And(Only(x, v), All(Y, w)) = {x} \cup Y
  BY DEF And, All, Only
<1>3. ASSUME NEW p \in Seq(Op)
      PROVE  DOMAIN PlanVariables(p) = {possible(1)} \cup {following(i) : i \in 0 .. Len(p)}
  <2>1. DOMAIN PlanVariables(p) = {possible(1), following(0)} \cup {following(i) : i \in DOMAIN p}
    BY <1>1 DEF PlanVariables
  <2>2. \A i : i \in 0 .. Len(p) <=> i = 0 \/ i \in DOMAIN p
    OBVIOUS
  <2>3. QED
    BY <2>1, <2>2
<1>4. \A m : DOMAIN MultisetVariables(m) = {possible(1)} \cup {count(o) : o \in On(m)}
  BY <1>2 DEF MultisetVariables
<1>5. \A M : DOMAIN MultisetsVariables(M) =
               {possible(m) : m \in M} \cup {count(o) : o \in On(multiset_union(M))}
  BY <1>1 DEF MultisetsVariables
<1>6. QED
  BY <1>3, <1>4, <1>5

LEMMA OnlyCopy ==
  ASSUME IInv, pc = "task", NEW o \in Op
  PROVE  \E c \in Copies :
           /\ c.op = o /\ Enabled(c)
           /\ \A d \in Copies : d.op = o /\ Enabled(d) => d = c
<1>1. TypeOK /\ TaskInv /\ run \in Seq(Op) /\ counted \in Multiset
  BY MultisetType DEF IInv, ExtensionInv, TypeOK, counted
<1>2. CASE kind = "plan"
  <2>1. PlanState(input[1]) /\ input[1] \in Seq(Op) /\ Copies = PlanCopies(input[1])
    BY <1>1, <1>2, ForbiddenTypes DEF TaskInv, Copies
  <2>2. QED
    BY <1>1, <2>1, PlanOnlyCopy
<1>3. CASE kind = "multiset"
  <2> DEFINE u == multiset_union(multisets)
  <2>1. UnionState(u) /\ u \in Multiset /\ Copies = MultisetCopies(u)
    BY <1>1, <1>3, ForbiddenTypes DEF TaskInv, Copies, Covers
  <2> HIDE DEF u
  <2>2. QED
    BY <1>1, <2>1, UnionOnlyCopy
<1>4. CASE kind = "multisets"
  <2>1. /\ MultisetsState(multisets) /\ Covers(multiset_union(multisets), multisets)
        /\ Copies = MultisetsCopies(multisets)
    BY <1>1, <1>4, ForbiddenTypes DEF TaskInv, Copies
  <2>2. QED
    BY <1>1, <2>1, MultisetsOnlyCopy
<1>5. QED
  BY <1>1, <1>2, <1>3, <1>4, ForbiddenTypes

LEMMA ValuesAreDeclared ==
  ASSUME IInv, pc = "task"
  PROVE  /\ DOMAIN extra = DOMAIN Variables
         /\ \A x \in DOMAIN extra :
              extra[x] \in 0 .. IF x[1] = "count" THEN multiset_union(multisets)[x[2]] ELSE 1
<1> DEFINE u == multiset_union(multisets)
<1>1. /\ TypeOK /\ TaskInv /\ Covers(u, multisets) /\ kind \in {"plan", "multiset", "multisets"}
      /\ counted \in Multiset
  BY ForbiddenTypes, MultisetType DEF IInv, ExtensionInv, TypeOK, counted
<1>2. 0 \in 0 .. 1 /\ 1 \in 0 .. 1 /\ "possible" # "count" /\ "following" # "count"
  OBVIOUS
<1>3. CASE kind = "plan"
  <2>1. PlanState(input[1]) /\ input[1] \in Seq(Op) /\ Variables = PlanVariables(input[1])
    BY <1>1, <1>3, ForbiddenTypes DEF TaskInv, Variables
  <2>2. DOMAIN extra = DOMAIN Variables
    BY <2>1, DeclaredVariables DEF PlanState
  <2>3. \A x \in DOMAIN extra : x[1] # "count" /\ extra[x] \in 0 .. 1
    BY <1>2, <2>1, Names DEF PlanState
  <2>4. QED
    BY <2>2, <2>3
<1>4. CASE kind = "multiset"
  <2>1. UnionState(u) /\ Variables = MultisetVariables(u)
    BY <1>1, <1>4 DEF TaskInv, Variables
  <2> HIDE DEF u
  <2>2. DOMAIN extra = DOMAIN Variables
    BY <2>1, DeclaredVariables DEF UnionState
  <2>3. possible(1)[1] # "count" /\ extra[possible(1)] \in 0 .. 1
    BY <1>2, <2>1, Names DEF UnionState
  <2>4. \A o \in On(u) : count(o)[1] = "count" /\ count(o)[2] = o /\ extra[count(o)] \in 0 .. u[o]
    BY <2>1, Names DEF UnionState
  <2>5. \A x \in DOMAIN extra : x = possible(1) \/ \E o \in On(u) : x = count(o)
    BY <2>1 DEF UnionState
  <2>6. \A x \in DOMAIN extra : extra[x] \in 0 .. IF x[1] = "count" THEN u[x[2]] ELSE 1
    BY <2>3, <2>4, <2>5
  <2>7. QED
    BY <2>2, <2>6 DEF u
<1>5. CASE kind = "multisets"
  <2>1. MultisetsState(multisets) /\ Variables = MultisetsVariables(multisets)
    BY <1>1, <1>5 DEF TaskInv, Variables
  <2>2. DOMAIN extra = DOMAIN Variables
    BY <2>1, DeclaredVariables DEF MultisetsState
  <2>3. \A m \in multisets : possible(m)[1] # "count" /\ extra[possible(m)] \in 0 .. 1
    BY <1>2, <2>1, Names DEF MultisetsState
  <2>4. \A o \in On(u) : count(o)[1] = "count" /\ count(o)[2] = o /\ extra[count(o)] = AtCount(counted[o], u[o])
    BY <2>1, Names DEF MultisetsState
  <2>5. \A x \in DOMAIN extra : (\E m \in multisets : x = possible(m)) \/ (\E o \in On(u) : x = count(o))
    BY <2>1 DEF MultisetsState
  <2> HIDE DEF u
  <2>6. \A o \in On(u) : AtCount(counted[o], u[o]) \in 0 .. u[o]
    BY <1>1 DEF AtCount, On, Covers, Multiset
  <2>7. \A x \in DOMAIN extra : extra[x] \in 0 .. IF x[1] = "count" THEN u[x[2]] ELSE 1
    BY <2>3, <2>4, <2>5, <2>6
  <2>8. QED
    BY <2>2, <2>7 DEF u
<1>6. QED
  BY <1>1, <1>3, <1>4, <1>5

\* Exactly one copy of every applicable operator of the parent is applicable
\* in every reachable state of the reformulated task, and its variables keep
\* to their domains, for every parent task, set of plans and group.
THEOREM CopiesCorrect == Spec => []OneCopyApplies
<1>1. ASSUME IInv, pc = "task", NEW o \in Op, <<cur, o>> \in DOMAIN Succ
      PROVE  Cardinality({c \in Copies : c.op = o /\ Applicable(c)}) = 1
  <2>1. PICK b \in Copies : /\ b.op = o /\ Enabled(b)
                            /\ \A d \in Copies : d.op = o /\ Enabled(d) => d = b
    BY <1>1, OnlyCopy
  <2>2. \A d : d.op = o => (Applicable(d) <=> Enabled(d))
    BY <1>1 DEF Applicable, Enabled
  <2>3. {c \in Copies : c.op = o /\ Applicable(c)} = {b}
    BY <2>1, <2>2
  <2>4. QED
    BY <2>3, FS_Singleton
<1>2. IInv => OneCopyApplies
  BY <1>1, ValuesAreDeclared DEF OneCopyApplies
<1>3. QED
  BY <1>2, Invariance, PTL
=============================================================================
