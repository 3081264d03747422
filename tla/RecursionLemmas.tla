--------------------------- MODULE RecursionLemmas ---------------------------
(***************************************************************************)
(* Induction over natural numbers in a form that the provers can apply to  *)
(* sets, and the recursive functions that follow a sequence.               *)
(***************************************************************************)
EXTENDS Integers, WellFoundedInduction, TLAPS

\* Every nonempty set of natural numbers has a least element.
LEMMA LeastNatural ==
  ASSUME NEW S \in SUBSET Nat, S # {}
  PROVE  \E m \in S : \A n \in S : m <= n
<1> DEFINE R == {x \in Nat \X Nat : x[1] < x[2]}
<1>1. IsWellFoundedOn(R, Nat)
  BY NatLessThanWellFounded DEF OpToRel
<1>2. PICK m \in S : \A n \in S : <<n, m>> \notin R
  <2> HIDE DEF R
  <2>1. QED
    BY <1>1, WFMin
<1>3. ASSUME NEW n \in S
      PROVE  m <= n
  <2>1. n \in Nat /\ m \in Nat /\ ~ (n < m)
    BY <1>2
  <2>2. QED
    BY <2>1
<1>4. QED
  BY <1>3

\* A set that has 0 and with each number below n also the next has all up to n.
LEMMA Upward ==
  ASSUME NEW n \in Nat, NEW S, 0 \in S,
         \A i \in 0 .. n - 1 : i \in S => i + 1 \in S
  PROVE  \A i \in 0 .. n : i \in S
<1> DEFINE T == (0 .. n) \ S
<1>1. ASSUME T # {}
      PROVE  FALSE
  <2>1. T \in SUBSET Nat
    OBVIOUS
  <2>2. PICK m \in T : \A k \in T : m <= k
    <3> HIDE DEF T
    <3>1. QED
      BY <1>1, <2>1, LeastNatural
  <2>3. m \in 1 .. n /\ m - 1 \in 0 .. n - 1 /\ ~ (m <= m - 1)
    OBVIOUS
  <2>4. m - 1 \in S
    BY <2>2, <2>3
  <2>5. m - 1 + 1 \in S /\ m - 1 + 1 = m
    BY <2>3, <2>4
  <2>6. QED
    BY <2>5
<1>2. QED
  BY <1>1

\* The same downwards.
LEMMA Downward ==
  ASSUME NEW n \in Nat, NEW S, n \in S,
         \A i \in 1 .. n : i \in S => i - 1 \in S
  PROVE  \A i \in 0 .. n : i \in S
<1> DEFINE T == {i \in 0 .. n : n - i \in S}
<1>1. 0 \in T
  OBVIOUS
<1>2. \A i \in 0 .. n - 1 : i \in T => i + 1 \in T
  <2> SUFFICES ASSUME NEW i \in 0 .. n - 1, i \in T
               PROVE  i + 1 \in T
    OBVIOUS
  <2>1. n - i \in 1 .. n /\ n - i \in S
    OBVIOUS
  <2>2. n - i - 1 \in S /\ n - i - 1 = n - (i + 1) /\ i + 1 \in 0 .. n
    BY <2>1
  <2>3. QED
    BY <2>2
<1>3. \A i \in 0 .. n : i \in T
  <2> HIDE DEF T
  <2>1. QED
    BY <1>1, <1>2, Upward
<1>4. ASSUME NEW i \in 0 .. n
      PROVE  i \in S
  <2>1. n - i \in 0 .. n /\ n - (n - i) = i
    OBVIOUS
  <2>2. QED
    BY <1>3, <2>1
<1>5. QED
  BY <1>4

\* There is a function that starts with a and goes on with step.
HasPrefixFunction(n, V, a, step) ==
  \E f \in [0 .. n -> V] : f[0] = a /\ \A i \in 1 .. n : f[i] = step[<<f[i - 1], i>>]

\* Every total step function has one.
LEMMA PrefixRecursion ==
  ASSUME NEW n \in Nat, NEW V, NEW a \in V, NEW step \in [V \X (1 .. n) -> V]
  PROVE  HasPrefixFunction(n, V, a, step)
<1> DEFINE Follows(f, k) == \A i \in 1 .. k : f[i] = step[<<f[i - 1], i>>]
           Exists(k) == \E f \in [0 .. n -> V] : f[0] = a /\ Follows(f, k)
           S == {k \in 0 .. n : Exists(k)}
<1>1. 0 \in S
  <2> DEFINE c == [i \in 0 .. n |-> a]
  <2>1. c \in [0 .. n -> V] /\ c[0] = a /\ Follows(c, 0)
    OBVIOUS
  <2>2. Exists(0)
    BY <2>1
  <2>3. QED
    BY <2>2
<1>2. \A k \in 0 .. n - 1 : k \in S => k + 1 \in S
  <2> SUFFICES ASSUME NEW k \in 0 .. n - 1, k \in S
               PROVE  k + 1 \in S
    OBVIOUS
  <2>1. PICK f \in [0 .. n -> V] :
          f[0] = a /\ \A i \in 1 .. k : f[i] = step[<<f[i - 1], i>>]
    <3>1. Exists(k)
      OBVIOUS
    <3>2. QED
      BY <3>1
  <2> DEFINE h == [f EXCEPT ![k + 1] = step[<<f[k], k + 1>>]]
  <2>2. step[<<f[k], k + 1>>] \in V
    OBVIOUS
  <2>3. h \in [0 .. n -> V] /\ h[0] = a
    BY <2>1, <2>2
  <2>4. ASSUME NEW i \in 1 .. k + 1
        PROVE  h[i] = step[<<h[i - 1], i>>]
    <3>1. CASE i = k + 1
      <4>1. h[i] = step[<<f[k], i>>]
        BY <3>1
      <4>2. h[i - 1] = f[k]
        BY <3>1
      <4>3. QED
        BY <4>1, <4>2
    <3>2. CASE i # k + 1
      <4>1. i \in 1 .. k /\ i - 1 \in 0 .. n /\ i - 1 # k + 1
        BY <3>2
      <4>2. h[i] = f[i] /\ h[i - 1] = f[i - 1]
        BY <4>1
      <4>3. QED
        BY <2>1, <4>1, <4>2
    <3>3. QED
      BY <3>1, <3>2
  <2>5. Follows(h, k + 1) /\ k + 1 \in 0 .. n
    BY <2>4
  <2>6. Exists(k + 1)
    <3> HIDE DEF h, Follows
    <3>1. QED
      BY <2>3, <2>5
  <2>7. QED
    BY <2>5, <2>6
<1>3. n \in S
  <2> HIDE DEF S
  <2>1. \A k \in 0 .. n : k \in S
    BY <1>1, <1>2, Upward
  <2>2. QED
    BY <2>1
<1>4. Exists(n)
  BY <1>3
<1>5. QED
  BY <1>4 DEF HasPrefixFunction

\* Two functions that start alike and go on alike.
Alike(n, f, g) ==
  f[0] = g[0] /\ \A i \in 1 .. n : f[i - 1] = g[i - 1] => f[i] = g[i]

AgreeUpTo(n, f, g) == \A i \in 0 .. n : f[i] = g[i]

\* Then they are equal.
LEMMA PrefixUnique ==
  ASSUME NEW n \in Nat, NEW f, NEW g, Alike(n, f, g)
  PROVE  AgreeUpTo(n, f, g)
<1> DEFINE S == {i \in 0 .. n : f[i] = g[i]}
<1>1. 0 \in S
  BY DEF Alike
<1>2. \A i \in 0 .. n - 1 : i \in S => i + 1 \in S
  <2> SUFFICES ASSUME NEW i \in 0 .. n - 1, i \in S
               PROVE  i + 1 \in S
    OBVIOUS
  <2>1. i + 1 \in 1 .. n /\ i + 1 - 1 = i /\ f[i] = g[i]
    OBVIOUS
  <2>2. f[i + 1] = g[i + 1]
    BY <2>1 DEF Alike
  <2>3. QED
    BY <2>1, <2>2
<1>3. \A i \in 0 .. n : i \in S
  <2> HIDE DEF S
  <2>1. QED
    BY <1>1, <1>2, Upward
<1>4. QED
  BY <1>3 DEF AgreeUpTo

\* A function that does not change from a on.
LEMMA Standstill ==
  ASSUME NEW n \in Nat, NEW a \in 0 .. n, NEW f,
         \A i \in a + 1 .. n : f[i] = f[i - 1]
  PROVE  f[n] = f[a]
<1> DEFINE S == {i \in 0 .. n - a : f[a + i] = f[a]}
<1>1. 0 \in S
  OBVIOUS
<1>2. \A i \in 0 .. n - a - 1 : i \in S => i + 1 \in S
  <2> SUFFICES ASSUME NEW i \in 0 .. n - a - 1, i \in S
               PROVE  i + 1 \in S
    OBVIOUS
  <2>1. a + i + 1 \in a + 1 .. n /\ a + i + 1 - 1 = a + i /\ a + (i + 1) = a + i + 1
    OBVIOUS
  <2>2. f[a + (i + 1)] = f[a]
    BY <2>1
  <2>3. QED
    BY <2>2
<1>3. n - a \in Nat /\ a + (n - a) = n
  OBVIOUS
<1>4. n - a \in S
  <2> HIDE DEF S
  <2>1. \A i \in 0 .. n - a : i \in S
    BY <1>1, <1>2, <1>3, Upward
  <2>2. QED
    BY <1>3, <2>1
<1>5. QED
  BY <1>3, <1>4
\* Whoever goes from an element of S to its parent, over and over, comes to a
\* root.
Grounded(S, root, par) ==
  /\ \A s \in S \ root : par[s] \in S
  /\ \A T \in SUBSET S : T # {} => \E s \in T : s \in root \/ par[s] \notin T

\* f is base at the roots and follows step from the parents.
SolvesOn(T, root, par, base, step, f) ==
  \A s \in T : f[s] = IF s \in root THEN base[s] ELSE step[<<s, f[par[s]]>>]

HasParentFunction(S, V, root, par, base, step) ==
  \E f \in [S -> V] : SolvesOn(S, root, par, base, step, f)

\* Two such functions agree.
LEMMA ParentUnique ==
  ASSUME NEW S, NEW root, NEW par, Grounded(S, root, par), NEW base, NEW step,
         NEW T, NEW U, T \subseteq S, U \subseteq S,
         \A s \in T \ root : par[s] \in T, \A s \in U \ root : par[s] \in U,
         NEW f, SolvesOn(T, root, par, base, step, f),
         NEW e, SolvesOn(U, root, par, base, step, e)
  PROVE  \A s \in T \cap U : f[s] = e[s]
<1> DEFINE D == {s \in T \cap U : f[s] # e[s]}
<1>1. ASSUME D # {}
      PROVE  FALSE
  <2>1. D \in SUBSET S
    OBVIOUS
  <2>2. PICK s \in D : s \in root \/ par[s] \notin D
    <3> HIDE DEF D
    <3>1. QED
      BY <1>1, <2>1 DEF Grounded
  <2>3. /\ s \in T /\ s \in U /\ f[s] # e[s]
        /\ f[s] = IF s \in root THEN base[s] ELSE step[<<s, f[par[s]]>>]
        /\ e[s] = IF s \in root THEN base[s] ELSE step[<<s, e[par[s]]>>]
    BY <2>2 DEF SolvesOn
  <2>4. s \notin root
    BY <2>3
  <2>5. par[s] \in T /\ par[s] \in U /\ f[par[s]] = e[par[s]]
    BY <2>2, <2>3, <2>4
  <2>6. QED
    BY <2>3, <2>4, <2>5
<1>2. QED
  BY <1>1

\* Two functions that agree on s if they do on its parent.
ParentAlike(S, root, par, f, e) ==
  \A s \in S : (s \in root \/ f[par[s]] = e[par[s]]) => f[s] = e[s]

AgreeOn(S, f, e) == \A s \in S : f[s] = e[s]

\* Then they are equal.
LEMMA ParentAgree ==
  ASSUME NEW S, NEW root, NEW par, Grounded(S, root, par), NEW f, NEW e,
         ParentAlike(S, root, par, f, e)
  PROVE  AgreeOn(S, f, e)
<1> DEFINE D == {s \in S : f[s] # e[s]}
<1>1. ASSUME D # {}
      PROVE  FALSE
  <2>1. D \in SUBSET S
    OBVIOUS
  <2>2. PICK s \in D : s \in root \/ par[s] \notin D
    <3> HIDE DEF D
    <3>1. QED
      BY <1>1, <2>1 DEF Grounded
  <2>3. s \in root \/ f[par[s]] = e[par[s]]
    BY <2>2 DEF Grounded
  <2>4. QED
    BY <2>2, <2>3 DEF ParentAlike
<1>2. QED
  BY <1>1 DEF AgreeOn

\* Every total step function has one.
LEMMA ParentRecursion ==
  ASSUME NEW S, NEW V, NEW root, NEW par, Grounded(S, root, par),
         NEW base \in [S -> V], NEW step \in [S \X V -> V]
  PROVE  HasParentFunction(S, V, root, par, base, step)
<1> DEFINE Closed(T) == \A s \in T \ root : par[s] \in T
           Solves(T, f) == SolvesOn(T, root, par, base, step, f)
           Part(T, f) == T \subseteq S /\ Closed(T) /\ f \in [T -> V] /\ Solves(T, f)
           A == {s \in S : \E T, f : Part(T, f) /\ s \in T}
<1>1. ASSUME A # S
      PROVE  FALSE
  <2>1. PICK s \in S \ A : s \in root \/ par[s] \notin S \ A
    <3>1. S \ A \in SUBSET S /\ S \ A # {}
      BY <1>1
    <3> HIDE DEF A
    <3>2. QED
      BY <3>1 DEF Grounded
  <2>2. CASE s \in root
    <3> DEFINE T == {s}
               f == [x \in T |-> base[x]]
    <3>1. T \subseteq S /\ Closed(T) /\ f \in [T -> V]
      BY <2>2
    <3>2. Solves(T, f)
      BY <2>2 DEF SolvesOn
    <3>3. Part(T, f) /\ s \in T
      BY <3>1, <3>2
    <3> HIDE DEF Part, f, T
    <3>4. s \in A
      BY <3>3
    <3>5. QED
      BY <3>4
  <2>3. CASE s \notin root
    <3>1. par[s] \in A
      BY <2>1, <2>3 DEF Grounded
    <3>2. PICK T : \E f : Part(T, f) /\ par[s] \in T
      <4> HIDE DEF Part
      <4>1. QED
        BY <3>1
    <3>3. PICK f : Part(T, f) /\ par[s] \in T
      <4> HIDE DEF Part
      <4>1. QED
        BY <3>2
    <3>4. s \notin T
      <4> HIDE DEF Part
      <4>1. QED
        BY <2>1, <3>3
    <3> DEFINE U == T \cup {s}
               v == step[<<s, f[par[s]]>>]
               e == [x \in U |-> IF x = s THEN v ELSE f[x]]
    <3>5. T \subseteq S /\ Closed(T) /\ f \in [T -> V] /\ Solves(T, f)
      BY <3>3
    <3>6. v \in V
      BY <3>3, <3>5
    <3>7. U \subseteq S /\ Closed(U) /\ e \in [U -> V]
      <4> HIDE DEF v
      <4>1. QED
        BY <3>3, <3>5, <3>6
    <3>8. Solves(U, e)
      <4>1. ASSUME NEW x \in U
            PROVE  e[x] = IF x \in root THEN base[x] ELSE step[<<x, e[par[x]]>>]
        <5>1. CASE x = s
          <6>1. e[s] = v /\ e[par[s]] = f[par[s]]
            <7> HIDE DEF v
            <7>1. QED
              BY <3>3, <3>4
          <6>2. QED
            BY <2>3, <5>1, <6>1
        <5>2. CASE x # s
          <6>1. x \in T /\ e[x] = f[x]
            <7> HIDE DEF v
            <7>1. QED
              BY <5>2
          <6>2. x \notin root => par[x] \in T /\ e[par[x]] = f[par[x]]
            <7> HIDE DEF v
            <7>1. QED
              BY <3>4, <3>5, <6>1
          <6>3. f[x] = IF x \in root THEN base[x] ELSE step[<<x, f[par[x]]>>]
            BY <3>5, <6>1 DEF SolvesOn
          <6> HIDE DEF e
          <6>4. QED
            BY <6>1, <6>2, <6>3
        <5>3. QED
          BY <5>1, <5>2
      <4> HIDE DEF e, U
      <4>2. QED
        BY <4>1 DEF SolvesOn
    <3>9. Part(U, e) /\ s \in U
      BY <3>7, <3>8
    <3> HIDE DEF Part, e, U
    <3>10. s \in A
      BY <3>9
    <3>11. QED
      BY <3>10
  <2>4. QED
    BY <2>2, <2>3
<1> DEFINE Value(s, v) == \E T, f : Part(T, f) /\ s \in T /\ v = f[s]
           F == [s \in S |-> CHOOSE v \in V : Value(s, v)]
<1>2. ASSUME NEW T, NEW f, Part(T, f), NEW s \in T
      PROVE  F[s] = f[s]
  <2>1. T \subseteq S /\ Closed(T) /\ f \in [T -> V] /\ Solves(T, f)
    BY <1>2
  <2>2. s \in S /\ f[s] \in V /\ Value(s, f[s])
    <3>1. s \in S /\ f[s] \in V
      BY <2>1
    <3> HIDE DEF Part
    <3>2. QED
      BY <1>2, <3>1
  <2>3. ASSUME NEW v \in V, Value(s, v)
        PROVE  v = f[s]
    <3>1. PICK U : \E e : Part(U, e) /\ s \in U /\ v = e[s]
      <4> HIDE DEF Part
      <4>1. QED
        BY <2>3
    <3>2. PICK e : Part(U, e) /\ s \in U /\ v = e[s]
      <4> HIDE DEF Part
      <4>1. QED
        BY <3>1
    <3>3. U \subseteq S /\ Closed(U) /\ e \in [U -> V] /\ Solves(U, e)
      BY <3>2
    <3>4. \A x \in T \cap U : f[x] = e[x]
      BY <2>1, <3>3, ParentUnique
    <3>5. QED
      BY <3>2, <3>4
  <2>4. F[s] = CHOOSE v \in V : Value(s, v)
    <3> HIDE DEF Value
    <3>1. QED
      BY <2>2
  <2> HIDE DEF Value, F
  <2>5. QED
    BY <2>2, <2>3, <2>4
<1>3. ASSUME NEW s \in S
      PROVE  F[s] \in V /\ F[s] = IF s \in root THEN base[s] ELSE step[<<s, F[par[s]]>>]
  <2>1. PICK T : \E f : Part(T, f) /\ s \in T
    <3> HIDE DEF Part
    <3>1. QED
      BY <1>1
  <2>2. PICK f : Part(T, f) /\ s \in T
    <3> HIDE DEF Part
    <3>1. QED
      BY <2>1
  <2>3. T \subseteq S /\ Closed(T) /\ f \in [T -> V] /\ Solves(T, f)
    BY <2>2
  <2> HIDE DEF F
  <2>4. F[s] = f[s] /\ f[s] \in V
    <3> HIDE DEF Part
    <3>1. F[s] = f[s]
      BY <1>2, <2>2
    <3>2. QED
      BY <2>2, <2>3, <3>1
  <2>5. s \notin root => F[par[s]] = f[par[s]]
    <3>1. s \notin root => par[s] \in T
      BY <2>2, <2>3
    <3> HIDE DEF Part
    <3>2. QED
      BY <1>2, <2>2, <3>1
  <2>6. f[s] = IF s \in root THEN base[s] ELSE step[<<s, f[par[s]]>>]
    BY <2>2, <2>3 DEF SolvesOn
  <2>7. QED
    BY <2>4, <2>5, <2>6
<1>4. F \in [S -> V]
  <2>1. F = [s \in S |-> F[s]]
    OBVIOUS
  <2> HIDE DEF F
  <2>2. QED
    BY <1>3, <2>1
<1>5. SolvesOn(S, root, par, base, step, F)
  <2> HIDE DEF F
  <2>1. QED
    BY <1>3 DEF SolvesOn
<1>6. QED
  <2> HIDE DEF F
  <2>1. QED
    BY <1>4, <1>5 DEF HasParentFunction
=============================================================================
