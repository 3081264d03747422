------------------------- MODULE EagerSearchProofs -------------------------
(***************************************************************************)
(* That the search is optimal and complete below its bound, for every      *)
(* task, admissible heuristic and group of symmetries.  The argument is    *)
(* the one for A*: while there is a plan below the bound, some open node   *)
(* lies on a cheapest plan and has been reached at its cost.  What has to  *)
(* be invariant for it is IInv.  For the plan that is traced back through  *)
(* the symmetries, what the parents and creators say of the nodes is.      *)
(***************************************************************************)
EXTENDS EagerSearch, RecursionLemmas, TLAPS

Start == canonical(s0)

Phases ==
  /\ pc \in {"initialize", "fetch", "expand"} => result = "in progress"
  /\ pc = "initialize" => open_list = {} /\ \A s \in State : node_status[s] = "new"
  /\ pc = "expand" => node_status[node] = "closed" /\ ops \subseteq Applicable(node)

\* g is the cost of a path from the initial state, within the bound.
Distances ==
  \A s \in State : Reached(s) => /\ g[s] \in Nat
                                 /\ g[s] = 0 \/ g[s] < bound
                                 /\ HStar[s0] <= g[s] + HStar[s]

\* Outdated entries have larger keys than current ones.
EntriesNotBelow ==
  \A e \in open_list : Reached(e.state) /\ g[e.state] + h[e.state] <= e.key[1]

OpenHasEntry ==
  \A s \in State : node_status[s] = "open" =>
    \E e \in open_list : e.state = s /\ e.key[1] = g[s] + h[s]

DeadEnds == \A s \in State : node_status[s] = "dead_end" => HStar[s] = Infinity

StartReached ==
  pc # "initialize" => HStar[s0] = Infinity \/ (Reached(Start) /\ g[Start] = 0)

\* Operator o, applied in s, has nothing new to offer.
Covered(s, o) ==
  g[s] + Cost[o] < bound =>
    \/ node_status[successor(s, o)] = "dead_end"
    \/ (Reached(successor(s, o)) /\ g[successor(s, o)] <= g[s] + Cost[o])

Pending(s, o) == pc = "expand" /\ s = node /\ o \in ops

ClosedExpanded ==
  result = "in progress" =>
    \A s \in State : node_status[s] = "closed" =>
      /\ s \notin Goal
      /\ \A o \in Applicable(s) : Pending(s, o) \/ Covered(s, o)

IInv == /\ TypeOK /\ Phases /\ Distances /\ EntriesNotBelow /\ OpenHasEntry
        /\ DeadEnds /\ StartReached /\ ClosedExpanded
        /\ SolvedIsOptimal /\ FailedIsUnsolvable

-----------------------------------------------------------------------------
(* Symmetries, and the permutations that the group computes.               *)

Symmetries == {p \in [State -> State] : IsSymmetry(p)}

\* The identity is a symmetry.
LEMMA IdentitySymmetry ==
  Identity(State) \in Symmetries /\ \A s \in State : Identity(State)[s] = s
<1>1. Identity(State) \in [State -> State] /\ \A s \in State : Identity(State)[s] = s
  BY DEF Identity
<1>2. QED
  BY <1>1 DEF Symmetries, IsSymmetry

\* Symmetries can be composed.
LEMMA ThenSymmetry ==
  ASSUME NEW p \in Symmetries, NEW q \in Symmetries
  PROVE  Then(p, q) \in Symmetries /\ \A s \in State : Then(p, q)[s] = q[p[s]]
<1> DEFINE r == Then(p, q)
<1>1. p \in [State -> State] /\ q \in [State -> State] /\ IsSymmetry(p) /\ IsSymmetry(q)
  BY DEF Symmetries
<1>2. r \in [State -> State] /\ \A s \in State : r[s] = q[p[s]]
  BY <1>1 DEF Then
<1> HIDE DEF r
<1>3. \A s \in State : \E x \in State : r[x] = s
  <2>1. SUFFICES ASSUME NEW s \in State
                 PROVE  \E x \in State : r[x] = s
    OBVIOUS
  <2>2. PICK y \in State : q[y] = s
    BY <1>1 DEF IsSymmetry
  <2>3. PICK x \in State : p[x] = y
    BY <1>1 DEF IsSymmetry
  <2>4. QED
    BY <1>2, <2>2, <2>3
<1>4. ASSUME NEW s \in State, NEW x \in State
      PROVE  /\ r[s] = r[x] => s = x
             /\ CostsBetween(r[s], r[x]) = CostsBetween(s, x)
  <2>1. p[s] \in State /\ p[x] \in State /\ r[s] = q[p[s]] /\ r[x] = q[p[x]]
    BY <1>1, <1>2
  <2>2. /\ q[p[s]] = q[p[x]] => p[s] = p[x]
        /\ CostsBetween(q[p[s]], q[p[x]]) = CostsBetween(p[s], p[x])
    BY <1>1, <2>1 DEF IsSymmetry
  <2>3. /\ p[s] = p[x] => s = x
        /\ CostsBetween(p[s], p[x]) = CostsBetween(s, x)
    BY <1>1 DEF IsSymmetry
  <2>4. QED
    BY <2>1, <2>2, <2>3
<1>5. ASSUME NEW s \in State
      PROVE  (r[s] \in Goal <=> s \in Goal) /\ Steps[r[s]] = Steps[s]
  <2>1. p[s] \in State /\ r[s] = q[p[s]]
    BY <1>1, <1>2
  <2>2. QED
    BY <1>1, <2>1 DEF IsSymmetry
<1>6. IsSymmetry(r)
  BY <1>2, <1>3, <1>4, <1>5 DEF IsSymmetry
<1>7. QED
  BY <1>2, <1>6 DEF r, Symmetries

\* They can be inverted.
LEMMA InvertedSymmetry ==
  ASSUME NEW p \in Symmetries
  PROVE  Inverted(p) \in Symmetries /\ \A s \in State : Inverted(p)[p[s]] = s
<1> DEFINE r == Inverted(p)
<1>1. p \in [State -> State] /\ IsSymmetry(p) /\ DOMAIN p = State
  BY DEF Symmetries
<1>2. /\ \A s \in State : \E x \in State : p[x] = s
      /\ \A s, x \in State : p[s] = p[x] => s = x
  BY <1>1 DEF IsSymmetry
<1>3. r = [s \in State |-> CHOOSE x \in State : p[x] = s]
  BY <1>1 DEF Inverted
<1>4. ASSUME NEW s \in State
      PROVE  r[s] \in State /\ p[r[s]] = s
  BY <1>2, <1>3
<1>5. r \in [State -> State]
  BY <1>3, <1>4
<1> HIDE DEF r
<1>6. ASSUME NEW s \in State
      PROVE  r[p[s]] = s
  <2>1. p[s] \in State /\ r[p[s]] \in State /\ p[r[p[s]]] = p[s]
    BY <1>1, <1>4
  <2>2. QED
    BY <1>2, <2>1
<1>7. ASSUME NEW s \in State, NEW x \in State
      PROVE  /\ r[s] = r[x] => s = x
             /\ CostsBetween(r[s], r[x]) = CostsBetween(s, x)
  <2>1. r[s] \in State /\ r[x] \in State /\ p[r[s]] = s /\ p[r[x]] = x
    BY <1>4
  <2>2. CostsBetween(p[r[s]], p[r[x]]) = CostsBetween(r[s], r[x])
    BY <1>1, <2>1 DEF IsSymmetry
  <2>3. QED
    BY <2>1, <2>2
<1>8. ASSUME NEW s \in State
      PROVE  (r[s] \in Goal <=> s \in Goal) /\ Steps[r[s]] = Steps[s]
  <2>1. r[s] \in State /\ p[r[s]] = s
    BY <1>4
  <2>2. (p[r[s]] \in Goal <=> r[s] \in Goal) /\ Steps[p[r[s]]] = Steps[r[s]]
    BY <1>1, <2>1 DEF IsSymmetry
  <2>3. QED
    BY <2>1, <2>2
<1>9. \A s \in State : \E x \in State : r[x] = s
  BY <1>1, <1>6
<1>10. IsSymmetry(r)
  BY <1>5, <1>7, <1>8, <1>9 DEF IsSymmetry
<1>11. QED
  BY <1>5, <1>6, <1>10 DEF r, Symmetries
\* An operator between two states has a counterpart between their images.
LEMMA Counterpart ==
  ASSUME NEW p \in Symmetries, NEW s \in State, NEW o \in Applicable(s)
  PROVE  \E q \in Applicable(p[s]) :
           Succ[<<p[s], q>>] = p[Succ[<<s, o>>]] /\ Cost[q] = Cost[o]
<1> DEFINE r == Succ[<<s, o>>]
<1>1. r \in State
  BY TaskAssumption DEF Applicable
<1>2. Cost[o] \in CostsBetween(s, r)
  BY DEF CostsBetween
<1>3. CostsBetween(p[s], p[r]) = CostsBetween(s, r)
  BY <1>1 DEF Symmetries, IsSymmetry
<1>4. Cost[o] \in CostsBetween(p[s], p[r])
  BY <1>2, <1>3
<1>5. QED
  BY <1>4 DEF CostsBetween

\* The image of a state is not farther from the goal: a state as near as
\* possible that is contradicts this would have a successor that is nearer.
LEMMA NotFarther ==
  ASSUME NEW p \in Symmetries, NEW s \in State
  PROVE  HStar[p[s]] <= HStar[s]
<1>1. /\ HStar \in [State -> 0 .. Infinity] /\ Steps \in [State -> Nat] /\ Infinity \in Nat
      /\ p \in [State -> State]
  BY TaskAssumption, PerfectAssumption DEF Symmetries
<1> DEFINE T == {r \in State : HStar[r] < HStar[p[r]]}
           S == {Steps[r] : r \in T}
<1>2. ASSUME T # {}
      PROVE  FALSE
  <2>1. S \in SUBSET Nat /\ S # {}
    BY <1>1, <1>2
  <2>2. \E m \in S : \A n \in S : m <= n
    <3> HIDE DEF S
    <3>1. QED
      BY <2>1, LeastNatural
  <2>3. PICK r \in T : \A x \in T : Steps[r] <= Steps[x]
    BY <2>2
  <2>4. r \in State /\ p[r] \in State /\ HStar[r] < HStar[p[r]] /\ HStar[r] < Infinity
    <3>1. r \in State /\ HStar[r] < HStar[p[r]]
      BY <2>3
    <3>2. p[r] \in State /\ HStar[p[r]] \in 0 .. Infinity /\ HStar[r] \in 0 .. Infinity
      BY <1>1, <3>1
    <3>3. QED
      BY <1>1, <3>1, <3>2
  <2>5. r \notin Goal
    <3>1. r \in Goal => p[r] \in Goal
      BY <2>4 DEF Symmetries, IsSymmetry
    <3>2. r \in Goal => HStar[r] = 0 /\ HStar[p[r]] = 0
      BY <3>1, PerfectAssumption
    <3>3. QED
      BY <2>4, <3>2
  <2>6. PICK o \in Applicable(r) : /\ HStar[r] = Cost[o] + HStar[Succ[<<r, o>>]]
                                  /\ Steps[Succ[<<r, o>>]] < Steps[r]
    BY <2>4, <2>5, PerfectAssumption
  <2> DEFINE x == Succ[<<r, o>>]
  <2>7. x \in State /\ p[x] \in State /\ Cost[o] \in Nat
    BY <1>1, TaskAssumption DEF Applicable
  <2>8. PICK q \in Applicable(p[r]) : Succ[<<p[r], q>>] = p[x] /\ Cost[q] = Cost[o]
    BY <2>4, Counterpart
  <2>9. x \notin T
    <3>1. Steps[x] \in Nat /\ Steps[r] \in Nat
      BY <1>1, <2>4, <2>7
    <3> HIDE DEF T, x
    <3>2. QED
      BY <2>3, <2>6, <3>1 DEF x
  <2>10. HStar[p[x]] < Infinity => HStar[p[r]] <= Cost[o] + HStar[p[x]]
    BY <2>4, <2>8, PerfectAssumption
  <2>11. /\ HStar[x] \in 0 .. Infinity /\ HStar[p[x]] \in 0 .. Infinity
         /\ HStar[r] \in 0 .. Infinity /\ HStar[p[r]] \in 0 .. Infinity
    BY <1>1, <2>4, <2>7
  <2>12. HStar[p[x]] <= HStar[x]
    BY <2>7, <2>9, <2>11
  <2>13. HStar[r] = Cost[o] + HStar[x]
    BY <2>6
  <2> HIDE DEF x, T
  <2>14. QED
    BY <1>1, <2>4, <2>7, <2>10, <2>11, <2>12, <2>13
<1>3. s \notin T
  BY <1>2
<1>4. p[s] \in State /\ HStar[s] \in 0 .. Infinity /\ HStar[p[s]] \in 0 .. Infinity
  BY <1>1
<1>5. QED
  BY <1>3, <1>4

\* It is as far.
LEMMA AsFar ==
  ASSUME NEW p \in Symmetries, NEW s \in State
  PROVE  HStar[p[s]] = HStar[s]
<1>1. Inverted(p) \in Symmetries /\ Inverted(p)[p[s]] = s
  BY InvertedSymmetry
<1>2. p[s] \in State
  BY DEF Symmetries
<1>3. HStar[p[s]] <= HStar[s] /\ HStar[s] <= HStar[p[s]]
  BY <1>1, <1>2, NotFarther
<1>4. HStar[s] \in 0 .. Infinity /\ HStar[p[s]] \in 0 .. Infinity /\ Infinity \in Nat
  BY <1>2, TaskAssumption, PerfectAssumption
<1>5. QED
  BY <1>3, <1>4

\* Permutation(i) of a pass, as far as the first generators go.
PassStep(gs, s) ==
  [x \in Symmetries \X (1 .. Len(gs)) |->
     IF gs[x[2]][x[1][s]] < x[1][s] THEN Then(x[1], gs[x[2]]) ELSE x[1]]

\* One pass applies a symmetry that does not make the state greater.
LEMMA PassIs ==
  ASSUME NEW gs \in Groups, NEW s \in State
  PROVE  Pass(gs, State, s) \in Symmetries /\ Pass(gs, State, s)[s] <= s
<1> DEFINE n == Len(gs)
           step == PassStep(gs, s)
           After(f) == [i \in 0 .. n |->
             IF i = 0 THEN Identity(State)
             ELSE IF gs[i][f[i - 1][s]] < f[i - 1][s] THEN Then(f[i - 1], gs[i]) ELSE f[i - 1]]
           after == CHOOSE f : f = After(f)
<1>1. n \in Nat /\ \A i \in 1 .. n : gs[i] \in Symmetries
  <2>1. gs \in Seq([State -> State]) /\ \A i \in DOMAIN gs : IsSymmetry(gs[i])
    BY SymmetryAssumption
  <2>2. n \in Nat /\ DOMAIN gs = 1 .. n /\ \A i \in 1 .. n : gs[i] \in [State -> State]
    BY <2>1
  <2>3. QED
    BY <2>1, <2>2 DEF Symmetries
<1>2. step \in [Symmetries \X (1 .. n) -> Symmetries]
  <2>1. ASSUME NEW x \in Symmetries \X (1 .. n)
        PROVE  (IF gs[x[2]][x[1][s]] < x[1][s] THEN Then(x[1], gs[x[2]]) ELSE x[1]) \in Symmetries
    BY <1>1, ThenSymmetry
  <2>2. QED
    BY <2>1 DEF PassStep
<1>3. HasPrefixFunction(n, Symmetries, Identity(State), step)
  <2> HIDE DEF step, n
  <2>1. QED
    BY <1>1, <1>2, IdentitySymmetry, PrefixRecursion, Zenon
<1>4. PICK f \in [0 .. n -> Symmetries] :
        f[0] = Identity(State) /\ \A i \in 1 .. n : f[i] = step[<<f[i - 1], i>>]
  BY <1>3, Zenon DEF HasPrefixFunction
<1>5. \A i \in 1 .. n :
        f[i] = IF gs[i][f[i - 1][s]] < f[i - 1][s] THEN Then(f[i - 1], gs[i]) ELSE f[i - 1]
  <2> SUFFICES ASSUME NEW i \in 1 .. n
               PROVE  f[i] = IF gs[i][f[i - 1][s]] < f[i - 1][s] THEN Then(f[i - 1], gs[i])
                             ELSE f[i - 1]
    OBVIOUS
  <2>1. f[i - 1] \in Symmetries
    BY <1>1, <1>4
  <2>2. <<f[i - 1], i>> \in Symmetries \X (1 .. n)
    BY <2>1
  <2>3. step[<<f[i - 1], i>>] = IF gs[i][f[i - 1][s]] < f[i - 1][s] THEN Then(f[i - 1], gs[i])
                                ELSE f[i - 1]
    BY <2>2 DEF PassStep
  <2>4. QED
    BY <1>4, <2>3
<1>6. f = After(f)
  BY <1>4, <1>5
<1>7. after = After(after)
  <2> HIDE DEF After
  <2>1. QED
    BY <1>6
<1>8. \A i \in 0 .. n : after[i] = f[i]
  <2> HIDE DEF after
  <2>1. after[0] = f[0]
    BY <1>1, <1>6, <1>7
  <2>2. \A i \in 1 .. n : after[i - 1] = f[i - 1] => after[i] = f[i]
    BY <1>1, <1>5, <1>7
  <2>3. Alike(n, after, f)
    BY <2>1, <2>2 DEF Alike
  <2>4. AgreeUpTo(n, after, f)
    BY <1>1, <2>3, PrefixUnique
  <2>5. QED
    BY <2>4 DEF AgreeUpTo
<1>9. Pass(gs, State, s) = after[n]
  BY DEF Pass
<1>10. Pass(gs, State, s) = f[n]
  <2> HIDE DEF after
  <2>1. QED
    BY <1>1, <1>8, <1>9
<1> DEFINE L == {i \in 0 .. n : f[i][s] <= s}
<1>11. \A i \in 0 .. n : f[i][s] \in Nat /\ s \in Nat
  <2>1. \A i \in 0 .. n : f[i] \in [State -> State]
    BY <1>4 DEF Symmetries
  <2>2. QED
    BY <2>1, TaskAssumption
<1>12. 0 \in L
  BY <1>1, <1>4, <1>11, IdentitySymmetry
<1>13. \A i \in 0 .. n - 1 : i \in L => i + 1 \in L
  <2> SUFFICES ASSUME NEW i \in 0 .. n - 1, i \in L
               PROVE  i + 1 \in L
    OBVIOUS
  <2> DEFINE j == i + 1
  <2>1. j \in 1 .. n /\ j \in 0 .. n /\ j - 1 = i /\ i \in 0 .. n
    BY <1>1
  <2>2. f[j] = IF gs[j][f[i][s]] < f[i][s] THEN Then(f[i], gs[j]) ELSE f[i]
    BY <1>5, <2>1
  <2>3. f[i] \in Symmetries /\ gs[j] \in Symmetries
    BY <1>1, <1>4, <2>1
  <2>4. Then(f[i], gs[j])[s] = gs[j][f[i][s]]
    BY <2>3, ThenSymmetry
  <2>5. f[j][s] = f[i][s] \/ f[j][s] < f[i][s]
    BY <2>2, <2>4
  <2> HIDE DEF j
  <2>6. f[j][s] <= s
    BY <1>11, <2>1, <2>5
  <2>7. QED
    BY <2>1, <2>6 DEF j
<1>14. n \in L
  <2> HIDE DEF L
  <2>1. \A i \in 0 .. n : i \in L
    BY <1>1, <1>12, <1>13, Upward
  <2>2. QED
    BY <1>1, <2>1
<1>15. QED
  BY <1>1, <1>4, <1>10, <1>14

Settled(gs) == {s \in State : Pass(gs, State, s)[s] = s}
Passed(gs) == [s \in State |-> Pass(gs, State, s)[s]]

\* Passes come to an end.
LEMMA PassesEnd ==
  ASSUME NEW gs \in Groups
  PROVE  Grounded(State, Settled(gs), Passed(gs))
<1>1. ASSUME NEW s \in State
      PROVE  /\ Passed(gs)[s] \in State /\ Passed(gs)[s] <= s
             /\ s \in Nat /\ Passed(gs)[s] \in Nat
             /\ Passed(gs)[s] = s => s \in Settled(gs)
  <2>1. Pass(gs, State, s) \in [State -> State] /\ Pass(gs, State, s)[s] <= s
    BY PassIs DEF Symmetries
  <2>2. Passed(gs)[s] = Pass(gs, State, s)[s]
    BY DEF Passed
  <2>3. QED
    BY <2>1, <2>2, TaskAssumption DEF Settled
<1>2. ASSUME NEW T \in SUBSET State, T # {}
      PROVE  \E s \in T : s \in Settled(gs) \/ Passed(gs)[s] \notin T
  <2>1. T \in SUBSET Nat
    BY TaskAssumption
  <2>2. PICK s \in T : \A r \in T : s <= r
    BY <1>2, <2>1, LeastNatural
  <2>3. Passed(gs)[s] \in T => s <= Passed(gs)[s]
    BY <2>2
  <2>4. QED
    BY <1>1, <2>2, <2>3
<1>3. QED
  BY <1>1, <1>2 DEF Grounded

\* What get_trace and compose_permutation compute together.
TraceIs(gs, s) ==
  LET p == Pass(gs, State, s) IN
  /\ Trace(gs, State)[s] \in Symmetries
  /\ p[s] \in State
  /\ Trace(gs, State)[s] =
       IF p[s] = s THEN Identity(State) ELSE Then(p, Trace(gs, State)[p[s]])

\* Trace composes the passes until one changes nothing.
LEMMA Traced ==
  ASSUME NEW gs \in Groups
  PROVE  \A s \in State : TraceIs(gs, s)
<1> DEFINE base == [s \in State |-> Identity(State)]
           step == [x \in State \X Symmetries |-> Then(Pass(gs, State, x[1]), x[2])]
           Moved(f) == [s \in State |->
             IF Pass(gs, State, s)[s] = s THEN Identity(State)
             ELSE Then(Pass(gs, State, s), f[Pass(gs, State, s)[s]])]
           trace == CHOOSE f : f = Moved(f)
<1>1. ASSUME NEW s \in State
      PROVE  /\ Pass(gs, State, s) \in Symmetries /\ Pass(gs, State, s)[s] \in State
             /\ Passed(gs)[s] = Pass(gs, State, s)[s]
             /\ s \in Settled(gs) <=> Pass(gs, State, s)[s] = s
  BY PassIs DEF Symmetries, Settled, Passed
<1>2. base \in [State -> Symmetries]
  BY IdentitySymmetry
<1>3. step \in [State \X Symmetries -> Symmetries]
  <2>1. ASSUME NEW x \in State \X Symmetries
        PROVE  Then(Pass(gs, State, x[1]), x[2]) \in Symmetries
    BY <1>1, ThenSymmetry
  <2>2. QED
    BY <2>1
<1>4. HasParentFunction(State, Symmetries, Settled(gs), Passed(gs), base, step)
  <2> HIDE DEF base, step
  <2>1. QED
    BY <1>2, <1>3, PassesEnd, ParentRecursion, Zenon
<1>5. PICK f \in [State -> Symmetries] :
        SolvesOn(State, Settled(gs), Passed(gs), base, step, f)
  <2> HIDE DEF base, step
  <2>1. QED
    BY <1>4, Zenon DEF HasParentFunction
<1>6. ASSUME NEW s \in State
      PROVE  f[s] = IF Pass(gs, State, s)[s] = s THEN Identity(State)
                    ELSE Then(Pass(gs, State, s), f[Pass(gs, State, s)[s]])
  <2> DEFINE r == Pass(gs, State, s)[s]
  <2>1. f[s] = IF s \in Settled(gs) THEN base[s] ELSE step[<<s, f[Passed(gs)[s]]>>]
    BY <1>5 DEF SolvesOn
  <2>2. r \in State /\ f[r] \in Symmetries
    BY <1>1
  <2>3. step[<<s, f[r]>>] = Then(Pass(gs, State, s), f[r])
    BY <2>2
  <2>4. base[s] = Identity(State)
    OBVIOUS
  <2> HIDE DEF base, step
  <2>5. QED
    BY <1>1, <2>1, <2>3, <2>4
<1>7. f = Moved(f)
  <2>1. f = [s \in State |-> f[s]]
    OBVIOUS
  <2>2. QED
    BY <1>6, <2>1
<1>8. trace = Moved(trace)
  <2> HIDE DEF Moved
  <2>1. QED
    BY <1>7
<1>9. Trace(gs, State) = trace
  BY DEF Trace
<1>10. AgreeOn(State, trace, f)
  <2>1. ASSUME NEW s \in State, s \in Settled(gs) \/ trace[Passed(gs)[s]] = f[Passed(gs)[s]]
        PROVE  trace[s] = f[s]
    <3>1. trace[s] = IF Pass(gs, State, s)[s] = s THEN Identity(State)
                     ELSE Then(Pass(gs, State, s), trace[Pass(gs, State, s)[s]])
      <4> HIDE DEF trace
      <4>1. QED
        BY <1>8
    <3> HIDE DEF trace
    <3>2. QED
      BY <1>1, <1>6, <2>1, <3>1
  <2> HIDE DEF trace
  <2>2. ParentAlike(State, Settled(gs), Passed(gs), trace, f)
    BY <2>1 DEF ParentAlike
  <2>3. QED
    BY <2>2, PassesEnd, ParentAgree, Zenon
<1>11. ASSUME NEW s \in State
       PROVE  TraceIs(gs, s)
  <2> DEFINE p == Pass(gs, State, s)
  <2> HIDE DEF trace, p
  <2>1. p[s] \in State
    BY <1>1 DEF p
  <2>2. trace[s] = f[s] /\ trace[p[s]] = f[p[s]]
    BY <1>10, <2>1 DEF AgreeOn
  <2>3. f[s] = IF p[s] = s THEN Identity(State) ELSE Then(p, f[p[s]])
    BY <1>6 DEF p
  <2>4. f[s] \in Symmetries
    OBVIOUS
  <2>5. /\ Trace(gs, State)[s] \in Symmetries /\ p[s] \in State
        /\ Trace(gs, State)[s] =
             IF p[s] = s THEN Identity(State) ELSE Then(p, Trace(gs, State)[p[s]])
    BY <1>9, <2>1, <2>2, <2>3, <2>4
  <2>6. QED
    BY <2>5 DEF p, TraceIs
<1>12. QED
  BY <1>11

\* A representative is its own.
LEMMA SettledTrace ==
  ASSUME NEW gs \in Groups, NEW s \in State
  PROVE  /\ get_canonical_representative(gs, State, s) \in State
         /\ get_canonical_representative(gs, State, s) \in Settled(gs)
<1> DEFINE C(x) == Trace(gs, State)[x][x]
           T == {x \in State : C(x) \notin Settled(gs)}
<1>1. ASSUME T # {}
      PROVE  FALSE
  <2>1. T \in SUBSET State
    OBVIOUS
  <2>2. PICK x \in T : x \in Settled(gs) \/ Passed(gs)[x] \notin T
    <3> HIDE DEF T
    <3>1. QED
      BY <1>1, <2>1, PassesEnd DEF Grounded
  <2> DEFINE p == Pass(gs, State, x)
  <2>3. x \in State /\ C(x) \notin Settled(gs)
    BY <2>2
  <2>4. p \in Symmetries /\ TraceIs(gs, x) /\ Passed(gs)[x] = p[x]
    BY <2>3, PassIs, Traced DEF Passed
  <2>5. CASE p[x] = x
    <3>1. C(x) = x
      BY <2>3, <2>4, <2>5, IdentitySymmetry DEF TraceIs
    <3>2. x \in Settled(gs)
      BY <2>3, <2>5 DEF Settled
    <3>3. QED
      BY <2>3, <3>1, <3>2
  <2>6. CASE p[x] # x
    <3>1. x \notin Settled(gs) /\ p[x] \in State
      BY <2>4, <2>6 DEF Settled, TraceIs
    <3>2. C(p[x]) \in Settled(gs)
      BY <2>2, <2>4, <3>1
    <3>3. Trace(gs, State)[x] = Then(p, Trace(gs, State)[p[x]])
      BY <2>4, <2>6 DEF TraceIs
    <3>4. Trace(gs, State)[p[x]] \in Symmetries
      BY <3>1, Traced DEF TraceIs
    <3>5. C(x) = C(p[x])
      BY <2>3, <2>4, <3>3, <3>4, ThenSymmetry
    <3>6. QED
      BY <2>3, <3>2, <3>5
  <2>7. QED
    BY <2>5, <2>6
<1>2. C(s) \in Settled(gs)
  BY <1>1
<1>3. QED
  BY <1>2 DEF Settled, get_canonical_representative

\* The permutation that leads back from a representative.
LEMMA BackFrom ==
  ASSUME NEW gs \in Groups, NEW s \in State, NEW t \in State,
         get_canonical_representative(gs, State, t) = s
  PROVE  /\ create_permutation_from_state_to_state(gs, State, s, t) \in Symmetries
         /\ create_permutation_from_state_to_state(gs, State, s, t)[s] = t
<1> DEFINE p == Trace(gs, State)[s]
           q == Trace(gs, State)[t]
           r == Inverted(q)
<1>1. p \in Symmetries /\ q \in Symmetries
  BY Traced DEF TraceIs
<1>2. r \in Symmetries /\ r[q[t]] = t
  BY <1>1, InvertedSymmetry
<1>3. q[t] = s
  BY DEF get_canonical_representative
<1>4. s \in Settled(gs)
  BY SettledTrace
<1>5. p = Identity(State)
  BY <1>4, Traced DEF TraceIs, Settled
<1>6. p[s] = s
  BY <1>5, IdentitySymmetry
<1>7. Then(p, r) \in Symmetries /\ Then(p, r)[s] = r[p[s]]
  BY <1>1, <1>2, ThenSymmetry
<1>8. create_permutation_from_state_to_state(gs, State, s, t) = Then(p, r)
  BY DEF create_permutation_from_state_to_state
<1>9. QED
  BY <1>2, <1>3, <1>6, <1>7, <1>8

\* The permutation from a representative to a state it stands for.
LEMMA BackToIs ==
  ASSUME TypeOK, NEW s \in State, NEW t \in State, canonical(t) = s
  PROVE  BackTo(s, t) \in Symmetries /\ BackTo(s, t)[s] = t
<1>1. gens \in Groups
  BY DEF TypeOK
<1>2. CASE s = t
  BY <1>2, IdentitySymmetry DEF BackTo
<1>3. CASE s # t
  BY <1>1, <1>3, BackFrom DEF BackTo, canonical
<1>4. QED
  BY <1>2, <1>3

-----------------------------------------------------------------------------
(* States, representatives and keys.                                       *)

\* A representative stands for its state.
LEMMA Representative ==
  ASSUME TypeOK, NEW s \in State
  PROVE  /\ canonical(s) \in State
         /\ HStar[canonical(s)] = HStar[s] /\ Steps[canonical(s)] = Steps[s]
         /\ canonical(s) \in Goal <=> s \in Goal
<1>1. gens \in Groups
  BY DEF TypeOK
<1> DEFINE p == Trace(gens, State)[s]
<1>2. p \in Symmetries /\ canonical(s) = p[s]
  BY <1>1, Traced DEF TraceIs, canonical, get_canonical_representative
<1>3. p[s] \in State /\ Steps[p[s]] = Steps[s] /\ (p[s] \in Goal <=> s \in Goal)
  BY <1>2 DEF Symmetries, IsSymmetry
<1>4. HStar[p[s]] = HStar[s]
  BY <1>2, AsFar
<1>5. QED
  BY <1>2, <1>3, <1>4

\* Types of what the search computes with.
LEMMA Types ==
  ASSUME TypeOK
  PROVE  /\ s0 \in State /\ Infinity \in Nat /\ bound \in Nat /\ bound <= Infinity
         /\ \A s \in State : /\ h[s] \in Nat /\ HStar[s] \in Nat /\ Steps[s] \in Nat
                             /\ h[s] <= HStar[s] /\ HStar[s] <= Infinity
                             /\ g[s] \in Nat \cup {-1} /\ d[s] \in Nat
         /\ \A o \in Op : Cost[o] \in Nat
<1>1. h \in [State -> 0 .. Infinity] /\ \A s \in State : h[s] <= HStar[s]
  BY HeuristicAssumption DEF TypeOK
<1>2. s0 \in State /\ bound \in 0 .. Infinity
  BY TaskAssumption DEF TypeOK
<1>3. HStar \in [State -> 0 .. Infinity] /\ Steps \in [State -> Nat] /\ Infinity \in Nat
  BY TaskAssumption, PerfectAssumption
<1>4. g \in [State -> Nat \cup {-1}] /\ d \in [State -> Nat]
  BY DEF TypeOK
<1>5. ASSUME NEW s \in State
      PROVE  /\ h[s] \in Nat /\ HStar[s] \in Nat /\ Steps[s] \in Nat
             /\ h[s] <= HStar[s] /\ HStar[s] <= Infinity
             /\ g[s] \in Nat \cup {-1} /\ d[s] \in Nat
  BY <1>1, <1>3, <1>4
<1>6. \A o \in Op : Cost[o] \in Nat
  BY TaskAssumption
<1>7. s0 \in State /\ bound \in Nat /\ bound <= Infinity
  BY <1>2, <1>3
<1>8. QED
  BY <1>3, <1>5, <1>6, <1>7

\* What is known of the successor that the search looks up.
LEMMA Successor ==
  ASSUME TypeOK, NEW s \in State, NEW o \in Applicable(s)
  PROVE  /\ o \in Op /\ successor(s, o) \in State
         /\ HStar[successor(s, o)] = HStar[Succ[<<s, o>>]]
         /\ Steps[successor(s, o)] = Steps[Succ[<<s, o>>]]
         /\ HStar[successor(s, o)] = Infinity \/ HStar[s] <= Cost[o] + HStar[successor(s, o)]
<1>1. o \in Op /\ Succ[<<s, o>>] \in State
  BY TaskAssumption DEF Applicable
<1>2. /\ successor(s, o) \in State
      /\ HStar[successor(s, o)] = HStar[Succ[<<s, o>>]]
      /\ Steps[successor(s, o)] = Steps[Succ[<<s, o>>]]
  BY <1>1, Representative DEF successor
<1>3. HStar[Succ[<<s, o>>]] \in Nat /\ HStar[Succ[<<s, o>>]] <= Infinity /\ Infinity \in Nat
  BY <1>1, Types
<1>4. HStar[Succ[<<s, o>>]] < Infinity => HStar[s] <= Cost[o] + HStar[Succ[<<s, o>>]]
  BY PerfectAssumption
<1>5. QED
  BY <1>1, <1>2, <1>3, <1>4

\* The first component decides which keys are least.
LEMMA MinimaLeast ==
  ASSUME TypeOK, NEW e \in Minima, NEW f \in open_list
  PROVE  e \in open_list /\ e.key[1] <= f.key[1]
<1>1. e \in open_list /\ ~ Before(f.key, e.key)
  BY DEF Minima
<1>2. e.key \in Nat \X Nat \X Nat /\ f.key \in Nat \X Nat \X Nat
  BY <1>1 DEF TypeOK
<1>3. e.key[1] \in Nat /\ f.key[1] \in Nat
  BY <1>2
<1>4. QED
  BY <1>1, <1>3 DEF Before

-----------------------------------------------------------------------------
(* The open node on a cheapest plan.                                       *)

Optimal(s) == Reached(s) /\ g[s] + HStar[s] = HStar[s0]

\* A closed node on a cheapest plan has a successor on it, closer to the goal.
LEMMA NextOptimal ==
  ASSUME IInv, pc = "fetch", HStar[s0] < bound,
         NEW s \in State, Optimal(s), node_status[s] = "closed"
  PROVE  \E t \in State : Optimal(t) /\ Steps[t] < Steps[s]
<1>1. TypeOK /\ result = "in progress"
  BY DEF IInv, Phases
<1>2. /\ HStar[s] \in Nat /\ HStar[s0] \in Nat
      /\ bound \in Nat /\ bound <= Infinity /\ Infinity \in Nat
  BY <1>1, Types
<1>3. g[s] \in Nat /\ g[s] + HStar[s] = HStar[s0]
  BY DEF IInv, Distances, Optimal
<1>4. s \notin Goal /\ \A o \in Applicable(s) : Covered(s, o)
  BY <1>1 DEF IInv, ClosedExpanded, Pending
<1>5. PICK o \in Applicable(s) : /\ HStar[s] = Cost[o] + HStar[Succ[<<s, o>>]]
                                /\ Steps[Succ[<<s, o>>]] < Steps[s]
  <2>1. HStar[s] < Infinity
    BY <1>2, <1>3
  <2>2. QED
    BY <1>4, <2>1, PerfectAssumption
<1> DEFINE t == successor(s, o)
<1>6. /\ t \in State /\ HStar[s] = Cost[o] + HStar[t] /\ Steps[t] < Steps[s]
      /\ Cost[o] \in Nat /\ HStar[t] \in Nat
  <2>1. /\ t \in State /\ o \in Op
        /\ HStar[t] = HStar[Succ[<<s, o>>]] /\ Steps[t] = Steps[Succ[<<s, o>>]]
    BY <1>1, Successor
  <2>2. Cost[o] \in Nat /\ HStar[t] \in Nat
    BY <1>1, <2>1, Types
  <2>3. QED
    BY <1>5, <2>1, <2>2
<1>7. g[s] + Cost[o] < bound /\ HStar[t] < Infinity
  BY <1>2, <1>3, <1>6
<1>8. node_status[t] # "dead_end"
  <2> HIDE DEF t
  <2>1. HStar[t] # Infinity
    BY <1>2, <1>6, <1>7
  <2>2. QED
    BY <1>6, <2>1 DEF IInv, DeadEnds
<1>9. Reached(t) /\ g[t] <= g[s] + Cost[o]
  BY <1>4, <1>7, <1>8 DEF Covered
<1>10. g[t] \in Nat /\ HStar[s0] <= g[t] + HStar[t]
  BY <1>6, <1>9 DEF IInv, Distances
<1>11. Optimal(t)
  BY <1>2, <1>3, <1>6, <1>9, <1>10 DEF Optimal
<1>12. QED
  BY <1>6, <1>11

\* While there is a plan below the bound, the open list has an entry that is
\* not above the cost of a cheapest one.
LEMMA OptimalEntry ==
  ASSUME IInv, pc = "fetch", HStar[s0] < bound
  PROVE  \E e \in open_list : e.key[1] <= HStar[s0]
<1>1. TypeOK
  BY DEF IInv
<1>2. HStar[s0] \in Nat /\ Infinity \in Nat /\ HStar[s0] < Infinity
  BY <1>1, Types
<1>3. Start \in State /\ Optimal(Start)
  <2>1. Start \in State /\ HStar[Start] = HStar[s0]
    BY <1>1, Representative, Types DEF Start
  <2>2. Reached(Start) /\ g[Start] = 0
    BY <1>2 DEF IInv, StartReached
  <2>3. QED
    BY <1>2, <2>1, <2>2 DEF Optimal
<1> DEFINE S == {Steps[s] : s \in {r \in State : Optimal(r)}}
<1>4. S \in SUBSET Nat /\ S # {}
  BY <1>1, <1>3, Types
<1>5. \E m \in S : \A n \in S : m <= n
  <2> HIDE DEF S
  <2>1. QED
    BY <1>4, LeastNatural
<1>6. PICK s \in State : /\ Optimal(s)
                        /\ \A t \in State : Optimal(t) => Steps[s] <= Steps[t]
  BY <1>5
<1>7. node_status[s] # "closed"
  <2>1. SUFFICES ASSUME node_status[s] = "closed"
                 PROVE  FALSE
    OBVIOUS
  <2>2. PICK t \in State : Optimal(t) /\ Steps[t] < Steps[s]
    BY <1>6, <2>1, NextOptimal
  <2>3. Steps[s] <= Steps[t] /\ Steps[s] \in Nat /\ Steps[t] \in Nat
    BY <1>1, <1>6, <2>2, Types
  <2>4. QED
    BY <2>2, <2>3
<1>8. node_status[s] = "open"
  BY <1>6, <1>7 DEF Optimal, Reached
<1>9. PICK e \in open_list : e.key[1] = g[s] + h[s]
  BY <1>8 DEF IInv, OpenHasEntry
<1>10. g[s] \in Nat /\ h[s] \in Nat /\ HStar[s] \in Nat /\ h[s] <= HStar[s]
  BY <1>1, <1>6, Types DEF IInv, Distances, Optimal
<1>11. e.key[1] <= HStar[s0]
  BY <1>6, <1>9, <1>10 DEF Optimal
<1>12. QED
  BY <1>11

-----------------------------------------------------------------------------
(* The invariant holds at the start and is kept by the steps between two   *)
(* expansions.                                                             *)

\* The invariant holds at the start.
LEMMA InitIInv == Init => IInv
<1> SUFFICES ASSUME Init
             PROVE  IInv
  OBVIOUS
<1>1. TypeOK
  BY TaskAssumption DEF Init, TypeOK
<1>2. /\ Phases /\ Distances /\ EntriesNotBelow /\ OpenHasEntry /\ DeadEnds
      /\ StartReached /\ ClosedExpanded /\ SolvedIsOptimal /\ FailedIsUnsolvable
  BY DEF Init, Phases, Distances, EntriesNotBelow, OpenHasEntry, DeadEnds, StartReached,
         ClosedExpanded, SolvedIsOptimal, FailedIsUnsolvable, Reached
<1>3. QED
  BY <1>1, <1>2 DEF IInv

\* What is covered stays covered while distances only fall.
LEMMA CoveredStays ==
  ASSUME TypeOK, TypeOK', UNCHANGED options,
         NEW s \in State, NEW o \in Applicable(s), Covered(s, o), g'[s] = g[s],
         \A t \in State : /\ node_status[t] = "dead_end" => node_status'[t] = "dead_end"
                          /\ Reached(t) => Reached(t)' /\ g'[t] <= g[t]
  PROVE  Covered(s, o)'
<1> DEFINE t == successor(s, o)
<1>1. t \in State /\ o \in Op
  BY Successor
<1>2. successor(s, o)' = t /\ bound' = bound
  BY DEF successor, canonical, options
<1>3. g[s] \in Int /\ g[t] \in Int /\ g'[t] \in Int /\ Cost[o] \in Nat /\ bound \in Nat
  <2>1. g \in [State -> Nat \cup {-1}] /\ g' \in [State -> Nat \cup {-1}]
    BY DEF TypeOK
  <2>2. Cost[o] \in Nat /\ bound \in Nat
    BY <1>1, Types
  <2>3. QED
    BY <1>1, <2>1, <2>2
<1>4. CASE g[s] + Cost[o] < bound /\ node_status[t] = "dead_end"
  BY <1>1, <1>2, <1>4 DEF Covered
<1>5. CASE g[s] + Cost[o] < bound /\ Reached(t) /\ g[t] <= g[s] + Cost[o]
  <2>1. node_status'[t] \in {"open", "closed"} /\ g'[t] <= g[t]
    BY <1>1, <1>5 DEF Reached
  <2>2. g'[t] <= g[s] + Cost[o]
    BY <1>3, <1>5, <2>1
  <2>3. QED
    BY <1>2, <2>1, <2>2 DEF Covered, Reached
<1>6. CASE ~ (g[s] + Cost[o] < bound)
  BY <1>2, <1>6 DEF Covered
<1>7. QED
  BY <1>4, <1>5, <1>6 DEF Covered

\* EagerSearch::initialize opens the representative of the initial state.
LEMMA InitializeIInv == IInv /\ Initialize => IInv'
<1> SUFFICES ASSUME IInv, Initialize
             PROVE  IInv'
  OBVIOUS
<1> DEFINE r == canonical(s0)
<1>1. /\ TypeOK /\ open_list = {} /\ result = "in progress" /\ pc' = "fetch"
      /\ \A s \in State : node_status[s] = "new"
  BY DEF IInv, Initialize, Phases
<1>2. /\ r \in State /\ h[r] \in Nat /\ h[r] <= HStar[r] /\ HStar[r] <= Infinity
      /\ HStar[r] = HStar[s0] /\ HStar[s0] \in Nat /\ Infinity \in Nat
  BY <1>1, Types, Representative
<1>3. canonical(s0)' = r
  BY DEF Initialize, options, canonical
<1>4. CASE is_dead_end(r)
  <2>1. HStar[s0] = Infinity
    BY <1>2, <1>4 DEF is_dead_end
  <2>2. /\ UNCHANGED <<options, infos, open_list, result, node, ops, plan>>
        /\ d' = [d EXCEPT ![r] = 0]
    BY <1>4 DEF Initialize, infos
  <2>3. TypeOK'
    BY <1>1, <2>2 DEF TypeOK, options, infos
  <2>4. QED
    BY <1>1, <2>1, <2>2, <2>3
    DEF IInv, Phases, Distances, EntriesNotBelow, OpenHasEntry, DeadEnds, StartReached,
        ClosedExpanded, SolvedIsOptimal, FailedIsUnsolvable, Reached, options, infos
<1>5. CASE ~ is_dead_end(r)
  <2>1. /\ node_status' = [node_status EXCEPT ![r] = "open"]
        /\ g' = [g EXCEPT ![r] = 0] /\ d' = [d EXCEPT ![r] = 0]
        /\ open_list' = {Entry(r, 0, 0)}
        /\ UNCHANGED <<options, result, parent, creator, node, ops, plan>>
    BY <1>5 DEF Initialize
  <2>2. /\ Entry(r, 0, 0).state = r /\ Entry(r, 0, 0).key[1] = h[r]
        /\ Entry(r, 0, 0) \in [key : Nat \X Nat \X Nat, state : State]
    BY <1>2 DEF Entry
  <2>3. TypeOK'
    BY <1>1, <1>2, <2>1, <2>2 DEF TypeOK, options
  <2>4. /\ node_status'[r] = "open" /\ g'[r] = 0 /\ h' = h
        /\ \A s \in State : s # r => node_status'[s] = "new"
    BY <1>1, <1>2, <2>1 DEF TypeOK, options
  <2>5. Phases' /\ DeadEnds' /\ ClosedExpanded' /\ SolvedIsOptimal' /\ FailedIsUnsolvable'
    BY <1>1, <1>2, <2>1, <2>4
    DEF Phases, DeadEnds, ClosedExpanded, SolvedIsOptimal, FailedIsUnsolvable
  <2>6. Distances'
    BY <1>2, <2>4 DEF Distances, Reached
  <2>7. EntriesNotBelow' /\ OpenHasEntry'
    BY <1>2, <2>1, <2>2, <2>4 DEF EntriesNotBelow, OpenHasEntry, Reached
  <2>8. StartReached'
    BY <1>1, <1>3, <2>4 DEF StartReached, Start, Reached
  <2>9. QED
    BY <2>3, <2>5, <2>6, <2>7, <2>8 DEF IInv
<1>6. QED
  BY <1>4, <1>5

\* Dropping the entry of a closed node leaves every open node its entry.
LEMMA SkipClosedIInv == IInv /\ SkipClosed => IInv'
<1> SUFFICES ASSUME IInv, SkipClosed
             PROVE  IInv'
  OBVIOUS
<1>1. PICK e \in Minima : node_status[e.state] = "closed" /\ open_list' = open_list \ {e}
  BY DEF SkipClosed
<1>2. UNCHANGED <<options, pc, result, infos, d, node, ops, plan>>
  BY DEF SkipClosed
<1>3. UNCHANGED <<h, gens, bound, shortest, node_status, g, parent, creator>>
  BY <1>2 DEF options, infos
<1>4. TypeOK'
  BY <1>1, <1>2, <1>3 DEF IInv, TypeOK
<1>5. Phases'
  BY <1>1, <1>2, <1>3 DEF IInv, Phases, SkipClosed
<1>6. EntriesNotBelow' /\ OpenHasEntry'
  BY <1>1, <1>3 DEF IInv, EntriesNotBelow, OpenHasEntry, Reached
<1>7. Distances' /\ DeadEnds' /\ StartReached' /\ SolvedIsOptimal' /\ FailedIsUnsolvable'
  BY <1>2, <1>3
  DEF IInv, Distances, DeadEnds, StartReached, Start, canonical, Reached,
      SolvedIsOptimal, FailedIsUnsolvable
<1>8. ClosedExpanded'
  BY <1>2, <1>3 DEF IInv, ClosedExpanded, Pending, Covered, successor, canonical, Reached
<1>9. QED
  BY <1>4, <1>5, <1>6, <1>7, <1>8 DEF IInv

\* A goal node is fetched only when its cost is that of a cheapest plan.
LEMMA FetchedGoal ==
  ASSUME IInv, pc = "fetch", NEW e \in Minima, e.state \in Goal
  PROVE  g[e.state] = HStar[s0]
<1> DEFINE s == e.state
<1>1. TypeOK /\ e \in open_list
  BY DEF IInv, Minima
<1>2. s \in State /\ e.key[1] \in Nat
  BY <1>1 DEF TypeOK
<1>3. /\ g[s] \in Nat /\ (g[s] = 0 \/ g[s] < bound) /\ HStar[s0] <= g[s] + HStar[s]
      /\ g[s] + h[s] <= e.key[1]
  BY <1>1, <1>2 DEF IInv, Distances, EntriesNotBelow
<1>4. /\ h[s] \in Nat /\ h[s] <= HStar[s] /\ HStar[s0] \in Nat /\ bound \in Nat
      /\ HStar[s] = 0
  BY <1>1, <1>2, Types, PerfectAssumption
<1>5. HStar[s0] <= g[s]
  BY <1>3, <1>4
<1>6. CASE HStar[s0] < bound
  <2>1. PICK f \in open_list : f.key[1] <= HStar[s0]
    BY <1>6, OptimalEntry
  <2>2. e.key[1] <= f.key[1] /\ f.key[1] \in Nat
    BY <1>1, MinimaLeast DEF TypeOK
  <2>3. QED
    BY <1>2, <1>3, <1>4, <1>5, <2>1, <2>2
<1>7. CASE ~ (HStar[s0] < bound)
  BY <1>3, <1>4, <1>5, <1>7
<1>8. QED
  BY <1>6, <1>7

\* A fetched node is closed with all its operators pending, or ends the search.
LEMMA FetchNodeIInv == IInv /\ FetchNode => IInv'
<1> SUFFICES ASSUME IInv, FetchNode
             PROVE  IInv'
  OBVIOUS
<1>1. PICK e \in Minima :
        /\ node_status[e.state] # "closed"
        /\ open_list' = open_list \ {e}
        /\ node_status' = [node_status EXCEPT ![e.state] = "closed"]
        /\ node' = e.state
        /\ IF e.state \in Goal
           THEN result' = "solved" /\ pc' = "step done" /\ UNCHANGED ops
           ELSE ops' = Applicable(e.state) /\ pc' = "expand" /\ UNCHANGED result
  BY DEF FetchNode
<1>2. /\ UNCHANGED <<h, gens, bound, shortest, g, parent, creator, d>>
      /\ pc = "fetch" /\ result = "in progress" /\ TypeOK
  BY DEF FetchNode, options, IInv, Phases
<1> DEFINE s == e.state
<1>3. e \in open_list /\ s \in State /\ node_status[s] = "open"
  BY <1>1, <1>2 DEF IInv, EntriesNotBelow, Reached, Minima, TypeOK
<1>4. /\ node_status'[s] = "closed"
      /\ \A t \in State : t # s => node_status'[t] = node_status[t]
      /\ \A t \in State : Reached(t)' <=> Reached(t)
  BY <1>1, <1>2, <1>3 DEF TypeOK, Reached
<1>5. TypeOK'
  BY <1>1, <1>2, <1>3 DEF TypeOK, Applicable
<1>6. Phases'
  BY <1>1, <1>2, <1>4 DEF Phases
<1>7. Distances' /\ DeadEnds'
  BY <1>2, <1>4 DEF IInv, Distances, DeadEnds
<1>8. EntriesNotBelow' /\ OpenHasEntry'
  <2>1. EntriesNotBelow'
    BY <1>1, <1>2, <1>3, <1>4 DEF IInv, EntriesNotBelow, TypeOK
  <2>2. OpenHasEntry'
    BY <1>1, <1>2, <1>3, <1>4 DEF IInv, OpenHasEntry
  <2>3. QED
    BY <2>1, <2>2
<1>9. StartReached'
  <2>1. Start \in State /\ Start' = Start
    BY <1>2, Types, Representative DEF Start, canonical
  <2>2. QED
    BY <1>2, <1>4, <2>1 DEF IInv, StartReached
<1>10. ClosedExpanded'
  <2>1. SUFFICES ASSUME result' = "in progress", NEW t \in State, node_status'[t] = "closed"
                 PROVE  /\ t \notin Goal
                        /\ \A o \in Applicable(t) : Pending(t, o)' \/ Covered(t, o)'
    BY DEF ClosedExpanded
  <2>2. s \notin Goal /\ ops' = Applicable(s) /\ pc' = "expand"
    BY <1>1, <2>1
  <2>3. CASE t = s
    BY <1>1, <2>2, <2>3 DEF Pending
  <2>4. CASE t # s
    <3>1. t \notin Goal /\ \A o \in Applicable(t) : Covered(t, o)
      BY <1>2, <1>4, <2>1, <2>4 DEF IInv, ClosedExpanded, Pending
    <3>2. \A r \in State : g'[r] <= g[r]
      <4>1. g' = g /\ \A r \in State : g[r] \in Nat \cup {-1}
        BY <1>2, Types
      <4>2. QED
        BY <4>1
    <3>3. ASSUME NEW o \in Applicable(t)
          PROVE  Covered(t, o)'
      BY <1>2, <1>3, <1>4, <1>5, <3>1, <3>2, CoveredStays DEF options
    <3>4. QED
      BY <3>1, <3>3
  <2>5. QED
    BY <2>3, <2>4
<1>11. SolvedIsOptimal' /\ FailedIsUnsolvable'
  BY <1>1, <1>2, FetchedGoal DEF SolvedIsOptimal, FailedIsUnsolvable
<1>12. QED
  BY <1>5, <1>6, <1>7, <1>8, <1>9, <1>10, <1>11 DEF IInv

\* What remains true when only the phase, the result or the pending operators
\* change: all but the parts named.
LEMMA Idle ==
  ASSUME IInv, UNCHANGED <<options, open_list, infos>>, pc # "initialize"
  PROVE  Distances' /\ EntriesNotBelow' /\ OpenHasEntry' /\ DeadEnds' /\ StartReached'
BY DEF IInv, Distances, EntriesNotBelow, OpenHasEntry, DeadEnds, StartReached, Start,
       canonical, Reached, options, infos

\* An empty open list has no entry on a cheapest plan.
LEMMA OpenListEmptyIInv == IInv /\ OpenListEmpty => IInv'
<1> SUFFICES ASSUME IInv, OpenListEmpty
             PROVE  IInv'
  OBVIOUS
<1>1. /\ pc = "fetch" /\ open_list = {} /\ result' = "failed" /\ pc' = "step done"
      /\ UNCHANGED <<options, open_list, infos, d, node, ops, plan>>
  BY DEF OpenListEmpty
<1>2. TypeOK'
  BY <1>1 DEF IInv, TypeOK, options, infos
<1>3. Phases' /\ ClosedExpanded' /\ SolvedIsOptimal'
  BY <1>1 DEF Phases, ClosedExpanded, SolvedIsOptimal
<1>4. FailedIsUnsolvable'
  <2>1. ~ (HStar[s0] < bound)
    BY <1>1, OptimalEntry
  <2>2. HStar[s0] \in Nat /\ bound \in Nat /\ bound' = bound
    BY <1>1, Types DEF IInv, options
  <2>3. QED
    BY <2>1, <2>2 DEF FailedIsUnsolvable
<1>5. QED
  BY <1>1, <1>2, <1>3, <1>4, Idle DEF IInv

\* The test of the clock.
LEMMA StepDoneIInv == IInv /\ (TimeLimit \/ InTime) => IInv'
<1> SUFFICES ASSUME IInv, TimeLimit \/ InTime
             PROVE  IInv'
  OBVIOUS
<1>1. /\ pc = "step done" /\ result' \in {result, "timeout"} /\ pc' \in {"fetch", "end"}
      /\ pc' = "fetch" => result' = "in progress"
      /\ UNCHANGED <<options, open_list, infos, d, node, ops, plan>>
  BY DEF TimeLimit, InTime
<1>2. TypeOK'
  BY <1>1 DEF IInv, TypeOK, options, infos
<1>3. Phases'
  BY <1>1 DEF Phases
<1>4. SolvedIsOptimal' /\ FailedIsUnsolvable'
  BY <1>1 DEF IInv, SolvedIsOptimal, FailedIsUnsolvable, options, infos
<1>5. ClosedExpanded'
  BY <1>1 DEF IInv, ClosedExpanded, Pending, Covered, successor, canonical, Reached, options,
              infos
<1>6. QED
  BY <1>1, <1>2, <1>3, <1>4, <1>5, Idle DEF IInv

-----------------------------------------------------------------------------
(* The invariant is kept by the application of an operator.                *)

\* What is known when an operator is applied to the node.
LEMMA Operator ==
  ASSUME IInv, NEW o \in Op, Next_op(o)
  PROVE  /\ TypeOK /\ result = "in progress" /\ node \in State
         /\ node_status[node] = "closed" /\ o \in Applicable(node)
         /\ successor(node, o) \in State
         /\ g[node] \in Nat /\ Cost[o] \in Nat /\ bound \in Nat /\ g_over(o) \in Nat
         /\ HStar[s0] <= g_over(o) + HStar[successor(node, o)]
<1>1. /\ TypeOK /\ result = "in progress" /\ node \in State
      /\ node_status[node] = "closed" /\ o \in Applicable(node)
  BY DEF IInv, Phases, Next_op, TypeOK
<1>2. g[node] \in Nat /\ HStar[s0] <= g[node] + HStar[node]
  BY <1>1 DEF IInv, Distances, Reached
<1>3. /\ successor(node, o) \in State
      /\ \/ HStar[successor(node, o)] = Infinity
         \/ HStar[node] <= Cost[o] + HStar[successor(node, o)]
  BY <1>1, Successor
<1>4. /\ Cost[o] \in Nat /\ bound \in Nat /\ Infinity \in Nat /\ HStar[s0] \in Nat
      /\ HStar[s0] <= Infinity /\ HStar[node] \in Nat /\ HStar[successor(node, o)] \in Nat
  BY <1>1, <1>3, Types
<1>5. HStar[s0] <= g_over(o) + HStar[successor(node, o)]
  BY <1>2, <1>3, <1>4 DEF g_over
<1>6. g_over(o) \in Nat
  BY <1>2, <1>4 DEF g_over
<1>7. QED
  BY <1>1, <1>2, <1>3, <1>4, <1>5, <1>6

\* An operator that is skipped has nothing new to offer.
LEMMA QuietIInv ==
  ASSUME IInv, NEW o \in Op, OverBound(o) \/ KnownDeadEnd(o) \/ NotBetter(o)
  PROVE  IInv'
<1>1. /\ Next_op(o) /\ pc = "expand" /\ ops' = ops \ {o}
      /\ UNCHANGED <<options, pc, result, open_list, infos, d, node, plan>>
  BY DEF OverBound, KnownDeadEnd, NotBetter, Next_op
<1>2. UNCHANGED <<h, gens, bound, shortest, node_status, g, parent, creator>>
  BY <1>1 DEF options, infos
<1>3. /\ successor(node, o) \in State /\ g[successor(node, o)] \in Nat \cup {-1}
      /\ g_over(o) \in Nat /\ bound \in Nat
  <2>1. TypeOK /\ successor(node, o) \in State /\ g_over(o) \in Nat /\ bound \in Nat
    BY <1>1, Operator
  <2>2. QED
    BY <2>1, Types
<1>4. Covered(node, o)
  BY <1>3
  DEF OverBound, KnownDeadEnd, NotBetter, WithinBound, Better, g_over, Covered, Reached
<1>5. TypeOK' /\ Phases'
  BY <1>1, <1>2 DEF IInv, TypeOK, Phases
<1>6. SolvedIsOptimal' /\ FailedIsUnsolvable'
  BY <1>1, <1>2 DEF IInv, SolvedIsOptimal, FailedIsUnsolvable
<1>7. ClosedExpanded'
  BY <1>1, <1>2, <1>4
  DEF IInv, ClosedExpanded, Pending, Covered, successor, canonical, Reached
<1>8. QED
  BY <1>1, <1>5, <1>6, <1>7, Idle DEF IInv

\* At the end of an expansion no operator is pending.
LEMMA ExpandedIInv == IInv /\ Expanded => IInv'
<1> SUFFICES ASSUME IInv, Expanded
             PROVE  IInv'
  OBVIOUS
<1>1. /\ pc = "expand" /\ ops = {} /\ pc' = "step done"
      /\ UNCHANGED <<options, result, open_list, infos, d, node, ops, plan>>
  BY DEF Expanded
<1>2. UNCHANGED <<h, gens, bound, shortest, node_status, g, parent, creator>>
  BY <1>1 DEF options, infos
<1>3. TypeOK' /\ Phases'
  BY <1>1, <1>2 DEF IInv, TypeOK, Phases
<1>4. SolvedIsOptimal' /\ FailedIsUnsolvable'
  BY <1>1, <1>2 DEF IInv, SolvedIsOptimal, FailedIsUnsolvable
<1>5. ClosedExpanded'
  BY <1>1, <1>2 DEF IInv, ClosedExpanded, Pending, Covered, successor, canonical, Reached
<1>6. QED
  BY <1>1, <1>3, <1>4, <1>5, Idle DEF IInv

\* A new state that the heuristic excludes is a dead end.
LEMMA NewDeadEndIInv ==
  ASSUME IInv, NEW o \in Op, NewDeadEnd(o)
  PROVE  IInv'
<1> DEFINE t == successor(node, o)
<1>1. /\ Next_op(o) /\ pc = "expand" /\ ops' = ops \ {o}
      /\ node_status[t] = "new" /\ is_dead_end(t)
      /\ node_status' = [node_status EXCEPT ![t] = "dead_end"]
      /\ d' = [d EXCEPT ![t] = d_over(o)]
      /\ UNCHANGED <<options, pc, result, open_list, g, parent, creator, node, plan>>
  BY DEF NewDeadEnd, Next_op
<1>2. /\ TypeOK /\ result = "in progress" /\ node \in State /\ t \in State
      /\ node_status[node] = "closed" /\ o \in Applicable(node)
  BY <1>1, Operator
<1>3. UNCHANGED <<h, gens, bound, shortest>>
  BY <1>1 DEF options
<1>4. HStar[t] = Infinity
  <2>1. h[t] = Infinity
    BY <1>1 DEF is_dead_end
  <2>2. /\ h[t] <= HStar[t] /\ HStar[t] <= Infinity
        /\ HStar[t] \in Nat /\ Infinity \in Nat
    BY <1>2, Types
  <2>3. QED
    BY <2>1, <2>2
<1>5. /\ node_status'[t] = "dead_end"
      /\ \A s \in State : s # t => node_status'[s] = node_status[s]
      /\ \A s \in State : Reached(s)' <=> Reached(s)
  BY <1>1, <1>2 DEF TypeOK, Reached
<1>6. d_over(o) \in Nat
  <2>1. d[node] \in Nat /\ d[t] \in Nat
    BY <1>2, Types
  <2>2. QED
    BY <2>1 DEF d_over
<1>7. TypeOK'
  BY <1>1, <1>2, <1>3, <1>6 DEF TypeOK
<1>8. Phases' /\ DeadEnds'
  BY <1>1, <1>2, <1>4, <1>5 DEF IInv, Phases, DeadEnds
<1>9. Distances' /\ EntriesNotBelow' /\ OpenHasEntry'
  BY <1>1, <1>2, <1>3, <1>5
  DEF IInv, Distances, EntriesNotBelow, OpenHasEntry, TypeOK
<1>10. StartReached' /\ SolvedIsOptimal' /\ FailedIsUnsolvable'
  <2>1. Start \in State /\ Start' = Start
    BY <1>2, <1>3, Types, Representative DEF Start, canonical
  <2>2. QED
    BY <1>1, <1>2, <1>5, <2>1 DEF IInv, StartReached, SolvedIsOptimal, FailedIsUnsolvable
<1>11. ClosedExpanded'
  <2>1. SUFFICES ASSUME NEW s \in State, node_status'[s] = "closed"
                 PROVE  /\ s \notin Goal
                        /\ \A q \in Applicable(s) : Pending(s, q)' \/ Covered(s, q)'
    BY DEF ClosedExpanded
  <2>2. /\ node_status[s] = "closed" /\ s \notin Goal
        /\ \A q \in Applicable(s) : Pending(s, q) \/ Covered(s, q)
    BY <1>2, <1>5, <2>1 DEF IInv, ClosedExpanded
  <2>3. \A r \in State : g'[r] <= g[r]
    <3>1. g' = g /\ \A r \in State : g[r] \in Nat \cup {-1}
      BY <1>1, <1>2, Types
    <3>2. QED
      BY <3>1
  <2>4. ASSUME NEW q \in Applicable(s)
        PROVE  Pending(s, q)' \/ Covered(s, q)'
    <3>1. CASE Covered(s, q)
      BY <1>1, <1>2, <1>5, <1>7, <2>3, <3>1, CoveredStays
    <3>2. CASE Pending(s, q) /\ q # o
      BY <1>1, <3>2 DEF Pending
    <3>3. CASE Pending(s, q) /\ q = o
      BY <1>1, <1>3, <1>5, <3>3 DEF Pending, Covered, successor, canonical
    <3>4. QED
      BY <2>2, <3>1, <3>2, <3>3
  <2>5. QED
    BY <2>2, <2>4
<1>12. QED
  BY <1>7, <1>8, <1>9, <1>10, <1>11 DEF IInv

\* State t is opened or reopened by operator o, with the entry e.
Opens(o, t, e) ==
  /\ Next_op(o) /\ WithinBound(o)
  /\ t = successor(node, o) /\ (node_status[t] = "new" \/ Better(t, o))
  /\ SetNode(t, o)
  /\ \E x \in Nat : e = Entry(t, g_over(o), x)
  /\ open_list' = open_list \cup {e}
  /\ d' \in [State -> Nat]
  /\ UNCHANGED <<options, pc, result, node, plan>>

\* The invariant is kept when a state is opened or reopened.
LEMMA Opening ==
  ASSUME IInv, NEW o \in Op, NEW t, NEW new, Opens(o, t, new)
  PROVE  IInv'
<1>1. /\ TypeOK /\ result = "in progress" /\ node \in State /\ t \in State
      /\ node_status[node] = "closed" /\ o \in Applicable(node)
  BY Operator DEF Opens
<1>2. g[node] \in Nat /\ Cost[o] \in Nat /\ bound \in Nat /\ g_over(o) \in Nat
  BY Operator DEF Opens
<1>3. HStar[s0] <= g_over(o) + HStar[t]
  BY Operator DEF Opens
<1>4. UNCHANGED <<h, gens, bound, shortest>>
  BY DEF Opens, options
<1>5. /\ pc = "expand" /\ ops' = ops \ {o}
      /\ open_list' = open_list \cup {new} /\ d' \in [State -> Nat]
      /\ UNCHANGED <<pc, result, node, plan>>
  BY DEF Opens, Next_op
<1>6. /\ node_status' = [node_status EXCEPT ![t] = "open"]
      /\ g' = [g EXCEPT ![t] = g_over(o)]
      /\ parent' = [parent EXCEPT ![t] = node] /\ creator' = [creator EXCEPT ![t] = o]
  BY DEF Opens, SetNode
<1>7. /\ node_status'[t] = "open" /\ g'[t] = g_over(o)
      /\ \A s \in State : s # t => node_status'[s] = node_status[s] /\ g'[s] = g[s]
  BY <1>1, <1>6 DEF TypeOK
<1>8. node_status[t] # "dead_end" /\ (Reached(t) => g_over(o) < g[t])
  BY DEF Opens, Better, Reached
<1>9. t # node
  <2>1. SUFFICES ASSUME t = node
                 PROVE  FALSE
    OBVIOUS
  <2>2. g_over(o) < g[node]
    BY <1>1, <1>8, <2>1 DEF Reached
  <2>3. QED
    BY <1>2, <2>2 DEF g_over
<1>10. h[t] \in Nat /\ \A s \in State : g[s] \in Nat \cup {-1} /\ h[s] \in Nat
  BY <1>1, Types
<1>11. /\ new.state = t /\ new.key[1] = g_over(o) + h[t]
      /\ new \in [key : Nat \X Nat \X Nat, state : State]
  <2>1. PICK x \in Nat : new = Entry(t, g_over(o), x)
    BY DEF Opens
  <2> DEFINE y == IF shortest THEN x ELSE 0
             f == g_over(o) + h[t]
  <2>2. new = [key |-> <<f, y, h[t]>>, state |-> t]
    BY <2>1 DEF Entry
  <2>3. f \in Nat /\ y \in Nat /\ h[t] \in Nat
    BY <1>2, <1>10
  <2> HIDE DEF y, f
  <2>4. new.state = t /\ new.key[1] = f /\ new \in [key : Nat \X Nat \X Nat, state : State]
    BY <1>1, <2>2, <2>3
  <2>5. QED
    BY <2>4 DEF f
<1>12. TypeOK'
  <2>1. /\ node_status' \in [State -> {"new", "open", "closed", "dead_end"}]
        /\ g' \in [State -> Nat \cup {-1}]
    BY <1>1, <1>2, <1>6 DEF TypeOK
  <2>2. /\ parent' \in [State -> State \cup {None}]
        /\ creator' \in [State -> Op \cup {None}]
    BY <1>1, <1>6 DEF TypeOK
  <2>3. open_list' \subseteq [key : Nat \X Nat \X Nat, state : State]
    BY <1>1, <1>5, <1>11 DEF TypeOK
  <2>4. QED
    BY <1>1, <1>4, <1>5, <2>1, <2>2, <2>3 DEF TypeOK
<1>13. Phases'
  BY <1>1, <1>5, <1>7, <1>9 DEF IInv, Phases
<1>14. Distances'
  <2>1. SUFFICES ASSUME NEW s \in State, Reached(s)'
                 PROVE  /\ g'[s] \in Nat /\ (g'[s] = 0 \/ g'[s] < bound)
                        /\ HStar[s0] <= g'[s] + HStar[s]
    BY <1>4 DEF Distances
  <2>2. CASE s = t
    BY <1>2, <1>3, <1>7, <2>2 DEF Opens, WithinBound
  <2>3. CASE s # t
    BY <1>7, <2>1, <2>3 DEF IInv, Distances, Reached
  <2>4. QED
    BY <2>2, <2>3
<1>15. EntriesNotBelow'
  <2>1. SUFFICES ASSUME NEW e \in open_list'
                 PROVE  Reached(e.state)' /\ g'[e.state] + h[e.state] <= e.key[1]
    BY <1>4 DEF EntriesNotBelow
  <2>2. CASE e = new
    <3>1. node_status'[t] = "open" /\ g'[t] + h[t] <= g_over(o) + h[t]
      BY <1>2, <1>7, <1>10
    <3>2. QED
      BY <1>11, <2>2, <3>1 DEF Reached
  <2>3. CASE e \in open_list
    <3>1. /\ e.state \in State /\ e.key[1] \in Nat
          /\ Reached(e.state) /\ g[e.state] + h[e.state] <= e.key[1]
      BY <1>1, <2>3 DEF IInv, EntriesNotBelow, TypeOK
    <3>2. CASE e.state = t
      <4>1. g'[t] + h[t] <= g[t] + h[t] /\ g[t] + h[t] \in Int /\ g'[t] + h[t] \in Int
        BY <1>2, <1>7, <1>8, <1>10, <3>1, <3>2
      <4>2. g'[t] + h[t] <= e.key[1]
        BY <3>1, <3>2, <4>1
      <4>3. QED
        BY <1>7, <3>2, <4>2 DEF Reached
    <3>3. CASE e.state # t
      BY <1>7, <3>1, <3>3 DEF Reached
    <3>4. QED
      BY <3>2, <3>3
  <2>4. QED
    BY <1>5, <2>2, <2>3
<1>16. OpenHasEntry'
  <2>1. SUFFICES ASSUME NEW s \in State, node_status'[s] = "open"
                 PROVE  \E e \in open_list' : e.state = s /\ e.key[1] = g'[s] + h[s]
    BY <1>4 DEF OpenHasEntry
  <2>2. CASE s = t
    BY <1>5, <1>7, <1>11, <2>2
  <2>3. CASE s # t
    BY <1>5, <1>7, <2>1, <2>3 DEF IInv, OpenHasEntry
  <2>4. QED
    BY <2>2, <2>3
<1>17. DeadEnds'
  BY <1>7 DEF IInv, DeadEnds
<1>18. StartReached'
  <2>1. Start \in State /\ Start' = Start
    BY <1>1, <1>4, Types, Representative DEF Start, canonical
  <2>2. HStar[s0] = Infinity \/ (Reached(Start) /\ g[Start] = 0)
    BY <1>5 DEF IInv, StartReached
  <2>3. CASE Reached(Start) /\ g[Start] = 0
    <3>1. Start # t
      BY <1>2, <1>8, <2>3
    <3>2. QED
      BY <1>7, <2>1, <2>3, <3>1 DEF StartReached, Reached
  <2>4. QED
    BY <2>2, <2>3 DEF StartReached
<1>19. ClosedExpanded'
  <2>1. SUFFICES ASSUME NEW s \in State, node_status'[s] = "closed"
                 PROVE  /\ s \notin Goal
                        /\ \A q \in Applicable(s) : Pending(s, q)' \/ Covered(s, q)'
    BY DEF ClosedExpanded
  <2>2. s # t /\ node_status[s] = "closed" /\ g'[s] = g[s]
    BY <1>7, <2>1
  <2>3. /\ s \notin Goal
        /\ \A q \in Applicable(s) : Pending(s, q) \/ Covered(s, q)
    BY <1>1, <2>2 DEF IInv, ClosedExpanded
  <2>4. \A r \in State : /\ node_status[r] = "dead_end" => node_status'[r] = "dead_end"
                         /\ Reached(r) => Reached(r)' /\ g'[r] <= g[r]
    <3>1. ASSUME NEW r \in State, r # t
          PROVE  g'[r] <= g[r]
      BY <1>7, <1>10, <3>1
    <3>2. ASSUME Reached(t)
          PROVE  g'[t] <= g[t]
      <4>1. g_over(o) < g[t] /\ g[t] \in Nat \cup {-1}
        BY <1>1, <1>8, <1>10, <3>2
      <4>2. QED
        BY <1>2, <1>7, <4>1
    <3>3. QED
      BY <1>7, <1>8, <3>1, <3>2 DEF Reached
  <2>5. ASSUME NEW q \in Applicable(s)
        PROVE  Pending(s, q)' \/ Covered(s, q)'
    <3>1. CASE Covered(s, q)
      BY <1>1, <1>4, <1>12, <2>2, <2>4, <3>1, CoveredStays DEF options
    <3>2. CASE Pending(s, q) /\ q # o
      BY <1>5, <3>2 DEF Pending
    <3>3. CASE Pending(s, q) /\ q = o
      <4>1. s = node /\ successor(s, q)' = t
        BY <1>4, <1>5, <3>3 DEF Opens, Pending, successor, canonical
      <4>2. Reached(t)' /\ g'[t] = g'[s] + Cost[q] /\ g'[t] \in Nat
        BY <1>2, <1>7, <2>2, <3>3, <4>1 DEF Reached, g_over
      <4>3. Reached(successor(s, q))' /\ g'[t] <= g'[s] + Cost[q]
        BY <4>1, <4>2 DEF Reached
      <4>4. QED
        BY <4>1, <4>3 DEF Covered
    <3>4. QED
      BY <2>3, <3>1, <3>2, <3>3
  <2>6. QED
    BY <2>3, <2>5
<1>20. SolvedIsOptimal' /\ FailedIsUnsolvable'
  BY <1>1, <1>5 DEF SolvedIsOptimal, FailedIsUnsolvable
<1>21. QED
  BY <1>12, <1>13, <1>14, <1>15, <1>16, <1>17, <1>18, <1>19, <1>20 DEF IInv

\* OpenNew opens a state.
LEMMA OpenNewOpens ==
  ASSUME IInv, NEW o \in Op, OpenNew(o)
  PROVE  \E t, e : Opens(o, t, e)
<1> DEFINE t == successor(node, o)
<1>1. /\ Next_op(o) /\ WithinBound(o) /\ node_status[t] = "new" /\ SetNode(t, o)
      /\ d' = [d EXCEPT ![t] = d_over(o)]
      /\ open_list' = open_list \cup {Entry(t, g_over(o), d_over(o))}
      /\ UNCHANGED <<options, pc, result, node, plan>>
  BY DEF OpenNew
<1>2. TypeOK /\ node \in State /\ t \in State
  BY <1>1, Operator
<1>3. d[node] \in Nat /\ d[t] \in Nat
  BY <1>2, Types
<1>4. d_over(o) \in Nat
  BY <1>3 DEF d_over
<1>5. d' \in [State -> Nat]
  BY <1>1, <1>2, <1>4 DEF TypeOK
<1>6. Opens(o, t, Entry(t, g_over(o), d_over(o)))
  BY <1>1, <1>4, <1>5 DEF Opens
<1>7. QED
  BY <1>6

\* Reopen opens a state.
LEMMA ReopenOpens ==
  ASSUME IInv, NEW o \in Op, Reopen(o)
  PROVE  \E t, e : Opens(o, t, e)
<1> DEFINE t == successor(node, o)
<1>1. /\ Next_op(o) /\ WithinBound(o) /\ Better(t, o) /\ SetNode(t, o)
      /\ open_list' = open_list \cup {Entry(t, g_over(o), d[t])}
      /\ UNCHANGED <<options, pc, result, d, node, plan>>
  BY DEF Reopen
<1>2. TypeOK /\ t \in State
  BY <1>1, Operator
<1>3. d[t] \in Nat /\ d' \in [State -> Nat]
  BY <1>1, <1>2 DEF TypeOK
<1>4. Opens(o, t, Entry(t, g_over(o), d[t]))
  BY <1>1, <1>3 DEF Opens
<1>5. QED
  BY <1>4

-----------------------------------------------------------------------------
(* The theorems.                                                           *)

\* Every step keeps the invariant.
LEMMA StepIInv == IInv /\ [Next]_vars => IInv'
<1> SUFFICES ASSUME IInv, [Next]_vars
             PROVE  IInv'
  OBVIOUS
<1>1. CASE Initialize \/ SkipClosed \/ FetchNode \/ OpenListEmpty
  BY <1>1, InitializeIInv, SkipClosedIInv, FetchNodeIInv, OpenListEmptyIInv
<1>2. ASSUME NEW o \in Op,
             \/ OverBound(o) \/ KnownDeadEnd(o) \/ NewDeadEnd(o)
             \/ OpenNew(o) \/ Reopen(o) \/ NotBetter(o)
      PROVE  IInv'
  BY <1>2, QuietIInv, NewDeadEndIInv, OpenNewOpens, ReopenOpens, Opening
<1>3. CASE Expanded \/ TimeLimit \/ InTime
  BY <1>3, ExpandedIInv, StepDoneIInv
<1>4. CASE UNCHANGED vars
  BY <1>4
  DEF vars, options, infos, IInv, TypeOK, Phases, Distances, EntriesNotBelow, OpenHasEntry,
      DeadEnds, StartReached, Start, ClosedExpanded, Pending, Covered, successor, canonical,
      Reached, SolvedIsOptimal, FailedIsUnsolvable
<1>5. QED
  BY <1>1, <1>2, <1>3, <1>4 DEF Next

\* The inductive invariant holds in every state of every search.
THEOREM Invariance == Spec => []IInv
<1>1. QED
  BY InitIInv, StepIInv, PTL DEF Spec

\* Every variable keeps the values of its type.
THEOREM TypeCorrect == Spec => []TypeOK
<1>1. IInv => TypeOK
  BY DEF IInv
<1>2. QED
  BY <1>1, Invariance, PTL

\* A* with reopening returns a cheapest plan: for every task, every admissible
\* heuristic, consistent or not, and every group of symmetries of the task.
THEOREM SolvedCorrect == Spec => []SolvedIsOptimal
<1>1. IInv => SolvedIsOptimal
  BY DEF IInv
<1>2. QED
  BY <1>1, Invariance, PTL

\* A search that fails has shown that no plan is cheaper than the bound.
THEOREM FailedCorrect == Spec => []FailedIsUnsolvable
<1>1. IInv => FailedIsUnsolvable
  BY DEF IInv
<1>2. QED
  BY <1>1, Invariance, PTL

\* The entry of a node that is fetched is its current one: that of an open
\* node has the smaller key.
LEMMA FetchedCurrent ==
  ASSUME IInv, pc = "fetch", NEW e \in Minima, node_status[e.state] # "closed"
  PROVE  e.key[1] = g[e.state] + h[e.state]
<1>1. TypeOK /\ e \in open_list
  BY DEF IInv, Minima
<1>2. /\ e.state \in State /\ node_status[e.state] = "open"
      /\ g[e.state] + h[e.state] <= e.key[1] /\ e.key[1] \in Nat
  BY <1>1 DEF IInv, EntriesNotBelow, Reached, TypeOK
<1>3. PICK f \in open_list : f.key[1] = g[e.state] + h[e.state]
  BY <1>2 DEF IInv, OpenHasEntry
<1>4. e.key[1] <= f.key[1]
  BY <1>1, MinimaLeast
<1>5. f.key[1] \in Nat
  BY <1>1 DEF TypeOK
<1>6. QED
  BY <1>2, <1>3, <1>4, <1>5

\* An outdated entry is never the reason to expand a node.
THEOREM PopsCorrect == Spec => []PopsAreCurrent
<1>1. IInv => PopsAreCurrent
  BY FetchedCurrent DEF PopsAreCurrent
<1>2. QED
  BY <1>1, Invariance, PTL

-----------------------------------------------------------------------------
(* The parents.                                                            *)

\* Costs do not fall from a node to its parent's.
ParentsBelow ==
  \A s \in State : \/ parent[s] = None
                   \/ /\ Reached(s) /\ parent[s] \in State /\ Reached(parent[s])
                      /\ g[parent[s]] <= g[s]

PInv == ParentsBelow /\ ParentsHaveNoCycle

\* No parent has changed.
LEMMA ParentsKept ==
  ASSUME PInv, UNCHANGED <<g, parent>>, \A s \in State : Reached(s)' <=> Reached(s)
  PROVE  PInv'
<1>1. ParentsBelow'
  BY DEF PInv, ParentsBelow
<1>2. ParentsHaveNoCycle'
  BY DEF PInv, ParentsHaveNoCycle
<1>3. QED
  BY <1>1, <1>2 DEF PInv

\* A circle of parents that is closed by t leads, from the node that t was
\* reached from, over nodes below the old cost of t; one of them would have a
\* parent that is not.
LEMMA OpeningPInv ==
  ASSUME IInv, PInv, NEW o \in Op, NEW t, NEW e, Opens(o, t, e)
  PROVE  PInv'
<1>1. TypeOK /\ node \in State /\ t \in State /\ node_status[node] = "closed"
  BY Operator DEF Opens
<1>2. g[node] \in Nat /\ Cost[o] \in Nat /\ g_over(o) \in Nat /\ g[node] <= g_over(o)
  <2>1. g[node] \in Nat /\ Cost[o] \in Nat /\ g_over(o) \in Nat
    BY Operator DEF Opens
  <2>2. QED
    BY <2>1 DEF g_over
<1>3. \A s \in State : g[s] \in Nat \cup {-1}
  BY <1>1, Types
<1>4. /\ node_status'[t] = "open" /\ g'[t] = g_over(o) /\ parent'[t] = node
      /\ \A s \in State : s # t => /\ node_status'[s] = node_status[s]
                                   /\ g'[s] = g[s] /\ parent'[s] = parent[s]
  BY <1>1 DEF Opens, SetNode, TypeOK
<1>5. node_status[t] = "new" \/ (Reached(t) /\ g_over(o) < g[t])
  BY DEF Opens, Better, Reached
<1>6. t # node
  BY <1>1, <1>2, <1>5 DEF Reached
<1>7. ParentsBelow'
  <2>1. SUFFICES ASSUME NEW s \in State, parent'[s] # None
                 PROVE  /\ node_status'[s] \in {"open", "closed"}
                        /\ parent'[s] \in State
                        /\ node_status'[parent'[s]] \in {"open", "closed"}
                        /\ g'[parent'[s]] <= g'[s]
    BY DEF ParentsBelow, Reached
  <2>2. CASE s = t
    <3>1. g'[node] = g[node] /\ node_status'[node] = "closed"
      BY <1>1, <1>4, <1>6
    <3>2. QED
      BY <1>1, <1>2, <1>4, <2>2, <3>1
  <2>3. CASE s # t
    <3>1. parent'[s] = parent[s] /\ g'[s] = g[s] /\ node_status'[s] = node_status[s]
      BY <1>4, <2>3
    <3>2. Reached(s) /\ parent[s] \in State /\ Reached(parent[s]) /\ g[parent[s]] <= g[s]
      BY <2>1, <3>1 DEF PInv, ParentsBelow
    <3>3. CASE parent[s] # t
      BY <1>4, <3>1, <3>2, <3>3 DEF Reached
    <3>4. CASE parent[s] = t
      <4>1. g_over(o) < g[t] /\ g[t] <= g[s]
        BY <1>5, <3>2, <3>4 DEF Reached
      <4>2. g_over(o) <= g[s]
        BY <1>1, <1>2, <1>3, <4>1
      <4>3. QED
        BY <1>4, <3>1, <3>2, <3>4, <4>2 DEF Reached
    <3>5. QED
      BY <3>3, <3>4
  <2>4. QED
    BY <2>2, <2>3
<1>8. ParentsHaveNoCycle'
  <2>1. SUFFICES ASSUME NEW T \in SUBSET State, \A s \in T : Reached(s)', T # {},
                        \A s \in T : parent'[s] \in T
                 PROVE  FALSE
    BY DEF ParentsHaveNoCycle
  <2>2. CASE t \notin T
    BY <1>4, <2>1, <2>2 DEF PInv, ParentsHaveNoCycle, Reached
  <2>3. CASE t \in T
    <3>1. node \in T \ {t}
      BY <1>4, <1>6, <2>1, <2>3
    <3>2. \A s \in T \ {t} : Reached(s) /\ parent[s] \in T
      BY <1>4, <2>1 DEF Reached
    <3>3. CASE node_status[t] = "new"
      <4>1. PICK s \in T \ {t} : parent[s] \notin T \ {t}
        BY <2>1, <3>1, <3>2 DEF PInv, ParentsHaveNoCycle
      <4>2. parent[s] = t
        BY <3>2, <4>1
      <4>3. Reached(t) \/ t = None
        BY <4>2 DEF PInv, ParentsBelow
      <4>4. QED
        BY <1>1, <3>3, <4>3, TaskAssumption DEF Reached
    <3>4. CASE Reached(t) /\ g_over(o) < g[t]
      <4> DEFINE U == {s \in T \ {t} : g[s] < g[t]}
      <4>1. g[node] < g[t]
        BY <1>1, <1>2, <1>3, <3>4
      <4>2. node \in U /\ U \subseteq State /\ \A s \in U : Reached(s)
        BY <3>1, <3>2, <4>1
      <4>3. PICK s \in U : parent[s] \notin U
        <5> HIDE DEF U
        <5>1. QED
          BY <4>2 DEF PInv, ParentsHaveNoCycle
      <4>4. s \in State /\ parent[s] \in State /\ g[s] < g[t]
        BY <3>2, <4>3
      <4>5. g[parent[s]] <= g[s]
        BY <4>4, TaskAssumption DEF PInv, ParentsBelow
      <4>6. g[parent[s]] < g[t] /\ parent[s] # t
        BY <1>1, <1>3, <4>4, <4>5
      <4>7. QED
        BY <3>2, <4>3, <4>6
    <3>5. QED
      BY <1>5, <3>3, <3>4
  <2>4. QED
    BY <2>2, <2>3
<1>9. QED
  BY <1>7, <1>8 DEF PInv

\* Every step keeps the parents in order.
LEMMA StepPInv == IInv /\ PInv /\ [Next]_vars => PInv'
<1> SUFFICES ASSUME IInv, PInv, [Next]_vars
             PROVE  PInv'
  OBVIOUS
<1>1. CASE Initialize
  <2>1. /\ TypeOK /\ UNCHANGED parent
        /\ \A s \in State : node_status[s] = "new"
    BY <1>1 DEF IInv, Phases, Initialize
  <2>2. \A s \in State : parent[s] = None
    BY <2>1 DEF PInv, ParentsBelow, Reached
  <2>3. \A s \in State : parent'[s] = None
    BY <2>1, <2>2
  <2>4. ParentsBelow'
    BY <2>3 DEF ParentsBelow
  <2>5. ParentsHaveNoCycle'
    <3>1. ASSUME NEW T \in SUBSET State, NEW s \in T
          PROVE  parent'[s] \notin T
      BY <2>3, TaskAssumption
    <3>2. ASSUME NEW T \in SUBSET State, T # {}
          PROVE  \E s \in T : parent'[s] \notin T
      BY <3>1, <3>2
    <3>3. QED
      BY <3>2 DEF ParentsHaveNoCycle
  <2>6. QED
    BY <2>4, <2>5 DEF PInv
<1>2. CASE FetchNode
  <2>1. PICK e \in open_list : node_status' = [node_status EXCEPT ![e.state] = "closed"]
    BY <1>2 DEF FetchNode, Minima
  <2>2. \A s \in State : Reached(s)' <=> Reached(s)
    BY <2>1 DEF IInv, TypeOK, EntriesNotBelow, Reached
  <2>3. UNCHANGED <<g, parent>>
    BY <1>2 DEF FetchNode
  <2>4. QED
    BY <2>2, <2>3, ParentsKept
<1>3. ASSUME NEW o \in Op, NewDeadEnd(o)
      PROVE  PInv'
  <2>1. \A s \in State : Reached(s)' <=> Reached(s)
    BY <1>3 DEF NewDeadEnd, IInv, TypeOK, Reached
  <2>2. UNCHANGED <<g, parent>>
    BY <1>3 DEF NewDeadEnd
  <2>3. QED
    BY <2>1, <2>2, ParentsKept
<1>4. ASSUME NEW o \in Op, OpenNew(o) \/ Reopen(o)
      PROVE  PInv'
  BY <1>4, OpenNewOpens, ReopenOpens, OpeningPInv
<1>5. CASE UNCHANGED infos
  <2>1. UNCHANGED <<g, parent>> /\ \A s \in State : Reached(s)' <=> Reached(s)
    BY <1>5 DEF infos, Reached
  <2>2. QED
    BY <2>1, ParentsKept
<1>6. QED
  BY <1>1, <1>2, <1>3, <1>4, <1>5
  DEF Next, vars, SkipClosed, OpenListEmpty, OverBound, KnownDeadEnd, NotBetter, Expanded,
      TimeLimit, InTime

\* Following the parents of a node ends at the initial state, whatever has been
\* reopened and also when operators cost nothing: trace_path terminates.
THEOREM ParentsCorrect == Spec => []ParentsLeadBack
<1>1. Init => PInv
  BY DEF Init, PInv, ParentsBelow, ParentsHaveNoCycle, Reached
<1>2. PInv => ParentsLeadBack
  BY DEF PInv, ParentsLeadBack
<1>3. QED
  BY <1>1, <1>2, Invariance, StepPInv, PTL DEF Spec

-----------------------------------------------------------------------------
(* Consistent heuristics.                                                  *)

f_value(s) == g[s] + h[s]

\* With a consistent heuristic the values f of the nodes that are expanded do
\* not fall: no open entry is below a closed node, nor is the last one closed.
ClosedInOrder ==
  Consistent =>
    \A s \in State : node_status[s] = "closed" =>
      /\ \A e \in open_list : f_value(s) <= e.key[1]
      /\ pc = "expand" => f_value(s) <= f_value(node)

NeverReopens ==
  \A s \in State : node_status[s] = "closed" /\ node_status'[s] # "closed" => ~ Consistent

\* A node that is opened by a consistent heuristic was not closed.
LEMMA OpenedInOrder ==
  ASSUME IInv, ClosedInOrder, Consistent,
         NEW o \in Op, OpenNew(o) \/ Reopen(o)
  PROVE  /\ node_status[successor(node, o)] # "closed"
         /\ f_value(node) <= g_over(o) + h[successor(node, o)]
<1> DEFINE t == successor(node, o)
<1>1. Next_op(o) /\ pc = "expand" /\ (node_status[t] = "new" \/ Better(t, o))
  BY DEF OpenNew, Reopen, Next_op
<1>2. /\ TypeOK /\ node \in State /\ o \in Applicable(node) /\ t \in State
      /\ g[node] \in Nat /\ Cost[o] \in Nat /\ g_over(o) \in Nat
  BY <1>1, Operator
<1>3. h[node] \in Nat /\ h[t] \in Nat /\ g[t] \in Nat \cup {-1}
  BY <1>2, Types
<1>4. h[node] <= Cost[o] + h[t]
  BY <1>2 DEF Consistent
<1>5. f_value(node) <= g_over(o) + h[t]
  BY <1>2, <1>3, <1>4 DEF f_value, g_over
<1>6. node_status[t] # "closed"
  <2>1. SUFFICES ASSUME node_status[t] = "closed"
                 PROVE  FALSE
    OBVIOUS
  <2>2. f_value(t) <= f_value(node)
    BY <1>1, <1>2, <2>1 DEF ClosedInOrder
  <2>3. g_over(o) < g[t]
    BY <1>1, <2>1 DEF Better
  <2>4. QED
    BY <1>2, <1>3, <1>5, <2>2, <2>3 DEF f_value
<1>7. QED
  BY <1>5, <1>6

\* Every step keeps the order, and opens no closed node.
LEMMA StepInOrder ==
  ASSUME IInv, ClosedInOrder, [Next]_vars
  PROVE  ClosedInOrder' /\ NeverReopens
<1>1. TypeOK
  BY DEF IInv
<1>2. UNCHANGED <<h, gens>>
  BY DEF Next, vars, options, Initialize, SkipClosed, FetchNode, OpenListEmpty, OverBound,
         KnownDeadEnd, NewDeadEnd, OpenNew, Reopen, NotBetter, Expanded, TimeLimit, InTime
<1>3. Consistent' <=> Consistent
  BY <1>2 DEF Consistent, successor, canonical
<1>4. \A s \in State : h[s] \in Nat /\ g[s] \in Nat \cup {-1}
  BY <1>1, Types
<1>5. ASSUME NEW o \in Op, OpenNew(o) \/ Reopen(o)
      PROVE  ClosedInOrder' /\ NeverReopens
  <2> DEFINE t == successor(node, o)
  <2>1. PICK e : /\ open_list' = open_list \cup {e} /\ e.key[1] = g_over(o) + h[t]
                 /\ node_status' = [node_status EXCEPT ![t] = "open"]
                 /\ g' = [g EXCEPT ![t] = g_over(o)]
                 /\ pc' = pc /\ node' = node /\ pc = "expand" /\ Next_op(o)
    BY <1>5 DEF OpenNew, Reopen, SetNode, Entry, Next_op
  <2>2. CASE Consistent
    <3>1. node_status[t] # "closed" /\ f_value(node) <= e.key[1]
      BY <1>5, <2>1, <2>2, OpenedInOrder
    <3>2. t \in State /\ node \in State /\ node_status[node] = "closed"
      BY <2>1, Operator
    <3>3. ASSUME NEW s \in State, node_status'[s] = "closed"
          PROVE  /\ node_status[s] = "closed" /\ s # t /\ g'[s] = g[s] /\ f_value(s)' = f_value(s)
                 /\ f_value(s) \in Int
      <4>1. s # t /\ node_status[s] = "closed"
        BY <1>1, <2>1, <3>2, <3>3 DEF TypeOK
      <4>2. g'[s] = g[s]
        BY <1>1, <2>1, <3>2, <4>1 DEF TypeOK
      <4>3. h'[s] = h[s] /\ h[s] \in Nat /\ g[s] \in Nat \cup {-1}
        BY <1>2, <1>4
      <4>4. QED
        BY <4>1, <4>2, <4>3 DEF f_value
    <3>4. f_value(node)' = f_value(node) /\ f_value(node) \in Int
      <4>1. node # t
        BY <3>1, <3>2
      <4>2. g'[node] = g[node]
        BY <1>1, <2>1, <3>2, <4>1 DEF TypeOK
      <4>3. h' = h /\ h[node] \in Nat /\ g[node] \in Nat \cup {-1} /\ node' = node
        BY <1>2, <1>4, <2>1, <3>2
      <4>4. QED
        BY <4>2, <4>3 DEF f_value
    <3>5. e.key[1] \in Int
      <4>1. g_over(o) \in Nat
        BY <2>1, Operator
      <4>2. QED
        BY <1>4, <2>1, <3>2, <4>1
    <3>6. ASSUME NEW s \in State, node_status'[s] = "closed"
          PROVE  /\ \A x \in open_list' : f_value(s)' <= x.key[1]
                 /\ f_value(s)' <= f_value(node)'
      <4>1. /\ \A x \in open_list : f_value(s) <= x.key[1]
            /\ f_value(s) <= f_value(node) /\ f_value(s)' = f_value(s) /\ f_value(s) \in Int
        BY <2>1, <2>2, <3>3, <3>6 DEF ClosedInOrder
      <4>2. f_value(s) <= e.key[1]
        BY <3>1, <3>4, <3>5, <4>1
      <4>3. QED
        BY <2>1, <3>4, <4>1, <4>2
    <3>7. NeverReopens
      BY <1>1, <2>1, <3>1 DEF NeverReopens, TypeOK
    <3>8. QED
      BY <3>6, <3>7 DEF ClosedInOrder
  <2>3. CASE ~ Consistent
    BY <1>3, <2>3 DEF ClosedInOrder, NeverReopens
  <2>4. QED
    BY <2>2, <2>3
<1>6. CASE FetchNode
  <2>1. PICK e \in Minima :
          /\ node_status[e.state] # "closed" /\ open_list' = open_list \ {e}
          /\ node_status' = [node_status EXCEPT ![e.state] = "closed"]
          /\ node' = e.state /\ g' = g /\ pc = "fetch"
    BY <1>6 DEF FetchNode
  <2> DEFINE t == e.state
  <2>2. e \in open_list /\ t \in State /\ e.key[1] \in Nat
    BY <1>1, <2>1 DEF Minima, TypeOK
  <2>3. e.key[1] = f_value(t)
    BY <2>1, FetchedCurrent DEF f_value
  <2>4. \A x \in open_list : f_value(t) <= x.key[1]
    BY <1>1, <2>1, <2>3, MinimaLeast
  <2>5. NeverReopens
    BY <1>1, <2>1 DEF NeverReopens, TypeOK
  <2>6. ASSUME Consistent, NEW s \in State, node_status'[s] = "closed"
        PROVE  /\ \A x \in open_list' : f_value(s)' <= x.key[1]
               /\ f_value(s)' <= f_value(node)'
    <3>1. f_value(s)' = f_value(s) /\ f_value(node)' = f_value(t) /\ f_value(t) \in Int
      BY <1>2, <1>4, <2>1, <2>2 DEF f_value
    <3>2. CASE s = t
      BY <2>1, <2>4, <3>1, <3>2
    <3>3. CASE s # t
      <4>1. node_status[s] = "closed"
        BY <1>1, <2>1, <2>2, <2>6, <3>3 DEF TypeOK
      <4>2. /\ \A x \in open_list : f_value(s) <= x.key[1]
            /\ f_value(s) <= f_value(t)
        BY <2>2, <2>3, <2>6, <4>1 DEF ClosedInOrder
      <4>3. QED
        BY <2>1, <3>1, <4>2
    <3>4. QED
      BY <3>2, <3>3
  <2>7. QED
    BY <1>3, <2>5, <2>6 DEF ClosedInOrder
<1>7. CASE Initialize
  <2>1. \A s \in State : node_status[s] = "new" /\ node_status'[s] # "closed"
    BY <1>1, <1>7 DEF Initialize, IInv, Phases, TypeOK
  <2>2. QED
    BY <2>1 DEF ClosedInOrder, NeverReopens
<1>8. ASSUME NEW o \in Op, NewDeadEnd(o)
      PROVE  ClosedInOrder' /\ NeverReopens
  <2>1. \A s \in State : node_status'[s] = "closed" <=> node_status[s] = "closed"
    BY <1>1, <1>8 DEF NewDeadEnd, TypeOK
  <2>2. g' = g /\ open_list' = open_list /\ node' = node /\ pc' = pc
    BY <1>8 DEF NewDeadEnd
  <2>3. QED
    BY <1>2, <1>3, <2>1, <2>2 DEF ClosedInOrder, NeverReopens, f_value
<1>9. CASE /\ UNCHANGED <<node_status, g, node>> /\ open_list' \subseteq open_list
           /\ pc' = "expand" => pc = "expand"
  BY <1>2, <1>3, <1>9 DEF ClosedInOrder, NeverReopens, f_value
<1>10. CASE UNCHANGED vars
  BY <1>9, <1>10 DEF vars, infos
<1>11. CASE SkipClosed \/ OpenListEmpty \/ Expanded \/ TimeLimit \/ InTime
  BY <1>9, <1>11 DEF SkipClosed, OpenListEmpty, Expanded, TimeLimit, InTime, infos
<1>12. ASSUME NEW o \in Op, OverBound(o) \/ KnownDeadEnd(o) \/ NotBetter(o)
       PROVE  ClosedInOrder' /\ NeverReopens
  BY <1>9, <1>12 DEF OverBound, KnownDeadEnd, NotBetter, infos
<1>13. QED
  BY <1>5, <1>6, <1>7, <1>8, <1>10, <1>11, <1>12 DEF Next

\* With a consistent heuristic no closed node is opened again, for every task,
\* bound and group of symmetries: the reopening in step() is for the others.
THEOREM ConsistentCorrect == Spec => ConsistentNeverReopens
<1>1. Init => ClosedInOrder
  BY DEF Init, ClosedInOrder
<1>2. IInv /\ ClosedInOrder /\ [Next]_vars => ClosedInOrder' /\ [NeverReopens]_vars
  BY StepInOrder
<1>3. Spec => [][NeverReopens]_vars
  BY <1>1, <1>2, Invariance, PTL DEF Spec
<1>4. QED
  BY <1>3 DEF ConsistentNeverReopens, NeverReopens
-----------------------------------------------------------------------------
(* Runs of sequences of operators and their costs.                         *)

\* The state after o, None if o does not apply.
StepTo(r, o) == IF r # None /\ o \in Applicable(r) THEN Succ[<<r, o>>] ELSE None

RunIs(p, r) ==
  /\ r \in [0 .. Len(p) -> State \cup {None}] /\ r[0] = s0
  /\ \A i \in 1 .. Len(p) : r[i] = StepTo(r[i - 1], p[i])

SumIs(p, f) ==
  /\ f \in [0 .. Len(p) -> Nat] /\ f[0] = 0
  /\ \A i \in 1 .. Len(p) : f[i] = f[i - 1] + Cost[p[i]]

\* Applying an operator gives a state or none.
LEMMA StepType ==
  ASSUME NEW r, NEW o
  PROVE  StepTo(r, o) \in State \cup {None}
<1>1. o \in Applicable(r) => Succ[<<r, o>>] \in State
  BY TaskAssumption DEF Applicable
<1>2. QED
  BY <1>1 DEF StepTo

\* RunOf is the run that its recursion says.
LEMMA RunDefined ==
  ASSUME NEW p \in Seq(Op)
  PROVE  RunIs(p, RunOf(p))
<1> DEFINE n == Len(p)
           V == State \cup {None}
           step == [x \in V \X (1 .. n) |-> StepTo(x[1], p[x[2]])]
           Run(f) == [i \in 0 .. n |->
             IF i = 0 THEN s0
             ELSE IF f[i - 1] # None /\ p[i] \in Applicable(f[i - 1])
                  THEN Succ[<<f[i - 1], p[i]>>] ELSE None]
           run == CHOOSE f : f = Run(f)
<1>1. n \in Nat /\ s0 \in V
  BY TaskAssumption
<1>2. step \in [V \X (1 .. n) -> V]
  BY StepType
<1>3. HasPrefixFunction(n, V, s0, step)
  <2> HIDE DEF step, n, V
  <2>1. QED
    BY <1>1, <1>2, PrefixRecursion, Zenon
<1>4. PICK f \in [0 .. n -> V] : f[0] = s0 /\ \A i \in 1 .. n : f[i] = step[<<f[i - 1], i>>]
  BY <1>3, Zenon DEF HasPrefixFunction
<1>5. \A i \in 1 .. n : f[i] = StepTo(f[i - 1], p[i])
  <2> SUFFICES ASSUME NEW i \in 1 .. n
               PROVE  f[i] = StepTo(f[i - 1], p[i])
    OBVIOUS
  <2>1. f[i - 1] \in V
    BY <1>1, <1>4
  <2>2. <<f[i - 1], i>> \in V \X (1 .. n)
    BY <2>1
  <2>3. step[<<f[i - 1], i>>] = StepTo(f[i - 1], p[i])
    BY <2>2
  <2>4. QED
    BY <1>4, <2>3
<1>6. f = Run(f)
  BY <1>4, <1>5 DEF StepTo
<1>7. run = Run(run)
  <2> HIDE DEF Run
  <2>1. QED
    BY <1>6
<1>8. run[0] = s0 /\ \A i \in 1 .. n : run[i] = StepTo(run[i - 1], p[i])
  <2> HIDE DEF run
  <2>1. run[0] = s0
    BY <1>1, <1>7
  <2>2. ASSUME NEW i \in 1 .. n
        PROVE  run[i] = StepTo(run[i - 1], p[i])
    <3>1. i \in 0 .. n /\ i # 0
      BY <1>1
    <3>2. Run(run)[i] = IF run[i - 1] # None /\ p[i] \in Applicable(run[i - 1])
                        THEN Succ[<<run[i - 1], p[i]>>] ELSE None
      BY <3>1
    <3> HIDE DEF Run
    <3>3. QED
      BY <1>7, <3>2 DEF StepTo
  <2>3. QED
    BY <2>1, <2>2
<1>9. \A i \in 0 .. n : run[i] = f[i]
  <2> HIDE DEF run
  <2>1. run[0] = f[0] /\ \A i \in 1 .. n : run[i - 1] = f[i - 1] => run[i] = f[i]
    BY <1>1, <1>4, <1>5, <1>8
  <2>2. Alike(n, run, f)
    BY <2>1 DEF Alike
  <2>3. AgreeUpTo(n, run, f)
    BY <1>1, <2>2, PrefixUnique
  <2>4. QED
    BY <2>3 DEF AgreeUpTo
<1>10. run = f
  <2>1. run = [i \in 0 .. n |-> run[i]] /\ f = [i \in 0 .. n |-> f[i]]
    <3> HIDE DEF run
    <3>1. QED
      BY <1>4, <1>7
  <2> HIDE DEF run
  <2>2. QED
    BY <1>9, <2>1
<1>11. RunOf(p) = run
  BY DEF RunOf
<1>12. QED
  <2> HIDE DEF run
  <2>1. QED
    BY <1>4, <1>5, <1>10, <1>11 DEF RunIs

\* CostOf is the sum that its recursion says.
LEMMA SumDefined ==
  ASSUME NEW p \in Seq(Op)
  PROVE  \E f : SumIs(p, f) /\ CostOf(p) = f[Len(p)]
<1> DEFINE n == Len(p)
           step == [x \in Nat \X (1 .. n) |-> x[1] + Cost[p[x[2]]]]
           Sum(f) == [i \in 0 .. n |-> IF i = 0 THEN 0 ELSE f[i - 1] + Cost[p[i]]]
           sum == CHOOSE f : f = Sum(f)
<1>1. n \in Nat /\ 0 \in Nat /\ \A i \in 1 .. n : Cost[p[i]] \in Nat
  BY TaskAssumption
<1>2. step \in [Nat \X (1 .. n) -> Nat]
  BY <1>1
<1>3. HasPrefixFunction(n, Nat, 0, step)
  <2> HIDE DEF step, n
  <2>1. QED
    BY <1>1, <1>2, PrefixRecursion, Zenon
<1>4. PICK f \in [0 .. n -> Nat] : f[0] = 0 /\ \A i \in 1 .. n : f[i] = step[<<f[i - 1], i>>]
  BY <1>3, Zenon DEF HasPrefixFunction
<1>5. \A i \in 1 .. n : f[i] = f[i - 1] + Cost[p[i]]
  <2> SUFFICES ASSUME NEW i \in 1 .. n
               PROVE  f[i] = f[i - 1] + Cost[p[i]]
    OBVIOUS
  <2>1. f[i - 1] \in Nat
    BY <1>1, <1>4
  <2>2. <<f[i - 1], i>> \in Nat \X (1 .. n)
    BY <2>1
  <2>3. step[<<f[i - 1], i>>] = f[i - 1] + Cost[p[i]]
    BY <2>2
  <2>4. QED
    BY <1>4, <2>3
<1>6. f = Sum(f)
  BY <1>4, <1>5
<1>7. sum = Sum(sum)
  <2> HIDE DEF Sum
  <2>1. QED
    BY <1>6
<1>8. \A i \in 0 .. n : sum[i] = f[i]
  <2> HIDE DEF sum
  <2>1. sum[0] = f[0]
    BY <1>1, <1>6, <1>7
  <2>2. \A i \in 1 .. n : sum[i - 1] = f[i - 1] => sum[i] = f[i]
    BY <1>1, <1>5, <1>7
  <2>3. Alike(n, sum, f)
    BY <2>1, <2>2 DEF Alike
  <2>4. AgreeUpTo(n, sum, f)
    BY <1>1, <2>3, PrefixUnique
  <2>5. QED
    BY <2>4 DEF AgreeUpTo
<1>9. CostOf(p) = sum[n]
  BY DEF CostOf
<1>10. SumIs(p, f) /\ CostOf(p) = f[Len(p)]
  <2> HIDE DEF sum
  <2>1. QED
    BY <1>1, <1>4, <1>5, <1>8, <1>9 DEF SumIs
<1>11. QED
  BY <1>10, Zenon

\* Sums are unique.
LEMMA SumUnique ==
  ASSUME NEW p \in Seq(Op), NEW f, SumIs(p, f)
  PROVE  CostOf(p) = f[Len(p)]
<1>1. PICK e : SumIs(p, e) /\ CostOf(p) = e[Len(p)]
  BY SumDefined
<1>2. Len(p) \in Nat
  OBVIOUS
<1>3. Alike(Len(p), f, e)
  BY <1>1 DEF SumIs, Alike
<1>4. AgreeUpTo(Len(p), f, e)
  BY <1>2, <1>3, PrefixUnique
<1>5. QED
  BY <1>1, <1>2, <1>4 DEF AgreeUpTo

\* One more operator makes one more step and adds its cost.
LEMMA OneMore ==
  ASSUME NEW p \in Seq(Op), NEW o \in Op
  PROVE  /\ Append(p, o) \in Seq(Op)
         /\ RunOf(Append(p, o))[Len(Append(p, o))] = StepTo(RunOf(p)[Len(p)], o)
         /\ CostOf(Append(p, o)) = CostOf(p) + Cost[o]
<1> DEFINE n == Len(p)
           q == Append(p, o)
           r == RunOf(p)
           t == RunOf(q)
<1>1. /\ n \in Nat /\ q \in Seq(Op) /\ Len(q) = n + 1 /\ q[n + 1] = o
      /\ \A i \in 1 .. n : q[i] = p[i]
  OBVIOUS
<1> HIDE DEF q
<1>2. RunIs(p, r) /\ RunIs(q, t)
  BY <1>1, RunDefined
<1> HIDE DEF r, t
<1>3. /\ r[0] = s0 /\ \A i \in 1 .. n : r[i] = StepTo(r[i - 1], p[i])
      /\ t[0] = s0 /\ \A i \in 1 .. n + 1 : t[i] = StepTo(t[i - 1], q[i])
  BY <1>1, <1>2 DEF RunIs
<1>4. t[n] = r[n]
  <2>1. \A i \in 1 .. n : t[i - 1] = r[i - 1] => t[i] = r[i]
    BY <1>1, <1>3
  <2>2. Alike(n, t, r)
    BY <1>3, <2>1 DEF Alike
  <2>3. AgreeUpTo(n, t, r)
    BY <1>1, <2>2, PrefixUnique
  <2>4. QED
    BY <1>1, <2>3 DEF AgreeUpTo
<1>5. t[n + 1] = StepTo(r[n], o)
  <2>1. n + 1 \in 1 .. n + 1 /\ n + 1 - 1 = n
    BY <1>1
  <2>2. t[n + 1] = StepTo(t[n + 1 - 1], q[n + 1])
    BY <1>3, <2>1
  <2>3. QED
    BY <1>1, <1>4, <2>1, <2>2
<1>6. PICK f : SumIs(p, f) /\ CostOf(p) = f[Len(p)]
  BY SumDefined
<1>7. PICK e : SumIs(q, e) /\ CostOf(q) = e[Len(q)]
  BY <1>1, SumDefined
<1>8. /\ f[0] = 0 /\ \A i \in 1 .. n : f[i] = f[i - 1] + Cost[p[i]]
      /\ e[0] = 0 /\ \A i \in 1 .. n + 1 : e[i] = e[i - 1] + Cost[q[i]]
  BY <1>1, <1>6, <1>7 DEF SumIs
<1>9. e[n] = f[n]
  <2>1. \A i \in 1 .. n : e[i - 1] = f[i - 1] => e[i] = f[i]
    BY <1>1, <1>8
  <2>2. Alike(n, e, f)
    BY <1>8, <2>1 DEF Alike
  <2>3. AgreeUpTo(n, e, f)
    BY <1>1, <2>2, PrefixUnique
  <2>4. QED
    BY <1>1, <2>3 DEF AgreeUpTo
<1>10. e[n + 1] = f[n] + Cost[o]
  <2>1. n + 1 \in 1 .. n + 1 /\ n + 1 - 1 = n
    BY <1>1
  <2>2. e[n + 1] = e[n + 1 - 1] + Cost[q[n + 1]]
    BY <1>8, <2>1
  <2>3. QED
    BY <1>1, <1>9, <2>1, <2>2
<1>11. CostOf(q) = CostOf(p) + Cost[o]
  BY <1>1, <1>6, <1>7, <1>10
<1>12. t[Len(q)] = StepTo(r[Len(p)], o)
  BY <1>1, <1>5
<1>13. QED
  BY <1>1, <1>11, <1>12 DEF q, r, t

\* Without operators one stays at the initial state for nothing.
LEMMA NoOperators ==
  <<>> \in Seq(Op) /\ RunOf(<<>>)[Len(<<>>)] = s0 /\ CostOf(<<>>) = 0
<1> DEFINE p == <<>>
<1>1. p \in Seq(Op) /\ Len(p) = 0
  OBVIOUS
<1> HIDE DEF p
<1>2. RunIs(p, RunOf(p))
  BY <1>1, RunDefined
<1>3. RunOf(p)[0] = s0
  BY <1>2 DEF RunIs
<1>4. PICK f : SumIs(p, f) /\ CostOf(p) = f[Len(p)]
  BY <1>1, SumDefined
<1>5. CostOf(p) = 0
  BY <1>1, <1>4 DEF SumIs
<1>6. p \in Seq(Op) /\ RunOf(p)[Len(p)] = s0 /\ CostOf(p) = 0
  BY <1>1, <1>3, <1>5
<1>7. QED
  BY <1>6 DEF p

\* No plan is cheaper than HStar says.
LEMMA NoPlanCheaper ==
  ASSUME NEW p \in Seq(Op), RunOf(p)[Len(p)] \in Goal
  PROVE  HStar[s0] <= CostOf(p)
<1> DEFINE n == Len(p)
           r == RunOf(p)
<1>1. n \in Nat /\ r[n] \in Goal /\ \A i \in 1 .. n : p[i] \in Op
  OBVIOUS
<1>2. /\ r[0] = s0 /\ \A i \in 0 .. n : r[i] \in State \cup {None}
      /\ \A i \in 1 .. n : r[i] = StepTo(r[i - 1], p[i])
  <2>1. RunIs(p, r)
    BY RunDefined
  <2> HIDE DEF r
  <2>2. QED
    BY <2>1 DEF RunIs
<1>3. PICK f : SumIs(p, f) /\ CostOf(p) = f[n]
  BY SumDefined
<1>4. /\ f[0] = 0 /\ \A i \in 0 .. n : f[i] \in Nat
      /\ \A i \in 1 .. n : f[i] = f[i - 1] + Cost[p[i]]
  BY <1>3 DEF SumIs
<1> HIDE DEF r
<1>5. /\ Infinity \in Nat /\ s0 \in State /\ None \notin State /\ Goal \subseteq State
      /\ \A s \in State : HStar[s] \in Nat /\ HStar[s] <= Infinity
      /\ \A o \in Op : Cost[o] \in Nat
  BY TaskAssumption, PerfectAssumption
<1> DEFINE S == {i \in 0 .. n : r[i] = None \/ HStar[s0] <= f[i] + HStar[r[i]]}
<1>6. 0 \in S
  <2>1. HStar[s0] <= f[0] + HStar[r[0]] /\ 0 \in 0 .. n
    BY <1>1, <1>2, <1>4, <1>5
  <2>2. QED
    BY <2>1
<1>7. \A i \in 0 .. n - 1 : i \in S => i + 1 \in S
  <2> SUFFICES ASSUME NEW i \in 0 .. n - 1, i \in S, r[i + 1] # None
               PROVE  HStar[s0] <= f[i + 1] + HStar[r[i + 1]]
    BY <1>1
  <2> DEFINE o == p[i + 1]
             s == r[i]
             t == r[i + 1]
  <2>1. i + 1 \in 1 .. n /\ i + 1 - 1 = i /\ i \in 0 .. n /\ i + 1 \in 0 .. n
    BY <1>1
  <2>2. r[i + 1] = StepTo(r[i], o) /\ f[i + 1] = f[i] + Cost[o] /\ o \in Op
    <3>1. r[i + 1] = StepTo(r[i + 1 - 1], p[i + 1]) /\ f[i + 1] = f[i + 1 - 1] + Cost[p[i + 1]]
      BY <1>2, <1>4, <2>1
    <3>2. QED
      BY <1>1, <2>1, <3>1
  <2>3. s # None /\ o \in Applicable(s) /\ t = Succ[<<s, o>>]
    BY <2>2 DEF StepTo
  <2>4. s \in State /\ t \in State
    BY <1>2, <2>1, <2>3
  <2>5. HStar[t] < Infinity => HStar[s] <= Cost[o] + HStar[t]
    BY <2>3, <2>4, PerfectAssumption
  <2>6. HStar[s0] <= f[i] + HStar[s]
    BY <2>3
  <2>7. /\ HStar[s0] \in Nat /\ HStar[s] \in Nat /\ HStar[t] \in Nat /\ f[i] \in Nat
        /\ Cost[o] \in Nat /\ HStar[s0] <= Infinity /\ HStar[t] <= Infinity
    BY <1>4, <1>5, <2>1, <2>2, <2>4
  <2> HIDE DEF o, s, t
  <2>8. HStar[s0] <= f[i] + Cost[o] + HStar[t]
    BY <1>5, <2>5, <2>6, <2>7
  <2>9. QED
    BY <2>2, <2>8 DEF t
<1>8. n \in S
  <2> HIDE DEF S
  <2>1. \A i \in 0 .. n : i \in S
    BY <1>1, <1>6, <1>7, Upward
  <2>2. QED
    BY <1>1, <2>1
<1>9. r[n] # None /\ HStar[r[n]] = 0 /\ f[n] \in Nat
  BY <1>1, <1>4, <1>5, PerfectAssumption
<1>10. QED
  BY <1>3, <1>5, <1>8, <1>9
-----------------------------------------------------------------------------
(* The plan that is traced back.                                           *)

\* Every node that was reached is the start or was created from its parent,
\* at no more than its own cost.
CreatorsInv ==
  \A s \in State :
    /\ creator[s] = None <=> parent[s] = None
    /\ Reached(s) =>
         \/ creator[s] = None /\ s = Start
         \/ /\ creator[s] \in Applicable(parent[s])
            /\ s = successor(parent[s], creator[s])
            /\ g[parent[s]] + Cost[creator[s]] <= g[s]

TraceInv == IInv /\ PInv /\ CreatorsInv

\* Where a trace ends.
Roots == {s \in State : creator[s] = None}

\* What led to a node.
Led(s) ==
  /\ Reached(s) /\ parent[s] \in State /\ Reached(parent[s])
  /\ creator[s] \in Op /\ creator[s] \in Applicable(parent[s])
  /\ Succ[<<parent[s], creator[s]>>] \in State
  /\ canonical(Succ[<<parent[s], creator[s]>>]) = s
  /\ g[parent[s]] + Cost[creator[s]] <= g[s]

\* A node that is not a root was led to.
LEMMA NodeLed ==
  ASSUME TraceInv, NEW s \in State, s \notin Roots
  PROVE  Led(s)
<1>1. creator[s] # None /\ parent[s] # None
  BY DEF Roots, TraceInv, CreatorsInv
<1>2. Reached(s) /\ parent[s] \in State /\ Reached(parent[s])
  BY <1>1 DEF TraceInv, PInv, ParentsBelow
<1>3. /\ creator[s] \in Applicable(parent[s]) /\ s = successor(parent[s], creator[s])
      /\ g[parent[s]] + Cost[creator[s]] <= g[s]
  BY <1>1, <1>2 DEF TraceInv, CreatorsInv
<1>4. creator[s] \in Op /\ Succ[<<parent[s], creator[s]>>] \in State
  BY <1>3, TaskAssumption DEF Applicable
<1>5. QED
  BY <1>2, <1>3, <1>4 DEF Led, successor

\* The trace of every state ends.
LEMMA TracesEnd ==
  ASSUME TraceInv
  PROVE  Grounded(State, Roots, parent)
<1>1. \A s \in State \ Roots : parent[s] \in State /\ Reached(s)
  BY NodeLed DEF Led
<1>2. ASSUME NEW T \in SUBSET State, T # {}
      PROVE  \E s \in T : s \in Roots \/ parent[s] \notin T
  <2>1. SUFFICES ASSUME \A s \in T : s \notin Roots
                 PROVE  \E s \in T : parent[s] \notin T
    OBVIOUS
  <2>2. T \subseteq {s \in State : Reached(s)}
    BY <1>1, <2>1
  <2>3. QED
    BY <1>2, <2>2 DEF TraceInv, PInv, ParentsHaveNoCycle
<1>3. QED
  BY <1>1, <1>2 DEF Grounded

\* The operators X along the parents.
PathAlong(X, f) ==
  [s \in State |-> IF creator[s] = None THEN <<>> ELSE Append(f[parent[s]], X[s])]

\* The recursion of trace_path over the parents has a solution.
LEMMA PathExists ==
  ASSUME TraceInv, NEW X \in [State -> Op \cup {None}]
  PROVE  \E f : f = PathAlong(X, f)
<1> DEFINE V == Seq(Op \cup {None})
           base == [s \in State |-> <<>>]
           step == [x \in State \X V |-> Append(x[2], X[x[1]])]
<1>1. base \in [State -> V] /\ step \in [State \X V -> V]
  OBVIOUS
<1>2. HasParentFunction(State, V, Roots, parent, base, step)
  <2> HIDE DEF base, step, V
  <2>1. QED
    BY <1>1, TracesEnd, ParentRecursion, Zenon
<1>3. PICK f \in [State -> V] : SolvesOn(State, Roots, parent, base, step, f)
  <2> HIDE DEF base, step, V
  <2>1. QED
    BY <1>2, Zenon DEF HasParentFunction
<1>4. ASSUME NEW s \in State
      PROVE  f[s] = IF creator[s] = None THEN <<>> ELSE Append(f[parent[s]], X[s])
  <2>1. f[s] = IF s \in Roots THEN base[s] ELSE step[<<s, f[parent[s]]>>]
    BY <1>3 DEF SolvesOn
  <2>2. s \in Roots <=> creator[s] = None
    BY DEF Roots
  <2>3. CASE s \in Roots
    BY <2>1, <2>2, <2>3
  <2>4. CASE s \notin Roots
    <3>1. parent[s] \in State
      BY <2>4, NodeLed DEF Led
    <3>2. <<s, f[parent[s]]>> \in State \X V
      BY <3>1
    <3>3. step[<<s, f[parent[s]]>>] = Append(f[parent[s]], X[s])
      BY <3>2
    <3> HIDE DEF step, base
    <3>4. QED
      BY <2>1, <2>2, <2>4, <3>3
  <2>5. QED
    BY <2>3, <2>4
<1>5. f = PathAlong(X, f)
  <2>1. f = [s \in State |-> f[s]]
    OBVIOUS
  <2> HIDE DEF base, step, V
  <2>2. QED
    BY <1>4, <2>1 DEF PathAlong
<1>6. QED
  BY <1>5

\* The states real lie between the operators of path, which are no dearer than
\* those that created the nodes.
Traces(real, path) ==
  \A s \in State : Reached(s) =>
    IF creator[s] = None THEN real[s] = s0 /\ path[s] = <<>>
    ELSE \E q \in Applicable(real[parent[s]]) :
           /\ Succ[<<real[parent[s]], q>>] = real[s] /\ Cost[q] <= Cost[creator[s]]
           /\ path[s] = Append(path[parent[s]], q)

\* The operators p lead to the state r at a cost of at most c.
LeadsTo(p, r, c) ==
  p \in Seq(Op) /\ RunOf(p)[Len(p)] = r /\ CostOf(p) \in Nat /\ CostOf(p) <= c

\* By the parents, each trace leads to its node.
LEMMA TraceLeads ==
  ASSUME TraceInv, NEW real, NEW path, Traces(real, path),
         \A s \in State : real[s] \in State, NEW goal \in State, Reached(goal)
  PROVE  LeadsTo(path[goal], real[goal], g[goal])
<1> DEFINE T == {s \in State : Reached(s) /\ ~ LeadsTo(path[s], real[s], g[s])}
<1>1. ASSUME T # {}
      PROVE  FALSE
  <2>1. T \in SUBSET State
    OBVIOUS
  <2>2. PICK s \in T : s \in Roots \/ parent[s] \notin T
    <3> HIDE DEF T
    <3>1. QED
      BY <1>1, <2>1, TracesEnd DEF Grounded
  <2>3. s \in State /\ Reached(s) /\ ~ LeadsTo(path[s], real[s], g[s]) /\ g[s] \in Nat
    BY <2>2 DEF TraceInv, IInv, Distances
  <2>4. CASE creator[s] = None
    <3>1. real[s] = s0 /\ path[s] = <<>>
      BY <2>3, <2>4 DEF Traces
    <3>2. LeadsTo(path[s], real[s], g[s])
      BY <2>3, <3>1, NoOperators DEF LeadsTo
    <3>3. QED
      BY <2>3, <3>2
  <2>5. CASE creator[s] # None
    <3> DEFINE t == parent[s]
    <3>1. Led(s) /\ s \notin Roots
      BY <2>3, <2>5, NodeLed DEF Roots
    <3>2. LeadsTo(path[t], real[t], g[t]) /\ g[t] \in Nat
      BY <2>2, <3>1 DEF Led, TraceInv, IInv, Distances
    <3>3. PICK q \in Applicable(real[t]) :
            /\ Succ[<<real[t], q>>] = real[s] /\ Cost[q] <= Cost[creator[s]]
            /\ path[s] = Append(path[t], q)
      BY <2>3, <2>5 DEF Traces
    <3>4. q \in Op /\ real[t] # None /\ Cost[q] \in Nat /\ Cost[creator[s]] \in Nat
      BY <3>1, TaskAssumption DEF Led, Applicable
    <3>5. /\ path[s] \in Seq(Op)
          /\ RunOf(path[s])[Len(path[s])] = StepTo(RunOf(path[t])[Len(path[t])], q)
          /\ CostOf(path[s]) = CostOf(path[t]) + Cost[q]
      BY <3>2, <3>3, <3>4, OneMore DEF LeadsTo
    <3>6. RunOf(path[s])[Len(path[s])] = real[s]
      BY <3>2, <3>3, <3>4, <3>5 DEF LeadsTo, StepTo
    <3>7. CostOf(path[t]) \in Nat /\ CostOf(path[t]) <= g[t] /\ g[t] + Cost[creator[s]] <= g[s]
      BY <3>1, <3>2 DEF LeadsTo, Led
    <3> HIDE DEF t
    <3>8. CostOf(path[s]) \in Nat /\ CostOf(path[s]) <= g[s]
      BY <2>3, <3>2, <3>3, <3>4, <3>5, <3>7
    <3>9. QED
      BY <2>3, <3>5, <3>6, <3>8 DEF LeadsTo
  <2>6. QED
    BY <2>4, <2>5
<1>2. QED
  BY <1>1

\* What PlanIsOptimal asks of a plan.
Optimum(p) ==
  p # None /\ RunOf(p)[Len(p)] \in Goal /\ CostOf(p) = HStar[s0]

\* A trace to a goal state at the cost of a cheapest plan is such a plan.
LEMMA TraceOptimal ==
  ASSUME NEW p, NEW r \in Goal, LeadsTo(p, r, HStar[s0])
  PROVE  Optimum(p)
<1>1. p \in Seq(Op) /\ RunOf(p)[Len(p)] = r /\ CostOf(p) \in Nat /\ CostOf(p) <= HStar[s0]
  BY DEF LeadsTo
<1>2. HStar[s0] <= CostOf(p)
  BY <1>1, NoPlanCheaper
<1>3. HStar[s0] \in 0 .. Infinity /\ Infinity \in Nat /\ p # None
  BY <1>1, TaskAssumption, PerfectAssumption
<1>4. QED
  BY <1>1, <1>2, <1>3 DEF Optimum
\* Without generators each state stands for itself.
LEMMA NoGenerators ==
  ASSUME TypeOK, gens = <<>>, NEW s \in State
  PROVE  canonical(s) = s
<1> DEFINE After(f) == [i \in 0 .. Len(gens) |->
             IF i = 0 THEN Identity(State)
             ELSE IF gens[i][f[i - 1][s]] < f[i - 1][s] THEN Then(f[i - 1], gens[i])
                  ELSE f[i - 1]]
           after == CHOOSE f : f = After(f)
           e == [i \in 0 .. 0 |-> Identity(State)]
<1>1. gens \in Groups /\ Len(gens) = 0
  BY DEF TypeOK
<1>2. ASSUME NEW f
      PROVE  After(f) = e
  BY <1>1
<1>3. after = e
  <2>1. e = After(e)
    BY <1>2
  <2>2. after = After(after)
    <3> HIDE DEF After, e
    <3>1. QED
      BY <2>1
  <2>3. After(after) = e
    <3> HIDE DEF after
    <3>1. QED
      BY <1>2
  <2> HIDE DEF after, After, e
  <2>4. QED
    BY <2>2, <2>3
<1>4. Pass(gens, State, s) = after[0]
  BY <1>1 DEF Pass
<1>5. Pass(gens, State, s) = Identity(State)
  <2> HIDE DEF after
  <2>1. QED
    BY <1>3, <1>4
<1>6. Trace(gens, State)[s] = Identity(State)
  BY <1>1, <1>5, Traced, IdentitySymmetry DEF TraceIs
<1>7. QED
  BY <1>6, IdentitySymmetry DEF canonical, get_canonical_representative

\* A node without a creator is the start.
LEMMA RootIsStart ==
  ASSUME TraceInv, NEW s \in State, Reached(s), creator[s] = None
  PROVE  s = Start
<1>1. creator[s] \notin Applicable(parent[s])
  BY TaskAssumption DEF Applicable
<1>2. QED
  BY <1>1 DEF TraceInv, CreatorsInv

\* The trace of a search without symmetries.
LEMMA PlainTrace ==
  ASSUME TraceInv, gens = <<>>, NEW goal \in State, Reached(goal)
  PROVE  LeadsTo(TracePath(goal), goal, g[goal])
<1> DEFINE path == CHOOSE f : f = PathAlong(creator, f)
           real == [s \in State |-> s]
<1>1. TypeOK /\ creator \in [State -> Op \cup {None}] /\ s0 \in State
  BY TaskAssumption DEF TraceInv, IInv, TypeOK
<1>2. path = PathAlong(creator, path)
  <2>1. \E f : f = PathAlong(creator, f)
    BY <1>1, PathExists
  <2>2. QED
    BY <2>1
<1>3. TracePath(goal) = path[goal]
  BY DEF TracePath, PathAlong
<1> HIDE DEF path
<1>4. ASSUME NEW s \in State, Reached(s)
      PROVE  IF creator[s] = None THEN real[s] = s0 /\ path[s] = <<>>
             ELSE \E q \in Applicable(real[parent[s]]) :
                    /\ Succ[<<real[parent[s]], q>>] = real[s] /\ Cost[q] <= Cost[creator[s]]
                    /\ path[s] = Append(path[parent[s]], q)
  <2>1. path[s] = IF creator[s] = None THEN <<>> ELSE Append(path[parent[s]], creator[s])
    BY <1>2 DEF PathAlong
  <2>2. CASE creator[s] = None
    <3>1. s = s0
      BY <1>1, <1>4, <2>2, RootIsStart, NoGenerators DEF Start
    <3>2. QED
      BY <2>1, <2>2, <3>1
  <2>3. CASE creator[s] # None
    <3>1. Led(s)
      BY <2>3, NodeLed DEF Roots
    <3>2. Succ[<<parent[s], creator[s]>>] = s
      BY <1>1, <3>1, NoGenerators DEF Led
    <3>3. Cost[creator[s]] \in Nat /\ parent[s] \in State /\ creator[s] \in Applicable(parent[s])
      BY <3>1, TaskAssumption DEF Led
    <3>4. real[parent[s]] = parent[s] /\ real[s] = s /\ Cost[creator[s]] <= Cost[creator[s]]
      BY <3>3
    <3>5. QED
      BY <2>1, <2>3, <3>2, <3>3, <3>4
  <2>4. QED
    BY <2>2, <2>3
<1> HIDE DEF real
<1>5. Traces(real, path)
  BY <1>4 DEF Traces
<1>6. \A s \in State : real[s] = s
  BY DEF real
<1>7. LeadsTo(path[goal], real[goal], g[goal])
  BY <1>5, <1>6, TraceLeads
<1>8. QED
  BY <1>3, <1>6, <1>7

\* The permutations that are composed along the parents.
MovedBy(f) ==
  [s \in State |-> IF creator[s] = None THEN BackTo(s, s0)
                   ELSE Then(BackTo(s, Succ[<<parent[s], creator[s]>>]), f[parent[s]])]

\* Permutations between any two states are symmetries.
LEMMA BackToSymmetry ==
  ASSUME TypeOK, NEW s \in State, NEW t \in State
  PROVE  BackTo(s, t) \in Symmetries
<1>1. gens \in Groups
  BY DEF TypeOK
<1>2. Trace(gens, State)[s] \in Symmetries /\ Trace(gens, State)[t] \in Symmetries
  BY <1>1, Traced DEF TraceIs
<1>3. Then(Trace(gens, State)[s], Inverted(Trace(gens, State)[t])) \in Symmetries
  BY <1>2, ThenSymmetry, InvertedSymmetry
<1>4. QED
  BY <1>3, IdentitySymmetry DEF BackTo, create_permutation_from_state_to_state

\* So has that of the permutations.
LEMMA MovedExists ==
  ASSUME TraceInv
  PROVE  \E f : f = MovedBy(f)
<1> DEFINE base == [s \in State |-> BackTo(s, s0)]
           step == [x \in State \X Symmetries |->
                      IF x[1] \in Roots THEN x[2]
                      ELSE Then(BackTo(x[1], Succ[<<parent[x[1]], creator[x[1]]>>]), x[2])]
<1>1. base \in [State -> Symmetries]
  BY BackToSymmetry, TaskAssumption DEF TraceInv, IInv
<1>2. step \in [State \X Symmetries -> Symmetries]
  <2>1. ASSUME NEW s \in State, NEW p \in Symmetries, s \notin Roots
        PROVE  Then(BackTo(s, Succ[<<parent[s], creator[s]>>]), p) \in Symmetries
    BY <2>1, NodeLed, BackToSymmetry, ThenSymmetry DEF Led, TraceInv, IInv
  <2>2. ASSUME NEW x \in State \X Symmetries
        PROVE  (IF x[1] \in Roots THEN x[2]
                ELSE Then(BackTo(x[1], Succ[<<parent[x[1]], creator[x[1]]>>]), x[2])) \in Symmetries
    <3>1. x[1] \in State /\ x[2] \in Symmetries
      OBVIOUS
    <3>2. QED
      BY <2>1, <3>1
  <2>3. QED
    BY <2>2
<1>3. HasParentFunction(State, Symmetries, Roots, parent, base, step)
  <2> HIDE DEF base, step
  <2>1. QED
    BY <1>1, <1>2, TracesEnd, ParentRecursion, Zenon
<1>4. PICK f \in [State -> Symmetries] : SolvesOn(State, Roots, parent, base, step, f)
  <2> HIDE DEF base, step
  <2>1. QED
    BY <1>3, Zenon DEF HasParentFunction
<1>5. ASSUME NEW s \in State
      PROVE  f[s] = IF creator[s] = None THEN BackTo(s, s0)
                    ELSE Then(BackTo(s, Succ[<<parent[s], creator[s]>>]), f[parent[s]])
  <2>1. f[s] = IF s \in Roots THEN base[s] ELSE step[<<s, f[parent[s]]>>]
    BY <1>4 DEF SolvesOn
  <2>2. s \in Roots <=> creator[s] = None
    BY DEF Roots
  <2>3. CASE s \in Roots
    BY <2>1, <2>2, <2>3
  <2>4. CASE s \notin Roots
    <3>1. parent[s] \in State
      BY <2>4, NodeLed DEF Led
    <3>2. <<s, f[parent[s]]>> \in State \X Symmetries
      BY <3>1
    <3>3. step[<<s, f[parent[s]]>>] =
            Then(BackTo(s, Succ[<<parent[s], creator[s]>>]), f[parent[s]])
      BY <2>4, <3>2
    <3> HIDE DEF step, base
    <3>4. QED
      BY <2>1, <2>2, <2>4, <3>3
  <2>5. QED
    BY <2>3, <2>4
<1>6. f = MovedBy(f)
  <2>1. f = [s \in State |-> f[s]]
    OBVIOUS
  <2> HIDE DEF base, step
  <2>2. QED
    BY <1>5, <2>1 DEF MovedBy
<1>7. QED
  BY <1>6
\* The real state of a node, and an operator of the cost of its creator from
\* the real state of its parent.
RealIs(real, s) ==
  /\ creator[s] = None => real[s] = s0
  /\ creator[s] # None => \E q \in Applicable(real[parent[s]]) :
       Succ[<<real[parent[s]], q>>] = real[s] /\ Cost[q] = Cost[creator[s]]

\* Since the permutation of a node extends that of its parent, their real
\* states lie next to each other.
LEMMA RealStates ==
  ASSUME TraceInv, NEW goal
  PROVE  /\ \A s \in State : RealState(goal)[s] \in State
         /\ \A s \in State : s \in Goal => RealState(goal)[s] \in Goal
         /\ \A s \in State : Reached(s) => RealIs(RealState(goal), s)
<1> DEFINE moved == CHOOSE f : f = MovedBy(f)
           real == RealState(goal)
<1>1. TypeOK /\ s0 \in State
  BY TaskAssumption DEF TraceInv, IInv
<1>2. moved = MovedBy(moved)
  BY MovedExists
<1>3. real = [s \in State |-> moved[s][s]]
  BY DEF RealState, MovedBy
<1> HIDE DEF moved, real
<1>4. ASSUME NEW s \in State
      PROVE  moved[s] = IF creator[s] = None THEN BackTo(s, s0)
                        ELSE Then(BackTo(s, Succ[<<parent[s], creator[s]>>]), moved[parent[s]])
  BY <1>2 DEF MovedBy
<1> DEFINE T == {s \in State : moved[s] \notin Symmetries}
<1>5. ASSUME T # {}
      PROVE  FALSE
  <2>1. T \in SUBSET State
    OBVIOUS
  <2>2. PICK s \in T : s \in Roots \/ parent[s] \notin T
    <3> HIDE DEF T
    <3>1. QED
      BY <1>5, <2>1, TracesEnd DEF Grounded
  <2>3. CASE creator[s] = None
    BY <1>1, <1>4, <2>2, <2>3, BackToSymmetry
  <2>4. CASE creator[s] # None
    <3>1. Led(s) /\ s \notin Roots
      BY <2>2, <2>4, NodeLed DEF Roots
    <3>2. moved[parent[s]] \in Symmetries
      BY <2>2, <3>1 DEF Led
    <3>3. BackTo(s, Succ[<<parent[s], creator[s]>>]) \in Symmetries
      BY <1>1, <2>2, <3>1, BackToSymmetry DEF Led
    <3>4. moved[s] \in Symmetries
      BY <1>4, <2>2, <2>4, <3>2, <3>3, ThenSymmetry
    <3>5. QED
      BY <2>2, <3>4
  <2>5. QED
    BY <2>3, <2>4
<1>6. \A s \in State : moved[s] \in Symmetries
  BY <1>5
<1>7. ASSUME NEW s \in State
      PROVE  real[s] = moved[s][s] /\ real[s] \in State /\ (s \in Goal => real[s] \in Goal)
  BY <1>3, <1>6 DEF Symmetries, IsSymmetry
<1>8. ASSUME NEW s \in State, Reached(s)
      PROVE  RealIs(real, s)
  <2>1. CASE creator[s] = None
    <3>1. s = canonical(s0)
      BY <1>8, <2>1, RootIsStart DEF Start
    <3>2. BackTo(s, s0)[s] = s0
      BY <1>1, <3>1, BackToIs
    <3>3. real[s] = s0
      BY <1>4, <1>7, <2>1, <3>2
    <3>4. QED
      BY <2>1, <3>3 DEF RealIs
  <2>2. CASE creator[s] # None
    <3> DEFINE r == parent[s]
               o == creator[s]
               t == Succ[<<r, o>>]
    <3>1. Led(s)
      BY <2>2, NodeLed DEF Roots
    <3>2. r \in State /\ o \in Applicable(r) /\ t \in State /\ canonical(t) = s
      BY <3>1 DEF Led
    <3>3. BackTo(s, t) \in Symmetries /\ BackTo(s, t)[s] = t
      BY <1>1, <3>2, BackToIs
    <3>4. moved[s] = Then(BackTo(s, t), moved[r]) /\ moved[r] \in Symmetries
      BY <1>4, <1>6, <2>2, <3>2
    <3>5. moved[s][s] = moved[r][t]
      BY <3>3, <3>4, ThenSymmetry
    <3>6. real[s] = moved[r][t] /\ real[r] = moved[r][r]
      BY <1>7, <3>2, <3>5
    <3>7. PICK q \in Applicable(moved[r][r]) :
            Succ[<<moved[r][r], q>>] = moved[r][t] /\ Cost[q] = Cost[o]
      BY <3>2, <3>4, Counterpart
    <3>8. \E x \in Applicable(real[r]) : Succ[<<real[r], x>>] = real[s] /\ Cost[x] = Cost[o]
      BY <3>6, <3>7
    <3>9. QED
      BY <2>2, <3>8 DEF RealIs
  <2>3. QED
    BY <2>1, <2>2
<1>9. QED
  BY <1>7, <1>8 DEF real

\* Between two states with an operator there is a cheapest one.
LEMMA CheapestFound ==
  ASSUME NEW s \in State, NEW r \in State, NEW q \in Applicable(s), Succ[<<s, q>>] = r
  PROVE  /\ CheapestBetween(s, r) # {}
         /\ \A o \in CheapestBetween(s, r) : /\ o \in Op /\ o \in Applicable(s)
                                             /\ Succ[<<s, o>>] = r /\ Cost[o] <= Cost[q]
<1> DEFINE A == {o \in Applicable(s) : Succ[<<s, o>>] = r}
           S == {Cost[o] : o \in A}
<1>1. A \subseteq Op /\ q \in A /\ \A o \in Op : Cost[o] \in Nat
  BY TaskAssumption DEF Applicable
<1>2. S \in SUBSET Nat /\ S # {}
  <2> HIDE DEF A
  <2>1. QED
    BY <1>1
<1>3. \E m \in S : \A n \in S : m <= n
  <2> HIDE DEF S
  <2>1. QED
    BY <1>2, LeastNatural
<1>4. PICK o \in A : \A x \in A : Cost[o] <= Cost[x]
  <2> HIDE DEF A
  <2>1. QED
    BY <1>3
<1>5. o \in CheapestBetween(s, r)
  BY <1>4 DEF CheapestBetween
<1>6. QED
  BY <1>1, <1>5 DEF CheapestBetween

\* The trace of a search with symmetries.
LEMMA RealTrace ==
  ASSUME TraceInv, NEW goal \in State, Reached(goal)
  PROVE  LeadsTo(TracePathWithSymmetries(goal), RealState(goal)[goal], g[goal])
<1> DEFINE real == RealState(goal)
           between == [s \in State |-> [r \in State |->
             IF CheapestBetween(s, r) = {} THEN None
             ELSE CHOOSE o \in CheapestBetween(s, r) : TRUE]]
           X == [s \in State |-> IF creator[s] = None THEN None
                                 ELSE between[real[parent[s]]][real[s]]]
           Path(f) == [s \in State |-> IF creator[s] = None THEN <<>>
                                       ELSE Append(f[parent[s]], between[real[parent[s]]][real[s]])]
           path == CHOOSE f : f = Path(f)
<1>1. /\ \A s \in State : real[s] \in State
      /\ \A s \in State : Reached(s) => RealIs(real, s)
  BY RealStates
<1>2. TracePathWithSymmetries(goal) = path[goal]
  BY DEF TracePathWithSymmetries
<1> HIDE DEF real
<1>3. ASSUME NEW s \in State, NEW r \in State
      PROVE  between[s][r] = IF CheapestBetween(s, r) = {} THEN None
                             ELSE CHOOSE o \in CheapestBetween(s, r) : TRUE
  OBVIOUS
<1>4. ASSUME NEW s \in State, NEW r \in State
      PROVE  between[s][r] \in Op \cup {None}
  <2>1. CheapestBetween(s, r) \subseteq Op
    BY TaskAssumption DEF CheapestBetween, Applicable
  <2> HIDE DEF between
  <2>2. QED
    BY <1>3, <2>1
<1> HIDE DEF between
<1>5. X \in [State -> Op \cup {None}]
  <2>1. ASSUME NEW s \in State, creator[s] # None
        PROVE  between[real[parent[s]]][real[s]] \in Op \cup {None}
    BY <1>1, <1>4, <2>1, NodeLed DEF Roots, Led
  <2>2. QED
    BY <2>1
<1>6. ASSUME NEW f
      PROVE  PathAlong(X, f) = Path(f)
  BY DEF PathAlong
<1>7. path = Path(path)
  <2>1. \E f : f = PathAlong(X, f)
    <3> HIDE DEF X
    <3>1. QED
      BY <1>5, PathExists
  <2>2. \E f : f = Path(f)
    <3> HIDE DEF Path, X
    <3>1. QED
      BY <1>6, <2>1
  <2> HIDE DEF Path
  <2>3. QED
    BY <2>2
<1> HIDE DEF path, X
<1>8. ASSUME NEW s \in State, Reached(s)
      PROVE  IF creator[s] = None THEN real[s] = s0 /\ path[s] = <<>>
             ELSE \E q \in Applicable(real[parent[s]]) :
                    /\ Succ[<<real[parent[s]], q>>] = real[s] /\ Cost[q] <= Cost[creator[s]]
                    /\ path[s] = Append(path[parent[s]], q)
  <2>1. path[s] = IF creator[s] = None THEN <<>>
                  ELSE Append(path[parent[s]], between[real[parent[s]]][real[s]])
    BY <1>7
  <2>2. RealIs(real, s)
    BY <1>1, <1>8
  <2>3. CASE creator[s] = None
    BY <2>1, <2>2, <2>3 DEF RealIs
  <2>4. CASE creator[s] # None
    <3> DEFINE a == real[parent[s]]
               b == real[s]
    <3>1. a \in State /\ b \in State
      BY <1>1, <2>4, NodeLed DEF Roots, Led
    <3>2. PICK q \in Applicable(a) : Succ[<<a, q>>] = b /\ Cost[q] = Cost[creator[s]]
      BY <2>2, <2>4 DEF RealIs
    <3> DEFINE o == CHOOSE x \in CheapestBetween(a, b) : TRUE
    <3>3. between[a][b] = IF CheapestBetween(a, b) = {} THEN None ELSE o
      BY <1>3, <3>1
    <3>4. /\ CheapestBetween(a, b) # {}
          /\ \A x \in CheapestBetween(a, b) : /\ x \in Op /\ x \in Applicable(a)
                                              /\ Succ[<<a, x>>] = b /\ Cost[x] <= Cost[q]
      BY <3>1, <3>2, CheapestFound
    <3>5. o \in CheapestBetween(a, b)
      BY <3>4
    <3> HIDE DEF o
    <3>6. o \in Applicable(a) /\ Succ[<<a, o>>] = b /\ Cost[o] <= Cost[creator[s]]
      BY <3>2, <3>4, <3>5
    <3>7. path[s] = Append(path[parent[s]], o)
      BY <2>1, <2>4, <3>3, <3>4
    <3>8. QED
      BY <2>4, <3>6, <3>7
  <2>5. QED
    BY <2>3, <2>4
<1>9. Traces(real, path)
  BY <1>8 DEF Traces
<1>10. LeadsTo(path[goal], real[goal], g[goal])
  BY <1>1, <1>9, TraceLeads
<1>11. QED
  BY <1>2, <1>10 DEF real

\* The plan of a goal node that was reached at the cost of a cheapest plan.
LEMMA PlanTraced ==
  ASSUME TraceInv, NEW goal \in State, Reached(goal), goal \in Goal, g[goal] = HStar[s0]
  PROVE  Optimum(trace_path(goal))
<1>1. CASE gens = <<>>
  BY <1>1, PlainTrace, TraceOptimal DEF trace_path
<1>2. CASE gens # <<>>
  <2>1. RealState(goal)[goal] \in Goal
    BY RealStates
  <2>2. QED
    BY <1>2, <2>1, RealTrace, TraceOptimal DEF trace_path
<1>3. QED
  BY <1>1, <1>2
NextOf(gs, s, o) == get_canonical_representative(gs, State, Succ[<<s, o>>])

\* No node has changed.
LEMMA CreatorsKept ==
  ASSUME CreatorsInv, UNCHANGED <<gens, g, parent, creator>>,
         \A s \in State : Reached(s)' => Reached(s)
  PROVE  CreatorsInv'
<1>1. Start' = Start
  BY DEF Start, canonical
<1>2. ASSUME NEW s \in State
      PROVE  /\ creator'[s] = None <=> parent'[s] = None
             /\ Reached(s)' =>
                  \/ creator'[s] = None /\ s = Start'
                  \/ /\ creator'[s] \in Applicable(parent'[s])
                     /\ s = NextOf(gens', parent'[s], creator'[s])
                     /\ g'[parent'[s]] + Cost[creator'[s]] <= g'[s]
  <2>1. /\ creator[s] = None <=> parent[s] = None
        /\ Reached(s) =>
             \/ creator[s] = None /\ s = Start
             \/ /\ creator[s] \in Applicable(parent[s])
                /\ s = successor(parent[s], creator[s])
                /\ g[parent[s]] + Cost[creator[s]] <= g[s]
    BY DEF CreatorsInv
  <2>2. creator' = creator /\ parent' = parent /\ g' = g
    OBVIOUS
  <2>3. NextOf(gens', parent'[s], creator'[s]) = successor(parent[s], creator[s])
    BY <2>2 DEF NextOf, successor, canonical
  <2>4. QED
    BY <1>1, <2>1, <2>2, <2>3
<1>3. QED
  BY <1>2 DEF CreatorsInv, NextOf, successor, canonical

\* A state that is opened has its operator and the cost by way of the node;
\* its children, if it had any, cost no less than before.
LEMMA OpeningCreators ==
  ASSUME TraceInv, NEW o \in Op, NEW t, NEW e, Opens(o, t, e)
  PROVE  CreatorsInv'
<1>1. /\ TypeOK /\ node \in State /\ t \in State /\ node_status[node] = "closed"
      /\ o \in Applicable(node) /\ g[node] \in Nat /\ Cost[o] \in Nat /\ g_over(o) \in Nat
      /\ t = successor(node, o)
  BY Operator DEF Opens, TraceInv
<1>2. \A s \in State : g[s] \in Nat \cup {-1}
  BY <1>1, Types
<1>3. /\ node_status'[t] = "open" /\ g'[t] = g_over(o) /\ parent'[t] = node /\ creator'[t] = o
      /\ \A s \in State : s # t => /\ node_status'[s] = node_status[s] /\ g'[s] = g[s]
                                   /\ parent'[s] = parent[s] /\ creator'[s] = creator[s]
  BY <1>1 DEF Opens, SetNode, TypeOK
<1>4. node_status[t] = "new" \/ (Reached(t) /\ g_over(o) < g[t])
  BY DEF Opens, Better, Reached
<1>5. t # node
  <2>1. g[node] <= g_over(o)
    BY <1>1 DEF g_over
  <2>2. QED
    BY <1>1, <1>4, <2>1 DEF Reached
<1>6. gens' = gens
  BY DEF Opens, options
<1>7. Start' = Start
  BY <1>6 DEF Start, canonical
<1>8. ASSUME NEW s \in State
      PROVE  /\ creator'[s] = None <=> parent'[s] = None
             /\ Reached(s)' =>
                  \/ creator'[s] = None /\ s = Start'
                  \/ /\ creator'[s] \in Applicable(parent'[s])
                     /\ s = NextOf(gens', parent'[s], creator'[s])
                     /\ g'[parent'[s]] + Cost[creator'[s]] <= g'[s]
  <2>1. CASE s = t
    <3>1. creator'[s] # None /\ parent'[s] # None
      BY <1>1, <1>3, <2>1, TaskAssumption
    <3>2. creator'[s] \in Applicable(parent'[s])
      BY <1>1, <1>3, <2>1
    <3>3. NextOf(gens', parent'[s], creator'[s]) = successor(node, o)
      BY <1>3, <1>6, <2>1 DEF NextOf, successor, canonical
    <3>4. g'[parent'[s]] = g[node] /\ g'[s] = g[node] + Cost[o] /\ creator'[s] = o
      BY <1>1, <1>3, <1>5, <2>1 DEF g_over
    <3>5. g'[parent'[s]] + Cost[creator'[s]] <= g'[s]
      BY <1>1, <3>4
    <3>6. QED
      BY <1>1, <2>1, <3>1, <3>2, <3>3, <3>5
  <2>2. CASE s # t
    <3>1. /\ creator'[s] = creator[s] /\ parent'[s] = parent[s] /\ g'[s] = g[s]
          /\ Reached(s)' <=> Reached(s)
      BY <1>3, <2>2 DEF Reached
    <3>2. creator[s] = None <=> parent[s] = None
      BY DEF TraceInv, CreatorsInv
    <3>3. CASE creator[s] = None
      <4>1. Reached(s) => s = Start
        BY <3>3, RootIsStart
      <4>2. QED
        BY <1>7, <3>1, <3>2, <3>3, <4>1
    <3>4. CASE creator[s] # None
      <4>1. Led(s)
        BY <3>4, NodeLed DEF Roots
      <4>2. NextOf(gens', parent'[s], creator'[s]) = s
        BY <1>6, <3>1, <4>1 DEF Led, NextOf, canonical
      <4> DEFINE r == parent[s]
                 c == Cost[creator[s]]
      <4>3. /\ r \in State /\ Reached(r) /\ creator[s] \in Applicable(r) /\ c \in Nat
            /\ g[r] + c <= g[s]
        BY <4>1, TaskAssumption DEF Led
      <4>4. g'[r] <= g[r]
        <5>1. CASE r = t
          BY <1>1, <1>2, <1>3, <1>4, <4>3, <5>1 DEF Reached
        <5>2. CASE r # t
          BY <1>2, <1>3, <4>3, <5>2
        <5>3. QED
          BY <5>1, <5>2
      <4>5. g'[r] \in Nat \cup {-1} /\ g[r] \in Nat \cup {-1} /\ g[s] \in Nat \cup {-1}
        BY <1>1, <1>2, <1>3, <4>3
      <4> HIDE DEF r, c
      <4>6. g'[r] + c <= g[s]
        BY <4>3, <4>4, <4>5
      <4>7. QED
        BY <3>1, <3>2, <3>4, <4>2, <4>3, <4>6 DEF r, c
    <3>5. QED
      BY <3>3, <3>4
  <2>3. QED
    BY <2>1, <2>2
<1>9. QED
  BY <1>8 DEF CreatorsInv, NextOf, successor, canonical

\* Every step keeps the creators.
LEMMA StepCreators == TraceInv /\ [Next]_vars => CreatorsInv'
<1> SUFFICES ASSUME TraceInv, [Next]_vars
             PROVE  CreatorsInv'
  OBVIOUS
<1>1. IInv /\ TypeOK /\ CreatorsInv
  BY DEF TraceInv, IInv
<1>2. CASE Initialize
  <2>1. /\ UNCHANGED <<gens, parent, creator>> /\ s0 \in State
        /\ \A s \in State : node_status[s] = "new"
    BY <1>1, <1>2, TaskAssumption DEF IInv, Phases, Initialize, options
  <2>2. ASSUME NEW s \in State
        PROVE  creator[s] = None /\ parent[s] = None
    <3>1. ~ Reached(s)
      BY <2>1 DEF Reached
    <3>2. creator[s] = None
      BY <3>1, NodeLed DEF Roots, Led
    <3>3. QED
      BY <1>1, <3>2 DEF CreatorsInv
  <2>3. ASSUME NEW s \in State, Reached(s)'
        PROVE  s = Start
    <3>1. node_status' = node_status \/ node_status' = [node_status EXCEPT ![Start] = "open"]
      BY <1>2 DEF Initialize, Start
    <3>2. s # Start => node_status'[s] = node_status[s]
      BY <1>1, <3>1 DEF TypeOK
    <3>3. node_status' = node_status => node_status'[s] = "new"
      BY <2>1
    <3>4. QED
      BY <2>1, <2>3, <3>2 DEF Reached
  <2>4. Start' = Start
    BY <2>1 DEF Start, canonical
  <2>5. QED
    BY <2>1, <2>2, <2>3, <2>4 DEF CreatorsInv
<1>3. CASE FetchNode
  <2>1. PICK e \in open_list : node_status' = [node_status EXCEPT ![e.state] = "closed"]
    BY <1>3 DEF FetchNode, Minima
  <2>2. \A s \in State : Reached(s)' => Reached(s)
    BY <1>1, <2>1 DEF IInv, TypeOK, EntriesNotBelow, Reached
  <2>3. UNCHANGED <<gens, g, parent, creator>>
    BY <1>3 DEF FetchNode, options
  <2>4. QED
    BY <1>1, <2>2, <2>3, CreatorsKept
<1>4. ASSUME NEW o \in Op, NewDeadEnd(o)
      PROVE  CreatorsInv'
  <2>1. \A s \in State : Reached(s)' => Reached(s)
    BY <1>1, <1>4 DEF NewDeadEnd, TypeOK, Reached
  <2>2. UNCHANGED <<gens, g, parent, creator>>
    BY <1>4 DEF NewDeadEnd, options
  <2>3. QED
    BY <1>1, <2>1, <2>2, CreatorsKept
<1>5. ASSUME NEW o \in Op, OpenNew(o) \/ Reopen(o)
      PROVE  CreatorsInv'
  BY <1>1, <1>5, OpenNewOpens, ReopenOpens, OpeningCreators
<1>6. CASE UNCHANGED <<options, infos>>
  <2>1. UNCHANGED <<gens, g, parent, creator>> /\ \A s \in State : Reached(s)' => Reached(s)
    BY <1>6 DEF options, infos, Reached
  <2>2. QED
    BY <1>1, <2>1, CreatorsKept
<1>7. QED
  BY <1>2, <1>3, <1>4, <1>5, <1>6
  DEF Next, vars, SkipClosed, OpenListEmpty, OverBound, KnownDeadEnd, NotBetter, Expanded,
      TimeLimit, InTime

\* The plan that is traced back is a cheapest plan.
LEMMA FetchedPlan ==
  ASSUME TraceInv, FetchNode, SolvedIsOptimal', plan' # plan \/ result' # result
  PROVE  Optimum(plan')
<1>1. PICK e \in Minima :
        /\ node_status[e.state] # "closed" /\ node' = e.state
        /\ e.state \in Goal /\ plan' = trace_path(e.state) /\ result' = "solved"
  BY DEF FetchNode
<1>2. e.state \in State /\ Reached(e.state)
  BY <1>1 DEF TraceInv, IInv, TypeOK, EntriesNotBelow, Minima
<1>3. g[e.state] = HStar[s0]
  BY <1>1 DEF SolvedIsOptimal, FetchNode
<1>4. QED
  BY <1>1, <1>2, <1>3, PlanTraced

\* A plan is there when the search is solved, and it stays.
LEMMA StepPlan == TraceInv /\ SolvedIsOptimal' /\ PlanIsOptimal /\ [Next]_vars => PlanIsOptimal'
<1> SUFFICES ASSUME TraceInv, SolvedIsOptimal', PlanIsOptimal, [Next]_vars
             PROVE  PlanIsOptimal'
  OBVIOUS
<1>1. ASSUME plan' = plan, result' = "solved" => result = "solved"
      PROVE  PlanIsOptimal'
  <2>1. /\ result = "solved" => plan # None
        /\ plan # None => Optimum(plan)
    BY DEF PlanIsOptimal, Optimum
  <2>2. /\ result' = "solved" => plan' # None
        /\ plan' # None => Optimum(plan')
    BY <1>1, <2>1
  <2>3. QED
    BY <2>2 DEF PlanIsOptimal, Optimum
<1>2. CASE FetchNode
  <2>1. CASE plan' = plan /\ result' = result
    BY <1>1, <2>1
  <2>2. CASE plan' # plan \/ result' # result
    <3>1. Optimum(plan')
      BY <1>2, <2>2, FetchedPlan
    <3>2. QED
      BY <3>1 DEF PlanIsOptimal, Optimum
  <2>3. QED
    BY <2>1, <2>2
<1>3. CASE OpenListEmpty \/ TimeLimit
  BY <1>1, <1>3 DEF OpenListEmpty, TimeLimit
<1>4. CASE UNCHANGED <<result, plan>>
  BY <1>1, <1>4
<1>5. QED
  BY <1>2, <1>3, <1>4
  DEF Next, vars, Initialize, SkipClosed, OverBound, KnownDeadEnd, NewDeadEnd, OpenNew, Reopen,
      NotBetter, Expanded, InTime

\* The parents and operators of the nodes say how each was reached.
THEOREM TraceHolds == Spec => []TraceInv
<1>1. Init => PInv /\ CreatorsInv
  BY TaskAssumption DEF Init, PInv, ParentsBelow, ParentsHaveNoCycle, CreatorsInv, Reached
<1>2. IInv /\ PInv /\ CreatorsInv <=> TraceInv
  BY DEF TraceInv
<1>3. QED
  BY <1>1, <1>2, Invariance, StepPInv, StepCreators, PTL DEF Spec

\* For every task, heuristic and group of symmetries, the plan that is traced
\* back from the goal, also through the permutations of representatives, is a
\* cheapest plan of the task, and it is there whenever the search is solved.
THEOREM PlanCorrect == Spec => []PlanIsOptimal
<1>1. Init => PlanIsOptimal
  BY DEF Init, PlanIsOptimal
<1>2. QED
  BY <1>1, TraceHolds, SolvedCorrect, StepPlan, PTL DEF Spec
=============================================================================
