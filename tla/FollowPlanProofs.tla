-------------------------- MODULE FollowPlanProofs ---------------------------
(***************************************************************************)
(* Proofs about FollowPlan for every task, plan file and number of words:  *)
(* the runs of the compiled task are exactly the parts of the plan that    *)
(* the original task can execute.  RunsArePartsOfPlan is inductive only    *)
(* together with LastIsCurrent (else a run could go back in the file) and  *)
(* Compiled (the facts that never change).  That the verdict is right is   *)
(* proved from RunIsPart: the run has got as far, and at the same cost, as *)
(* every part of the plan that begins with the lines followed.             *)
(***************************************************************************)
EXTENDS FollowPlan, RecursionLemmas, TLAPS

\* The facts of the new problem are those of the plan once it is compiled;
\* before that nothing has been followed.
Compiled ==
  /\ pc \in {"search", "checked"} => before = before_facts /\ plan_action = plan_action_facts
  /\ pc \in {"parse", "raised"} => followed = <<>> /\ cur = s0

\* last holds of the line followed last and of no other, so that no line is
\* followed twice or out of order.
LastIsCurrent ==
  pc # "parse" /\ pc # "raised" =>
    last = {IF followed = <<>> THEN 0 ELSE followed[Len(followed)]}

IInv == TypeOK /\ Compiled /\ RunsArePartsOfPlan /\ LastIsCurrent

\* What a line of the file is.
LEMMA LineFacts ==
  ASSUME TypeOK
  PROVE  /\ plan \in Seq(Op \cup {Comment}) /\ Len(plan) \in Nat
         /\ \A x \in plan_action_facts : /\ x[2] \in 1 .. Len(plan) /\ x[2] \in Order
                                         /\ x[1] = plan[x[2]] /\ x[1] \in Op
         /\ plan_action_facts \subseteq Op \X Order
         /\ \A j \in 1 .. Len(plan) : plan[j] \in Op => <<plan[j], j>> \in plan_action_facts
<1>1. plan \in Seq(Op \cup {Comment}) /\ Len(plan) \in Nat
  BY DEF TypeOK
<1>2. \A i \in 1 .. Len(plan) : plan[i] # Comment => plan[i] \in Op
  BY <1>1
<1>3. \A i \in 1 .. Len(plan) : i \in Order
  BY <1>1 DEF Order
<1>4. QED
  BY <1>1, <1>2, <1>3, TaskAssumption DEF plan_action_facts

LEMMA InitIInv == Init => IInv
<1> SUFFICES ASSUME Init PROVE IInv
  OBVIOUS
<1> USE DEF Init
<1>1. followed = <<>> /\ through = <<>> /\ Len(followed) = 0 /\ Len(through) = 0
  OBVIOUS
<1>2. TypeOK
  BY <1>1, TaskAssumption, FilesAssumption DEF TypeOK
<1>3. RunsArePartsOfPlan
  BY <1>1 DEF RunsArePartsOfPlan, StateAfter
<1>4. QED
  BY <1>2, <1>3 DEF IInv, Compiled, LastIsCurrent

\* A step of the run: what it appends fits the history.
LEMMA ApplyIInv ==
  ASSUME IInv, NEW o \in Op, NEW olast \in Order, NEW ocurrent \in Order,
         Apply(o, olast, ocurrent)
  PROVE  IInv'
<1> DEFINE n == Len(followed)
<1>1. /\ TypeOK /\ RunsArePartsOfPlan /\ LastIsCurrent
      /\ before = before_facts /\ plan_action = plan_action_facts
      /\ followed \in Seq(Order) /\ through \in Seq(State)
      /\ Len(through) = n /\ n \in Nat /\ cur \in State
  BY DEF IInv, Compiled, TypeOK, Apply
<1>2. /\ <<cur, o>> \in DOMAIN Succ /\ cur' = Succ[<<cur, o>>]
      /\ olast \in last /\ last' = (last \ {olast}) \cup {ocurrent}
      /\ followed' = Append(followed, ocurrent) /\ through' = Append(through, cur)
      /\ plan' = plan /\ pc' = pc /\ pc = "search"
      /\ before' = before /\ plan_action' = plan_action /\ verdict' = verdict
  BY DEF Apply, Applicable, LastAfter, facts
<1>3. /\ ocurrent \in 1 .. Len(plan) /\ plan[ocurrent] = o
  <2>1. <<o, ocurrent>> \in plan_action_facts
    BY <1>1 DEF Apply, Applicable
  <2>2. QED
    BY <1>1, <2>1, LineFacts
<1>4. olast < ocurrent
  <2>1. <<olast, ocurrent>> \in before_facts
    BY <1>1 DEF Apply, Applicable
  <2>2. QED
    BY <2>1 DEF before_facts
<1>5. olast = (IF n = 0 THEN 0 ELSE followed[n]) /\ last' = {ocurrent}
  BY <1>1, <1>2 DEF LastIsCurrent
<1>6. /\ Len(followed') = n + 1 /\ Len(through') = n + 1
      /\ followed' \in Seq(Order) /\ through' \in Seq(State)
      /\ followed'[n + 1] = ocurrent /\ through'[n + 1] = cur
      /\ \A i \in 1 .. n : followed'[i] = followed[i] /\ through'[i] = through[i]
  BY <1>1, <1>2
<1>7. \A i \in 0 .. n + 1 : StateAfter(i)' = IF i = n + 1 THEN cur' ELSE StateAfter(i)
  <2>1. ASSUME NEW i \in 0 .. n + 1, i = n + 1
        PROVE  StateAfter(i)' = cur'
    BY <1>6, <2>1 DEF StateAfter
  <2>2. ASSUME NEW i \in 0 .. n + 1, i = n
        PROVE  StateAfter(i)' = StateAfter(i)
    BY <1>1, <1>6, <2>2 DEF StateAfter
  <2>3. ASSUME NEW i \in 0 .. n + 1, i # n, i # n + 1
        PROVE  StateAfter(i)' = StateAfter(i)
    <3>1. i < n /\ i < n + 1 /\ i + 1 \in 1 .. n
      BY <1>1, <2>3
    <3>2. through'[i + 1] = through[i + 1]
      BY <1>6, <3>1
    <3>3. QED
      BY <1>1, <1>6, <3>1, <3>2 DEF StateAfter
  <2>4. QED
    BY <2>1, <2>2, <2>3
<1>8. TypeOK'
  <2>1. cur' \in State /\ ra_cost' \in Nat
    BY <1>1, <1>2, TaskAssumption DEF TypeOK, Apply
  <2>2. Order' = Order
    BY <1>2 DEF Order
  <2>3. last' \subseteq Order
    BY <1>5
  <2>4. QED
    BY <1>1, <1>2, <1>6, <2>1, <2>2, <2>3 DEF TypeOK
<1>9. RunsArePartsOfPlan'
  <2>1. ASSUME NEW i \in 1 .. n + 1
        PROVE  /\ followed'[i] \in 1 .. Len(plan) /\ plan[followed'[i]] \in Op
               /\ i > 1 => followed'[i - 1] < followed'[i]
               /\ <<through'[i], plan[followed'[i]]>> \in DOMAIN Succ
               /\ StateAfter(i)' = Succ[<<through'[i], plan[followed'[i]]>>]
    <3>1. CASE i = n + 1
      <4>1. i > 1 => followed'[i - 1] < followed'[i]
        BY <1>1, <1>4, <1>5, <1>6, <3>1
      <4>2. followed'[i] = ocurrent /\ through'[i] = cur /\ StateAfter(i)' = cur'
        BY <1>1, <1>6, <1>7, <3>1
      <4>3. QED
        BY <1>2, <1>3, <4>1, <4>2
    <3>2. CASE i # n + 1
      <4>1. i \in 1 .. n /\ i \in 0 .. n /\ (i > 1 => i - 1 \in 1 .. n)
        BY <1>1, <3>2
      <4>2. /\ followed[i] \in 1 .. Len(plan) /\ plan[followed[i]] \in Op
            /\ i > 1 => followed[i - 1] < followed[i]
            /\ <<through[i], plan[followed[i]]>> \in DOMAIN Succ
            /\ StateAfter(i) = Succ[<<through[i], plan[followed[i]]>>]
        BY <1>1, <4>1 DEF RunsArePartsOfPlan
      <4>3. /\ followed'[i] = followed[i] /\ through'[i] = through[i]
            /\ StateAfter(i)' = StateAfter(i)
            /\ i > 1 => followed'[i - 1] = followed[i - 1]
        BY <1>6, <1>7, <4>1
      <4>4. QED
        BY <4>2, <4>3
    <3>3. QED
      BY <3>1, <3>2
  <2>2. StateAfter(0)' = s0
    BY <1>1, <1>7 DEF RunsArePartsOfPlan
  <2>3. QED
    BY <1>2, <1>6, <2>1, <2>2 DEF RunsArePartsOfPlan
<1>10. LastIsCurrent'
  BY <1>1, <1>5, <1>6 DEF LastIsCurrent
<1>11. Compiled'
  BY <1>1, <1>2 DEF Compiled, before_facts, plan_action_facts, Order
<1>12. QED
  BY <1>8, <1>9, <1>10, <1>11 DEF IInv

LEMMA StepIInv ==
  ASSUME IInv, Next
  PROVE  IInv'
<1>1. CASE Parse
  <2>1. /\ before' = before_facts /\ plan_action' = plan_action_facts /\ last' = {0}
        /\ pc = "parse" /\ pc' = "search" /\ plan' = plan /\ cur' = cur
        /\ followed' = followed /\ through' = through /\ ra_cost' = ra_cost
        /\ verdict' = verdict /\ followed = <<>>
    BY <1>1 DEF Parse, IInv, Compiled
  <2>2. Order' = Order /\ 0 \in Order /\ before_facts \subseteq Order \X Order
    BY <2>1, LineFacts DEF Order, before_facts, IInv
  <2>3. TypeOK'
    BY <2>1, <2>2, LineFacts DEF TypeOK, IInv
  <2>4. RunsArePartsOfPlan'
    BY <2>1 DEF IInv, RunsArePartsOfPlan, StateAfter
  <2>5. Compiled' /\ LastIsCurrent'
    BY <2>1, <2>2 DEF Compiled, LastIsCurrent, before_facts, plan_action_facts
  <2>6. QED
    BY <2>3, <2>4, <2>5 DEF IInv
<1>2. CASE NoWord
  BY <1>2 DEF NoWord, IInv, TypeOK, Compiled, RunsArePartsOfPlan, LastIsCurrent,
              StateAfter, Order, facts
<1>3. CASE Check
  BY <1>3 DEF Check, IInv, TypeOK, Compiled, RunsArePartsOfPlan, LastIsCurrent,
              StateAfter, Order, facts, before_facts, plan_action_facts
<1>4. QED
  BY <1>1, <1>2, <1>3, ApplyIInv DEF Next

LEMMA StutterIInv ==
  ASSUME IInv, UNCHANGED vars
  PROVE  IInv'
BY DEF vars, facts, IInv, TypeOK, Compiled, RunsArePartsOfPlan, LastIsCurrent,
       StateAfter, Order, before_facts, plan_action_facts

\* Every reachable state satisfies the inductive invariant.
THEOREM Invariance == Spec => []IInv
<1>1. Init => IInv
  BY InitIInv
<1>2. IInv /\ [Next]_vars => IInv'
  BY StepIInv, StutterIInv
<1>3. QED
  BY <1>1, <1>2, PTL DEF Spec

\* Type correctness of the check.
THEOREM TypeCorrect == Spec => []TypeOK
BY Invariance, PTL DEF IInv

\* Runs of the compiled task are executable parts of the plan, in its order
\* and without repetition: the check never finds a plan of other actions.
THEOREM PartsCorrect == Spec => []RunsArePartsOfPlan
BY Invariance, PTL DEF IInv

\* Followed lines grow, so that all of them come before a line iff the last
\* of them does.
LEMMA LinesGrow ==
  ASSUME IInv, NEW j \in 1 .. Len(plan),
         \A i \in 1 .. Len(followed) : followed[i] < j
  PROVE  (IF followed = <<>> THEN 0 ELSE followed[Len(followed)]) < j
<1>1. followed \in Seq(Order) /\ Len(followed) \in Nat /\ Len(plan) \in Nat
  BY LineFacts DEF IInv, TypeOK
<1>2. CASE followed = <<>>
  BY <1>1, <1>2
<1>3. CASE followed # <<>>
  <2>1. Len(followed) \in 1 .. Len(followed)
    BY <1>1, <1>3
  <2>2. QED
    BY <1>3, <2>1
<1>4. QED
  BY <1>2, <1>3

\* Whatever line comes next and can be executed has exactly one ground action
\* of the compiled task: no part of the plan is lost, so that the check cannot
\* miss actions that may be left out.
THEOREM LinesCorrect == Spec => []EveryLineCanFollow
<1>1. IInv => EveryLineCanFollow
  <2> SUFFICES ASSUME IInv, pc = "search", NEW j \in 1 .. Len(plan),
                      plan[j] \in Op, <<cur, plan[j]>> \in DOMAIN Succ,
                      \A i \in 1 .. Len(followed) : followed[i] < j
               PROVE  /\ \E olast \in Order : Applicable(plan[j], olast, j)
                      /\ \A o, p \in Op, k, l \in Order :
                           Applicable(o, k, j) /\ Applicable(p, l, j) => o = p /\ k = l
    BY DEF EveryLineCanFollow
  <2> DEFINE m == IF followed = <<>> THEN 0 ELSE followed[Len(followed)]
  <2>1. /\ TypeOK /\ last = {m} /\ m < j
        /\ before = before_facts /\ plan_action = plan_action_facts
    BY LinesGrow DEF IInv, LastIsCurrent, Compiled
  <2>2. m \in Order /\ j \in Order
    BY <2>1, LineFacts DEF TypeOK, Order
  <2>3. <<m, j>> \in before_facts /\ <<plan[j], j>> \in plan_action_facts
    BY <2>1, <2>2, LineFacts DEF before_facts
  <2>4. Applicable(plan[j], m, j)
    BY <2>1, <2>3 DEF Applicable
  <2>5. ASSUME NEW o \in Op, NEW p \in Op, NEW k \in Order, NEW l \in Order,
               Applicable(o, k, j), Applicable(p, l, j)
        PROVE  o = p /\ k = l
    BY <2>1, <2>5, LineFacts DEF Applicable
  <2>6. QED
    BY <2>2, <2>4, <2>5
<1>2. QED
  BY <1>1, Invariance, PTL

-----------------------------------------------------------------------------
(* Costs of sequences of lines, and the parts of a plan.                   *)

\* What a line adds to the cost, and the sums of the costs of lines.
LineCost(l) == IF l = Comment THEN 0 ELSE Cost[l]
IsSum(f, lines) ==
  /\ f \in [0 .. Len(lines) -> Nat] /\ f[0] = 0
  /\ \A i \in 1 .. Len(lines) : f[i] = f[i - 1] + LineCost(lines[i])

LEMMA CostSum ==
  ASSUME NEW lines \in Seq(Op \cup {Comment})
  PROVE  \E f : IsSum(f, lines) /\ CostOf(lines) = f[Len(lines)]
<1> DEFINE n == Len(lines)
           step == [x \in Nat \X (1 .. n) |-> x[1] + LineCost(lines[x[2]])]
<1>1. n \in Nat /\ 0 \in Nat /\ \A i \in 1 .. n : LineCost(lines[i]) \in Nat
  BY TaskAssumption DEF LineCost
<1>2. step \in [Nat \X (1 .. n) -> Nat]
  BY <1>1
<1>3. HasPrefixFunction(n, Nat, 0, step)
  <2> HIDE DEF step, n
  <2>1. QED
    BY <1>1, <1>2, PrefixRecursion, Zenon
<1> DEFINE Sum(f) == [i \in 0 .. n |->
         IF i = 0 THEN 0 ELSE f[i - 1] + IF lines[i] = Comment THEN 0 ELSE Cost[lines[i]]]
           sum == CHOOSE f : f = Sum(f)
<1>4. PICK f \in [0 .. n -> Nat] : f[0] = 0 /\ \A i \in 1 .. n : f[i] = step[<<f[i - 1], i>>]
  BY <1>3, Zenon DEF HasPrefixFunction
<1>5. \A i \in 1 .. n : f[i] = f[i - 1] + LineCost(lines[i])
  <2> SUFFICES ASSUME NEW i \in 1 .. n
               PROVE  f[i] = f[i - 1] + LineCost(lines[i])
    OBVIOUS
  <2>1. f[i - 1] \in Nat
    BY <1>1, <1>4
  <2>2. <<f[i - 1], i>> \in Nat \X (1 .. n)
    BY <2>1
  <2>3. step[<<f[i - 1], i>>] = f[i - 1] + LineCost(lines[i])
    BY <2>2
  <2>4. QED
    BY <1>4, <2>3
<1>6. f = Sum(f)
  BY <1>4, <1>5 DEF LineCost
<1>7. sum = Sum(sum)
  <2> HIDE DEF Sum
  <2>1. QED
    BY <1>6
<1>8. \A i \in 0 .. n : sum[i] = f[i]
  <2> HIDE DEF sum
  <2>1. sum[0] = f[0]
    BY <1>1, <1>6, <1>7
  <2>2. \A i \in 1 .. n : sum[i - 1] = f[i - 1] => sum[i] = f[i]
    BY <1>1, <1>5, <1>7 DEF LineCost
  <2>3. Alike(n, sum, f)
    BY <2>1, <2>2 DEF Alike
  <2>4. AgreeUpTo(n, sum, f)
    BY <1>1, <2>3, PrefixUnique
  <2>5. QED
    BY <2>4 DEF AgreeUpTo
<1>9. CostOf(lines) = sum[n]
  BY DEF CostOf
<1>10. IsSum(f, lines) /\ CostOf(lines) = f[Len(lines)]
  <2> HIDE DEF sum
  <2>1. QED
    BY <1>1, <1>4, <1>5, <1>8, <1>9 DEF IsSum
<1>11. QED
  BY <1>10, Zenon

\* The sums of the costs of the lines in T, line after line.
PartSum(f, T) ==
  /\ f \in [0 .. Len(plan) -> Nat] /\ f[0] = 0
  /\ \A i \in 1 .. Len(plan) : f[i] = f[i - 1] + IF i \in T THEN Cost[plan[i]] ELSE 0

\* The states that the lines in T lead to, line after line: one or none.
PartRun(r, T) ==
  /\ r \in [0 .. Len(plan) -> SUBSET State] /\ r[0] = {s0}
  /\ \A i \in 1 .. Len(plan) :
       r[i] = IF i \notin T THEN r[i - 1]
              ELSE {Succ[<<s, plan[i]>>] : s \in {q \in r[i - 1] : <<q, plan[i]>> \in DOMAIN Succ}}

LEMMA PartSumExists ==
  ASSUME TypeOK, NEW T \in SUBSET Actions
  PROVE  \E f : PartSum(f, T) /\ PartCost(T) = f[Len(plan)]
<1> DEFINE lines == [i \in 1 .. Len(plan) |-> IF i \in T THEN plan[i] ELSE Comment]
<1>1. plan \in Seq(Op \cup {Comment}) /\ Len(plan) \in Nat
  BY DEF TypeOK
<1>2. \A i \in 1 .. Len(plan) : plan[i] \in Op \cup {Comment}
  BY <1>1
<1>3. lines \in Seq(Op \cup {Comment}) /\ Len(lines) = Len(plan)
  BY <1>1, <1>2
<1>4. PICK f : IsSum(f, lines) /\ CostOf(lines) = f[Len(lines)]
  <2> HIDE DEF lines
  <2>1. QED
    BY <1>3, CostSum
<1>5. \A i \in 1 .. Len(plan) : LineCost(lines[i]) = IF i \in T THEN Cost[plan[i]] ELSE 0
  BY <1>2, TaskAssumption DEF LineCost, Actions
<1>6. PartSum(f, T)
  <2> HIDE DEF lines
  <2>1. QED
    BY <1>3, <1>4, <1>5 DEF PartSum, IsSum
<1>7. PartCost(T) = f[Len(plan)]
  BY <1>3, <1>4 DEF PartCost
<1>8. QED
  BY <1>6, <1>7, Zenon

LEMMA PartRunExists ==
  ASSUME TypeOK, NEW T \in SUBSET Actions
  PROVE  \E r : PartRun(r, T) /\ (Leads(T) <=> \E s \in r[Len(plan)] : s \in Goal)
<1> DEFINE n == Len(plan)
           After(q, i) == {Succ[<<s, plan[i]>>] : s \in {p \in q : <<p, plan[i]>> \in DOMAIN Succ}}
           step == [x \in (SUBSET State) \X (1 .. n) |->
                      IF x[2] \notin T THEN x[1] ELSE After(x[1], x[2])]
<1>1. n \in Nat /\ {s0} \in SUBSET State
  BY TaskAssumption DEF TypeOK
<1>2. \A q \in SUBSET State, i \in 1 .. n : After(q, i) \in SUBSET State
  BY TaskAssumption
<1>3. step \in [(SUBSET State) \X (1 .. n) -> SUBSET State]
  <2> HIDE DEF After
  <2>1. QED
    BY <1>2
<1>4. HasPrefixFunction(n, SUBSET State, {s0}, step)
  <2> HIDE DEF step, n
  <2>1. QED
    BY <1>1, <1>3, PrefixRecursion, Zenon
<1>5. PICK r \in [0 .. n -> SUBSET State] :
         r[0] = {s0} /\ \A i \in 1 .. n : r[i] = step[<<r[i - 1], i>>]
  BY <1>4, Zenon DEF HasPrefixFunction
<1>6. ASSUME NEW i \in 1 .. n
      PROVE  r[i] = IF i \notin T THEN r[i - 1] ELSE After(r[i - 1], i)
  <2> HIDE DEF After
  <2>1. r[i - 1] \in SUBSET State
    BY <1>1, <1>5
  <2>2. <<r[i - 1], i>> \in (SUBSET State) \X (1 .. n)
    BY <2>1
  <2>3. step[<<r[i - 1], i>>] = IF i \notin T THEN r[i - 1] ELSE After(r[i - 1], i)
    BY <2>2
  <2>4. QED
    BY <1>5, <2>3
<1>7. PartRun(r, T)
  BY <1>5, <1>6 DEF PartRun
<1> DEFINE Run(f) == [i \in 0 .. n |->
         IF i = 0 THEN {s0} ELSE IF i \notin T THEN f[i - 1] ELSE After(f[i - 1], i)]
           run == CHOOSE f : f = Run(f)
<1>8. run = Run(run)
  <2>1. r = Run(r)
    <3> HIDE DEF After
    <3>1. QED
      BY <1>5, <1>6
  <2> HIDE DEF Run
  <2>2. QED
    BY <2>1
<1>9. run[n] = r[n]
  <2> HIDE DEF run, After
  <2>1. run[0] = r[0]
    BY <1>1, <1>5, <1>8
  <2>2. \A i \in 1 .. n : run[i - 1] = r[i - 1] => run[i] = r[i]
    <3> SUFFICES ASSUME NEW i \in 1 .. n, run[i - 1] = r[i - 1]
                 PROVE  run[i] = r[i]
      OBVIOUS
    <3>1. i \in 0 .. n /\ i # 0
      OBVIOUS
    <3>2. run[i] = IF i \notin T THEN run[i - 1] ELSE After(run[i - 1], i)
      BY <1>8, <3>1
    <3>3. QED
      BY <1>6, <3>2
  <2>3. Alike(n, run, r)
    BY <2>1, <2>2 DEF Alike
  <2>4. AgreeUpTo(n, run, r)
    BY <1>1, <2>3, PrefixUnique
  <2>5. QED
    BY <1>1, <2>4 DEF AgreeUpTo
<1>10. Leads(T) <=> \E s \in run[n] : s \in Goal
  BY DEF Leads
<1>11. QED
  <2> HIDE DEF run
  <2>1. QED
    BY <1>7, <1>9, <1>10, Zenon

\* What can be reached from the goal backwards: the costs of the runs of the
\* compiled task, by the line that was followed last.
GoalCostsFrom(c) ==
  \A i \in 0 .. Len(plan), s \in State :
    /\ s \in Goal => 0 \in c[i][s]
    /\ \A j \in 1 .. Len(plan) :
         i < j /\ plan[j] \in Op /\ <<s, plan[j]>> \in DOMAIN Succ =>
           \A k \in c[j][Succ[<<s, plan[j]>>]] : Cost[plan[j]] + k \in c[i][s]

LEMMA GoalCostsExist ==
  ASSUME TypeOK
  PROVE  \E c : /\ GoalCostsFrom(c)
                /\ GoalCosts(before_facts, plan_action_facts) = c[0][s0]
<1> DEFINE n == Len(plan)
           Lines(i, s) == {y \in plan_action_facts : /\ <<i, y[2]>> \in before_facts
                                                     /\ <<s, y[1]>> \in DOMAIN Succ}
           Costs(f, i, s) ==
             (IF s \in Goal THEN {0} ELSE {}) \cup
             UNION {{Cost[x[1]] + c : c \in f[x[2]][Succ[<<s, x[1]>>]]} : x \in Lines(i, s)}
           Row(f, i) == [s \in State |-> Costs(f, i, s)]
           Solves(f, k) == f = [i \in Nat |-> f[i]] /\ \A i \in Nat : i >= k => f[i] = Row(f, i)
           S == {k \in 0 .. n : \E f : Solves(f, k)}
<1>1. n \in Nat
  BY DEF TypeOK
<1>2. \A i \in Nat, s \in State : \A x \in Lines(i, s) : i < x[2] /\ x[2] \in 1 .. n
  BY LineFacts, <1>1 DEF before_facts, Order
<1>3. ASSUME NEW f, NEW g, NEW i \in Nat, \A j \in 1 .. n : i < j => f[j] = g[j]
      PROVE  Row(f, i) = Row(g, i)
  <2>1. ASSUME NEW s \in State
        PROVE  Costs(f, i, s) = Costs(g, i, s)
    <3> HIDE DEF Lines
    <3> DEFINE Through(h, x) == {Cost[x[1]] + c : c \in h[x[2]][Succ[<<s, x[1]>>]]}
    <3>1. \A x \in Lines(i, s) : f[x[2]] = g[x[2]]
      BY <1>2, <1>3
    <3>2. \A x \in Lines(i, s) : Through(f, x) = Through(g, x)
      BY <3>1
    <3> HIDE DEF Through
    <3>3. {Through(f, x) : x \in Lines(i, s)} = {Through(g, x) : x \in Lines(i, s)}
      BY <3>2
    <3> USE DEF Through
    <3>4. QED
      BY <3>3
  <2> HIDE DEF Costs
  <2>2. QED
    BY <2>1
<1>4. n \in S
  <2> DEFINE f == [i \in Nat |-> Row(<<>>, n)]
  <2>1. ASSUME NEW i \in Nat, i >= n
        PROVE  f[i] = Row(f, i)
    <3>1. \A s \in State : Lines(i, s) = {} /\ Lines(n, s) = {}
      <4> HIDE DEF Lines
      <4>1. QED
        BY <1>1, <1>2, <2>1
    <3>2. ASSUME NEW s \in State
          PROVE  Costs(<<>>, n, s) = Costs(f, i, s)
      <4> HIDE DEF Lines
      <4>1. QED
        BY <3>1
    <3>3. Row(<<>>, n) = Row(f, i)
      <4> HIDE DEF Costs, f
      <4>1. QED
        BY <3>2
    <3> HIDE DEF Row
    <3>4. QED
      BY <3>3
  <2>2. Solves(f, n)
    <3> HIDE DEF Row
    <3>1. f = [i \in Nat |-> f[i]]
      OBVIOUS
    <3> HIDE DEF f
    <3>2. QED
      BY <2>1, <3>1
  <2> HIDE DEF f, Solves
  <2>3. QED
    BY <1>1, <2>2
<1>5. \A k \in 1 .. n : k \in S => k - 1 \in S
  <2> SUFFICES ASSUME NEW k \in 1 .. n, k \in S
               PROVE  k - 1 \in S
    OBVIOUS
  <2>1. PICK f : Solves(f, k)
    OBVIOUS
  <2> DEFINE g == [f EXCEPT ![k - 1] = Row(f, k - 1)]
  <2>2. k - 1 \in Nat /\ k - 1 \in 0 .. n /\ DOMAIN f = Nat
    <3> HIDE DEF Row
    <3>1. f = [i \in Nat |-> f[i]]
      BY <2>1
    <3>2. DOMAIN f = Nat
      BY <3>1
    <3>3. QED
      BY <1>1, <3>2
  <2>3. \A i \in Nat : g[i] = IF i = k - 1 THEN Row(f, k - 1) ELSE f[i]
    <3> HIDE DEF Row
    <3>1. QED
      BY <2>2
  <2>4. g = [i \in Nat |-> g[i]]
    <3> HIDE DEF Row
    <3>1. QED
      BY <2>1
  <2> HIDE DEF g
  <2>5. ASSUME NEW i \in Nat, i >= k - 1
        PROVE  g[i] = Row(g, i)
    <3>1. \A j \in 1 .. n : i < j => f[j] = g[j]
      <4> HIDE DEF Row
      <4>1. QED
        BY <2>2, <2>3, <2>5
    <3>2. Row(f, i) = Row(g, i)
      <4> HIDE DEF Row
      <4>1. QED
        BY <1>3, <3>1
    <3>3. CASE i = k - 1
      <4> HIDE DEF Row
      <4>1. QED
        BY <2>3, <3>2, <3>3
    <3>4. CASE i # k - 1
      <4> HIDE DEF Row
      <4>1. i >= k
        BY <2>2, <2>5, <3>4
      <4>2. QED
        BY <2>1, <2>3, <3>2, <3>4, <4>1
    <3>5. QED
      BY <3>3, <3>4
  <2>6. Solves(g, k - 1)
    <3> HIDE DEF Row
    <3>1. QED
      BY <2>4, <2>5
  <2> HIDE DEF Solves
  <2>7. QED
    BY <2>2, <2>6
<1>6. \E f : f = [i \in Nat |-> Row(f, i)]
  <2>1. \A k \in 0 .. n : k \in S
    <3> HIDE DEF S
    <3>1. QED
      BY <1>1, <1>4, <1>5, Downward
  <2>2. PICK f : Solves(f, 0)
    <3> HIDE DEF Solves
    <3>1. QED
      BY <1>1, <2>1
  <2>3. f = [i \in Nat |-> Row(f, i)]
    <3> HIDE DEF Row
    <3>1. QED
      BY <2>2
  <2> HIDE DEF Row
  <2>4. QED
    BY <2>3
<1> DEFINE from == CHOOSE f : f = [i \in Nat |-> Row(f, i)]
<1>7. from = [i \in Nat |-> Row(from, i)]
  <2> HIDE DEF Row
  <2>1. QED
    BY <1>6
<1>8. GoalCosts(before_facts, plan_action_facts) = from[0][s0]
  BY DEF GoalCosts
<1> HIDE DEF from
<1>9. ASSUME NEW i \in 0 .. n, NEW s \in State
      PROVE  from[i][s] = Costs(from, i, s)
  <2>1. i \in Nat
    BY <1>1
  <2>2. from[i] = Row(from, i)
    <3> HIDE DEF Row
    <3>1. QED
      BY <1>7, <2>1
  <2> DEFINE row == Row(from, i)
  <2> HIDE DEF Costs
  <2>3. row[s] = Costs(from, i, s)
    OBVIOUS
  <2>4. from[i] = row
    BY <2>2
  <2> HIDE DEF row
  <2>5. QED
    BY <2>3, <2>4
<1>10. GoalCostsFrom(from)
  <2>1. ASSUME NEW i \in 0 .. n, NEW s \in State, s \in Goal
        PROVE  0 \in from[i][s]
    BY <1>9, <2>1
  <2>2. ASSUME NEW i \in 0 .. n, NEW s \in State, NEW j \in 1 .. n,
               i < j, plan[j] \in Op, <<s, plan[j]>> \in DOMAIN Succ,
               NEW k \in from[j][Succ[<<s, plan[j]>>]]
        PROVE  Cost[plan[j]] + k \in from[i][s]
    <3>1. <<plan[j], j>> \in plan_action_facts
      BY <2>2, LineFacts
    <3>2. <<i, j>> \in before_facts
      BY <1>1, <2>2 DEF before_facts, Order
    <3> DEFINE x == <<plan[j], j>>
    <3>3. x \in Lines(i, s) /\ x[1] = plan[j] /\ x[2] = j
      BY <2>2, <3>1, <3>2
    <3> HIDE DEF x, Lines
    <3>4. Cost[plan[j]] + k \in {Cost[x[1]] + c : c \in from[x[2]][Succ[<<s, x[1]>>]]}
      BY <2>2, <3>3
    <3>5. Cost[plan[j]] + k \in Costs(from, i, s)
      BY <3>3, <3>4
    <3> HIDE DEF Costs
    <3>6. QED
      BY <1>9, <3>5
  <2> HIDE DEF Costs
  <2>3. QED
    BY <2>1, <2>2 DEF GoalCostsFrom
<1>11. QED
  BY <1>8, <1>10, Zenon

-----------------------------------------------------------------------------
(* The verdict.                                                            *)

\* The line that was followed last, 0 at the start, and all lines followed.
LastLine == IF followed = <<>> THEN 0 ELSE followed[Len(followed)]
Lines == {followed[i] : i \in 1 .. Len(followed)}

\* The run has got as far, and at the same cost, as every part of the plan
\* that begins with the lines followed.
RunIsPart ==
  /\ Lines \subseteq 1 .. LastLine
  /\ pc = "parse" => ra_cost = 0
  /\ pc \in {"search", "checked"} =>
       \A T \in SUBSET Actions : \A r, f :
         /\ PartRun(r, T) /\ PartSum(f, T)
         /\ \A i \in 1 .. LastLine : i \in T <=> i \in Lines
         => r[LastLine] = {cur} /\ f[LastLine] = ra_cost

\* What is known when the planner has answered.
Answered ==
  pc = "checked" =>
    /\ cur \in Goal
    /\ \A c \in GoalCosts(before, plan_action) : ra_cost <= c
    /\ verdict = "filtered" <=> ra_cost < CostOf(plan)

LEMMA ApplyPart ==
  ASSUME IInv, RunIsPart, NEW o \in Op, NEW olast \in Order, NEW ocurrent \in Order,
         Apply(o, olast, ocurrent)
  PROVE  RunIsPart'
<1> DEFINE n == Len(followed)
           j == ocurrent
<1>1. /\ TypeOK /\ LastIsCurrent
      /\ before = before_facts /\ plan_action = plan_action_facts
      /\ followed \in Seq(Order) /\ n \in Nat /\ cur \in State /\ Len(plan) \in Nat
  BY DEF IInv, Compiled, TypeOK, Apply
<1>2. /\ <<cur, o>> \in DOMAIN Succ /\ cur' = Succ[<<cur, o>>]
      /\ olast \in last /\ ra_cost' = ra_cost + Cost[o]
      /\ followed' = Append(followed, j)
      /\ plan' = plan /\ pc' = pc /\ pc = "search"
  BY DEF Apply, Applicable
<1>3. /\ j \in 1 .. Len(plan) /\ plan[j] = o
  <2>1. <<o, j>> \in plan_action_facts
    BY <1>1 DEF Apply, Applicable
  <2>2. QED
    BY <1>1, <2>1, LineFacts
<1>4. olast < j /\ olast = LastLine
  <2>1. <<olast, j>> \in before_facts
    BY <1>1 DEF Apply, Applicable
  <2>2. olast = LastLine
    BY <1>1, <1>2 DEF LastIsCurrent, LastLine
  <2>3. QED
    BY <2>1, <2>2 DEF before_facts
<1>5. LastLine \in 0 .. j - 1 /\ LastLine \in Nat
  BY <1>1, <1>3, <1>4 DEF Order
<1>6. LastLine' = j /\ Lines' = Lines \cup {j}
  <2>1. /\ Len(followed') = n + 1 /\ followed'[n + 1] = j /\ followed' # <<>>
        /\ \A i \in 1 .. n : followed'[i] = followed[i]
    BY <1>1, <1>2
  <2>2. LastLine' = j
    BY <2>1 DEF LastLine
  <2>3. 1 .. n + 1 = (1 .. n) \cup {n + 1}
    BY <1>1
  <2>4. QED
    BY <2>1, <2>2, <2>3 DEF Lines
<1>7. Lines' \subseteq 1 .. LastLine'
  BY <1>3, <1>5, <1>6 DEF RunIsPart
<1>8. ASSUME NEW T \in SUBSET Actions, NEW r, NEW f, PartRun(r, T), PartSum(f, T),
             \A i \in 1 .. j : i \in T <=> i \in Lines \cup {j}
      PROVE  r[j] = {cur'} /\ f[j] = ra_cost'
  <2>1. ASSUME NEW i \in 1 .. LastLine
        PROVE  i \in T <=> i \in Lines
    <3>1. i \in 1 .. j /\ i # j
      BY <1>3, <1>5
    <3>2. QED
      BY <1>8, <3>1
  <2>2. r[LastLine] = {cur} /\ f[LastLine] = ra_cost
    BY <1>2, <1>8, <2>1 DEF RunIsPart
  <2>3. \A i \in LastLine + 1 .. j - 1 : i \notin T /\ i \in 1 .. Len(plan)
    BY <1>3, <1>5, <1>8 DEF RunIsPart
  <2>4. \A i \in LastLine + 1 .. j - 1 : r[i] = r[i - 1]
    BY <1>8, <2>3 DEF PartRun
  <2>5. \A i \in LastLine + 1 .. j - 1 : f[i] = f[i - 1]
    <3>1. ASSUME NEW i \in LastLine + 1 .. j - 1
          PROVE  f[i] = f[i - 1]
      <4>1. i \notin T /\ i \in 1 .. Len(plan) /\ i - 1 \in 0 .. Len(plan)
        BY <1>1, <1>5, <2>3
      <4>2. f[i] = f[i - 1] + 0 /\ f[i - 1] \in Nat
        BY <1>8, <4>1 DEF PartSum
      <4>3. QED
        BY <4>2
    <3>2. QED
      BY <3>1
  <2>6. j - 1 \in Nat /\ j - 1 \in 0 .. Len(plan)
    BY <1>1, <1>3
  <2>7. r[j - 1] = {cur}
    BY <1>5, <2>2, <2>4, <2>6, Standstill
  <2>8. f[j - 1] = ra_cost
    BY <1>5, <2>2, <2>5, <2>6, Standstill
  <2>9. j \in T
    BY <1>3, <1>8
  <2>10. r[j] = {cur'}
    <3>1. r[j] = {Succ[<<s, o>>] : s \in {q \in {cur} : <<q, o>> \in DOMAIN Succ}}
      BY <1>3, <1>8, <2>7, <2>9 DEF PartRun
    <3>2. QED
      BY <1>2, <3>1
  <2>11. f[j] = ra_cost'
    BY <1>2, <1>3, <1>8, <2>8, <2>9 DEF PartSum
  <2>12. QED
    BY <2>10, <2>11
<1>9. \A T, r, f : /\ PartRun(r, T)' <=> PartRun(r, T)
                   /\ PartSum(f, T)' <=> PartSum(f, T)
  BY <1>2 DEF PartRun, PartSum
<1>10. Actions' = Actions
  BY <1>2 DEF Actions
<1>11. QED
  BY <1>2, <1>6, <1>7, <1>8, <1>9, <1>10 DEF RunIsPart

\* RunIsPart depends on the plan, the state and the lines followed only.
LEMMA SameParts ==
  ASSUME RunIsPart, UNCHANGED <<plan, cur, followed, ra_cost>>,
         pc' \in {"search", "checked"} => pc \in {"search", "checked"},
         pc' = "parse" => pc = "parse"
  PROVE  RunIsPart'
<1>1. LastLine' = LastLine /\ Lines' = Lines /\ Actions' = Actions
  BY DEF LastLine, Lines, Actions
<1>2. \A T, r, f : /\ PartRun(r, T)' <=> PartRun(r, T)
                   /\ PartSum(f, T)' <=> PartSum(f, T)
  BY DEF PartRun, PartSum
<1>3. QED
  BY <1>1, <1>2 DEF RunIsPart

LEMMA PartsStep ==
  ASSUME IInv, RunIsPart, Answered, Next
  PROVE  RunIsPart' /\ Answered'
<1> USE DEF facts
<1>1. CASE Parse
  <2>1. /\ pc = "parse" /\ pc' = "search" /\ followed' = followed /\ followed = <<>>
        /\ cur' = cur /\ cur = s0 /\ ra_cost' = ra_cost /\ ra_cost = 0
    BY <1>1 DEF Parse, IInv, Compiled, RunIsPart
  <2>2. LastLine' = 0 /\ Lines' = {}
    BY <2>1 DEF LastLine, Lines
  <2>3. \A T, r, f : PartRun(r, T)' /\ PartSum(f, T)' => r[0] = {s0} /\ f[0] = 0
    BY DEF PartRun, PartSum
  <2>4. QED
    BY <2>1, <2>2, <2>3 DEF RunIsPart, Answered
<1>2. CASE NoWord
  BY <1>2 DEF NoWord, RunIsPart, Answered, LastLine, Lines
<1>3. CASE Check
  <2>1. /\ pc = "search" /\ cur \in Goal /\ pc' = "checked"
        /\ \A c \in GoalCosts(before, plan_action) : ra_cost <= c
        /\ UNCHANGED <<plan, before, plan_action, cur, followed, ra_cost>>
    BY <1>3 DEF Check, RunCosts
  <2>2. RunIsPart'
    BY <2>1, SameParts
  <2>3. verdict' = "filtered" <=> ra_cost < CostOf(plan)
    BY <1>3 DEF Check, Filters
  <2>4. Answered'
    BY <2>1, <2>3 DEF Answered
  <2>5. QED
    BY <2>2, <2>4
<1>4. ASSUME NEW o \in Op, NEW olast \in Order, NEW ocurrent \in Order,
             Apply(o, olast, ocurrent)
      PROVE  RunIsPart' /\ Answered'
  <2>1. RunIsPart'
    BY <1>4, ApplyPart
  <2>2. pc' = "search"
    BY <1>4 DEF Apply
  <2>3. QED
    BY <2>1, <2>2 DEF Answered
<1>5. QED
  BY <1>1, <1>2, <1>3, <1>4 DEF Next

\* The run has followed a part of the plan that leads to the goal.
LEMMA RunLeads ==
  ASSUME IInv, RunIsPart, Answered, pc = "checked"
  PROVE  Lines \in SUBSET Actions /\ Leads(Lines) /\ PartCost(Lines) = ra_cost
<1> DEFINE n == Len(plan)
<1>1. /\ TypeOK /\ n \in Nat /\ Comment \notin Op /\ followed \in Seq(Order)
      /\ Len(followed) \in Nat
  BY TaskAssumption DEF IInv, TypeOK
<1>2. \A i \in 1 .. Len(followed) : followed[i] \in 1 .. n /\ plan[followed[i]] \in Op
  BY DEF IInv, RunsArePartsOfPlan
<1>3. Lines \in SUBSET Actions
  BY <1>1, <1>2 DEF Lines, Actions
<1>4. LastLine \in 0 .. n
  <2>1. CASE followed = <<>>
    BY <1>1, <2>1 DEF LastLine
  <2>2. CASE followed # <<>>
    <3>1. Len(followed) \in 1 .. Len(followed)
      BY <1>1, <2>2
    <3>2. QED
      BY <1>1, <1>2, <2>2, <3>1 DEF LastLine
  <2>3. QED
    BY <2>1, <2>2
<1>5. PICK f : PartSum(f, Lines) /\ PartCost(Lines) = f[n]
  BY <1>1, <1>3, PartSumExists
<1>6. PICK r : PartRun(r, Lines) /\ (Leads(Lines) <=> \E s \in r[n] : s \in Goal)
  BY <1>1, <1>3, PartRunExists
<1>7. r[LastLine] = {cur} /\ f[LastLine] = ra_cost
  BY <1>3, <1>5, <1>6 DEF RunIsPart
<1>8. \A i \in LastLine + 1 .. n : i \notin Lines /\ i \in 1 .. n
  BY <1>1, <1>4 DEF RunIsPart
<1>9. \A i \in LastLine + 1 .. n : r[i] = r[i - 1]
  BY <1>6, <1>8 DEF PartRun
<1>10. \A i \in LastLine + 1 .. n : f[i] = f[i - 1]
  <2>1. ASSUME NEW i \in LastLine + 1 .. n
        PROVE  f[i] = f[i - 1]
    <3>1. i \notin Lines /\ i \in 1 .. n /\ i - 1 \in 0 .. n
      BY <1>1, <1>4, <1>8
    <3>2. f[i] = f[i - 1] + 0 /\ f[i - 1] \in Nat
      BY <1>5, <3>1 DEF PartSum
    <3>3. QED
      BY <3>2
  <2>2. QED
    BY <2>1
<1>11. r[n] = {cur} /\ f[n] = ra_cost
  <2>1. r[n] = {cur}
    BY <1>1, <1>4, <1>7, <1>9, Standstill
  <2>2. f[n] = ra_cost
    BY <1>1, <1>4, <1>7, <1>10, Standstill
  <2>3. QED
    BY <2>1, <2>2
<1>12. cur \in Goal
  BY DEF Answered
<1>13. QED
  BY <1>3, <1>5, <1>6, <1>11, <1>12

\* Whatever part of the plan leads to the goal, its cost is that of a run.
LEMMA PartIsRun ==
  ASSUME TypeOK, NEW T \in SUBSET Actions, Leads(T)
  PROVE  PartCost(T) \in GoalCosts(before_facts, plan_action_facts)
<1> DEFINE n == Len(plan)
<1>1. n \in Nat
  BY DEF TypeOK
<1>2. PICK f : PartSum(f, T) /\ PartCost(T) = f[n]
  BY PartSumExists
<1>3. PICK r : PartRun(r, T) /\ \E s \in r[n] : s \in Goal
  BY PartRunExists
<1>4. PICK c : /\ GoalCostsFrom(c)
               /\ GoalCosts(before_facts, plan_action_facts) = c[0][s0]
  BY GoalCostsExist
<1> DEFINE Rest(i, s) == \A l \in 0 .. i :
             (\A k \in l + 1 .. i : k \notin T) => f[n] - f[i] \in c[l][s]
           S == {i \in 0 .. n : \E s \in r[i] : Rest(i, s)}
<1>5. \A i \in 0 .. n : f[i] \in Nat /\ r[i] \subseteq State
  BY <1>2, <1>3 DEF PartSum, PartRun
<1>6. n \in S
  <2>1. PICK s \in r[n] : s \in Goal
    BY <1>3
  <2>2. f[n] - f[n] = 0 /\ s \in State /\ n \in 0 .. n
    BY <1>1, <1>5
  <2>3. Rest(n, s)
    BY <1>1, <1>4, <2>1, <2>2 DEF GoalCostsFrom
  <2> HIDE DEF Rest
  <2>4. QED
    BY <2>2, <2>3
<1>7. \A i \in 1 .. n : i \in S => i - 1 \in S
  <2> SUFFICES ASSUME NEW i \in 1 .. n, i \in S
               PROVE  i - 1 \in S
    OBVIOUS
  <2>1. PICK t \in r[i] : Rest(i, t)
    <3> HIDE DEF Rest
    <3>1. QED
      OBVIOUS
  <2>2. i - 1 \in 0 .. n /\ i \in 0 .. n
    BY <1>1
  <2>3. CASE i \notin T
    <3>1. r[i] = r[i - 1] /\ f[i] = f[i - 1] + 0 /\ f[i - 1] \in Nat
      BY <1>2, <1>3, <1>5, <2>2, <2>3 DEF PartRun, PartSum
    <3>2. f[i] = f[i - 1]
      BY <3>1
    <3>3. ASSUME NEW l \in 0 .. i - 1, \A k \in l + 1 .. i - 1 : k \notin T
          PROVE  f[n] - f[i - 1] \in c[l][t]
      <4>1. l \in 0 .. i
        BY <1>1
      <4>2. \A k \in l + 1 .. i : k \notin T
        <5>1. ASSUME NEW k \in l + 1 .. i
              PROVE  k \notin T
          <6>1. k = i \/ k \in l + 1 .. i - 1
            OBVIOUS
          <6>2. QED
            BY <2>3, <3>3, <6>1
        <5>2. QED
          BY <5>1
      <4>3. QED
        BY <2>1, <3>2, <4>1, <4>2
    <3>4. Rest(i - 1, t)
      BY <3>3
    <3> HIDE DEF Rest
    <3>5. QED
      BY <2>2, <3>1, <3>4
  <2>4. CASE i \in T
    <3>1. PICK s \in r[i - 1] : <<s, plan[i]>> \in DOMAIN Succ /\ t = Succ[<<s, plan[i]>>]
      <4>1. r[i] = {Succ[<<s, plan[i]>>] : s \in {q \in r[i - 1] : <<q, plan[i]>> \in DOMAIN Succ}}
        BY <1>3, <2>4 DEF PartRun
      <4>2. QED
        BY <4>1
    <3>2. s \in State /\ plan[i] \in Op /\ Cost[plan[i]] \in Nat
      <4>1. plan[i] # Comment /\ plan[i] \in Op \cup {Comment}
        BY <2>4 DEF Actions, TypeOK
      <4>2. QED
        BY <1>5, <2>2, <4>1, TaskAssumption
    <3>3. f[n] - f[i] \in c[i][t]
      <4>1. i \in 0 .. i /\ \A k \in i + 1 .. i : k \notin T
        OBVIOUS
      <4>2. QED
        BY <2>1, <4>1
    <3>4. f[n] - f[i - 1] = Cost[plan[i]] + (f[n] - f[i])
      <4>1. f[i] = f[i - 1] + Cost[plan[i]]
        BY <1>2, <2>4 DEF PartSum
      <4>2. f[i - 1] \in Nat /\ f[n] \in Nat
        BY <1>1, <1>5, <2>2
      <4>3. QED
        BY <3>2, <4>1, <4>2
    <3>5. ASSUME NEW l \in 0 .. i - 1
          PROVE  f[n] - f[i - 1] \in c[l][s]
      <4>1. l \in 0 .. n /\ l < i
        BY <1>1
      <4>2. Cost[plan[i]] + (f[n] - f[i]) \in c[l][s]
        BY <1>4, <3>1, <3>2, <3>3, <4>1 DEF GoalCostsFrom
      <4>3. QED
        BY <3>4, <4>2
    <3>6. Rest(i - 1, s)
      BY <3>5
    <3> HIDE DEF Rest
    <3>7. QED
      BY <2>2, <3>6
  <2>5. QED
    BY <2>3, <2>4
<1>8. 0 \in S
  <2> HIDE DEF S
  <2>1. \A i \in 0 .. n : i \in S
    BY <1>1, <1>6, <1>7, Downward
  <2>2. QED
    BY <1>1, <2>1
<1>9. PICK s \in r[0] : Rest(0, s)
  <2> HIDE DEF Rest
  <2>1. QED
    BY <1>8
<1>10. s = s0 /\ f[0] = 0 /\ f[n] \in Nat
  BY <1>1, <1>2, <1>3, <1>5 DEF PartRun, PartSum
<1>11. f[n] - f[0] \in c[0][s]
  BY <1>9
<1>12. f[n] - f[0] = f[n]
  BY <1>10
<1>13. QED
  BY <1>2, <1>4, <1>10, <1>11, <1>12

LEMMA WholePlan ==
  ASSUME TypeOK
  PROVE  PartCost(Actions) = CostOf(plan)
<1> DEFINE lines == [i \in 1 .. Len(plan) |-> IF i \in Actions THEN plan[i] ELSE Comment]
<1>1. lines = plan
  <2>1. plan \in Seq(Op \cup {Comment}) /\ plan = [i \in 1 .. Len(plan) |-> plan[i]]
    BY DEF TypeOK
  <2>2. \A i \in 1 .. Len(plan) : (IF i \in Actions THEN plan[i] ELSE Comment) = plan[i]
    BY DEF Actions
  <2>3. QED
    BY <2>1, <2>2
<1>2. QED
  BY <1>1 DEF PartCost

\* The verdict is right: a plan is filtered iff a part of it, of any of its
\* actions in the order of the file, is a plan that costs less.
THEOREM VerdictCorrect == Spec => []VerdictIsRight
<1>1. Init => RunIsPart /\ Answered
  BY DEF Init, RunIsPart, Answered, Lines, LastLine
<1>2. IInv /\ RunIsPart /\ Answered /\ [Next]_vars => RunIsPart' /\ Answered'
  <2>1. ASSUME IInv, RunIsPart, Answered, UNCHANGED vars
        PROVE  RunIsPart' /\ Answered'
    <3>1. /\ UNCHANGED <<plan, pc, before, plan_action, cur, followed, ra_cost, verdict>>
      BY <2>1 DEF vars, facts
    <3>2. RunIsPart'
      BY <2>1, <3>1, SameParts
    <3>3. Answered'
      BY <2>1, <3>1 DEF Answered
    <3>4. QED
      BY <3>2, <3>3
  <2>2. QED
    BY <2>1, PartsStep
<1>3. IInv /\ RunIsPart /\ Answered => VerdictIsRight
  <2> SUFFICES ASSUME IInv, RunIsPart, Answered, pc = "checked"
               PROVE  verdict = "filtered" <=>
                      \E S \in SUBSET Actions : Leads(S) /\ PartCost(S) < PartCost(Actions)
    BY DEF VerdictIsRight
  <2>1. /\ TypeOK /\ PartCost(Actions) = CostOf(plan)
        /\ before = before_facts /\ plan_action = plan_action_facts
    BY WholePlan DEF IInv, Compiled
  <2>2. verdict = "filtered" <=> ra_cost < CostOf(plan)
    BY DEF Answered
  <2>3. ASSUME ra_cost < CostOf(plan)
        PROVE  \E S \in SUBSET Actions : Leads(S) /\ PartCost(S) < PartCost(Actions)
    BY <2>1, <2>3, RunLeads
  <2>4. ASSUME NEW S \in SUBSET Actions, Leads(S), PartCost(S) < PartCost(Actions)
        PROVE  ra_cost < CostOf(plan)
    <3>1. ra_cost <= PartCost(S)
      BY <2>1, <2>4, PartIsRun DEF Answered
    <3>2. ra_cost \in Nat /\ PartCost(S) \in Nat /\ PartCost(Actions) \in Nat
      <4>1. \A T \in SUBSET Actions : PartCost(T) \in Nat
        <5>1. ASSUME NEW T \in SUBSET Actions
              PROVE  PartCost(T) \in Nat
          <6>1. PICK f : PartSum(f, T) /\ PartCost(T) = f[Len(plan)]
            BY <2>1, PartSumExists
          <6>2. Len(plan) \in 0 .. Len(plan)
            BY <2>1 DEF TypeOK
          <6>3. QED
            BY <6>1, <6>2 DEF PartSum
        <5>2. QED
          BY <5>1
      <4>2. QED
        BY <2>1, <4>1 DEF TypeOK
    <3>3. QED
      BY <2>1, <2>4, <3>1, <3>2
  <2>5. QED
    BY <2>2, <2>3, <2>4
<1>4. QED
  BY <1>1, <1>2, <1>3, Invariance, PTL DEF Spec
=============================================================================
