-------------------------- MODULE PlansGraphProofs --------------------------
(***************************************************************************)
(* Proofs about the plans graph: the lemmas on plans and on the searches,  *)
(* the graph itself, and the plans that a reformulation call saves.        *)
(***************************************************************************)
EXTENDS PlansGraph, RecursionLemmas, FiniteSetTheorems, SequenceTheorems

-----------------------------------------------------------------------------
(* Trajectories and costs of sequences of operators.                       *)

\* There is a function that follows succ along p.
HasTrajectory(n, a, succ, p) ==
  \E f : f = [i \in 0 .. n |-> IF i = 0 THEN a ELSE succ[<<f[i - 1], p[i]>>]]

\* There is one, whatever succ does where an operator is not applicable.
LEMMA TrajectoryExists ==
  ASSUME NEW n \in Nat, NEW a, NEW succ, NEW p
  PROVE  HasTrajectory(n, a, succ, p)
<1> DEFINE Good(f, k) == /\ f = [i \in 0 .. n |-> f[i]]
                         /\ f[0] = a
                         /\ \A i \in 1 .. k : f[i] = succ[<<f[i - 1], p[i]>>]
           S == {k \in 0 .. n : \E f : Good(f, k)}
<1>1. 0 \in S
  <2> DEFINE c == [i \in 0 .. n |-> a]
  <2>1. Good(c, 0)
    OBVIOUS
  <2>2. \E f : Good(f, 0)
    <3> HIDE DEF Good, c
    <3>1. QED
      BY <2>1
  <2>3. QED
    <3> HIDE DEF Good, c
    <3>1. QED
      BY <2>2
<1>2. \A k \in 0 .. n - 1 : k \in S => k + 1 \in S
  <2> SUFFICES ASSUME NEW k \in 0 .. n - 1, k \in S
               PROVE  k + 1 \in S
    OBVIOUS
  <2>1. PICK f : Good(f, k)
    OBVIOUS
  <2> DEFINE h == [f EXCEPT ![k + 1] = succ[<<f[k], p[k + 1]>>]]
  <2>2. DOMAIN f = 0 .. n
    BY <2>1
  <2>3. DOMAIN h = 0 .. n /\ h = [i \in 0 .. n |-> h[i]]
    BY <2>2
  <2>31. h[0] = a
    BY <2>1, <2>2
  <2>4. ASSUME NEW i \in 1 .. k + 1
        PROVE  h[i] = succ[<<h[i - 1], p[i]>>]
    <3>1. CASE i = k + 1
      <4>1. h[i] = succ[<<f[k], p[i]>>]
        BY <2>2, <3>1
      <4>2. h[i - 1] = f[k]
        BY <2>2, <3>1
      <4>3. QED
        BY <4>1, <4>2
    <3>2. CASE i # k + 1
      <4>1. i \in 1 .. k /\ i - 1 \in 0 .. n /\ i - 1 # k + 1
        BY <3>2
      <4>2. h[i] = f[i] /\ h[i - 1] = f[i - 1]
        BY <2>2, <4>1
      <4>3. QED
        BY <2>1, <4>1, <4>2
    <3>3. QED
      BY <3>1, <3>2
  <2>5. Good(h, k + 1)
    <3> HIDE DEF h
    <3>1. \A i \in 1 .. k + 1 : h[i] = succ[<<h[i - 1], p[i]>>]
      BY <2>4
    <3>2. QED
      BY <2>3, <2>31, <3>1, Zenon
  <2>6. QED
    <3> HIDE DEF h, Good
    <3>1. k + 1 \in 0 .. n
      OBVIOUS
    <3>2. QED
      BY <2>5, <3>1
<1> HIDE DEF Good
<1>3. n \in S
  <2> HIDE DEF S
  <2>1. \A k \in 0 .. n : k \in S
    BY <1>1, <1>2, Upward
  <2>2. QED
    BY <2>1
<1>4. PICK f : Good(f, n)
  BY <1>3
<1> USE DEF Good
<1>5. f = [i \in 0 .. n |-> IF i = 0 THEN a ELSE succ[<<f[i - 1], p[i]>>]]
  <2>1. \A i \in 0 .. n : f[i] = IF i = 0 THEN a ELSE succ[<<f[i - 1], p[i]>>]
    BY <1>4
  <2>2. f = [i \in 0 .. n |-> f[i]]
    BY <1>4
  <2>3. QED
    BY <2>1, <2>2
<1>6. QED
  BY <1>5 DEF HasTrajectory

\* What the definition of a trajectory says.
TrajectoryEquation(t, p) ==
  /\ DOMAIN Trajectory(t, p) = 0 .. Len(p)
  /\ Trajectory(t, p)[0] = t.init
  /\ \A i \in 1 .. Len(p) :
       Trajectory(t, p)[i] = t.succ[<<Trajectory(t, p)[i - 1], p[i]>>]

LEMMA TrajectorySteps ==
  ASSUME NEW t, NEW p, Len(p) \in Nat
  PROVE  TrajectoryEquation(t, p)
<1> DEFINE Body(f) == [i \in 0 .. Len(p) |->
                         IF i = 0 THEN t.init ELSE t.succ[<<f[i - 1], p[i]>>]]
           g == CHOOSE f : f = Body(f)
<1>1. \E f : f = Body(f)
  <2>1. HasTrajectory(Len(p), t.init, t.succ, p)
    BY TrajectoryExists
  <2>2. QED
    BY <2>1 DEF HasTrajectory
<1>2. g = Body(g)
  <2> HIDE DEF Body
  <2>1. QED
    BY <1>1
<1>3. Trajectory(t, p) = g
  BY DEF Trajectory
<1>4. /\ DOMAIN g = 0 .. Len(p) /\ g[0] = t.init
      /\ \A i \in 1 .. Len(p) : g[i] = t.succ[<<g[i - 1], p[i]>>]
  <2> HIDE DEF g
  <2>1. QED
    BY <1>2
<1>5. QED
  <2> HIDE DEF g
  <2>1. QED
    BY <1>3, <1>4 DEF TrajectoryEquation

\* Sequences that start alike lead through the same states.
LEMMA SameTrajectory ==
  ASSUME NEW t, NEW p, NEW q, NEW n \in Nat, Len(p) \in Nat, Len(q) \in Nat,
         n <= Len(p), n <= Len(q), \A i \in 1 .. n : p[i] = q[i]
  PROVE  AgreeUpTo(n, Trajectory(t, p), Trajectory(t, q))
<1> DEFINE f == Trajectory(t, p)
           g == Trajectory(t, q)
<1>1. TrajectoryEquation(t, p) /\ TrajectoryEquation(t, q)
  BY TrajectorySteps
<1>2. f[0] = g[0]
  BY <1>1 DEF TrajectoryEquation
<1>3. ASSUME NEW i \in 1 .. n, f[i - 1] = g[i - 1]
      PROVE  f[i] = g[i]
  <2>1. i \in 1 .. Len(p) /\ i \in 1 .. Len(q) /\ p[i] = q[i]
    OBVIOUS
  <2>2. f[i] = t.succ[<<f[i - 1], p[i]>>] /\ g[i] = t.succ[<<g[i - 1], q[i]>>]
    <3> HIDE DEF f, g
    <3>1. QED
      BY <1>1, <2>1 DEF TrajectoryEquation, f, g
  <2>3. QED
    BY <1>3, <2>1, <2>2
<1>4. Alike(n, f, g)
  <2> HIDE DEF f, g
  <2>1. QED
    BY <1>2, <1>3 DEF Alike
<1>5. QED
  BY <1>4, PrefixUnique

\* What follows succ along p is the trajectory of p.
LEMMA IsTrajectory ==
  ASSUME NEW t, NEW p, Len(p) \in Nat, NEW f, f[0] = t.init,
         \A i \in 1 .. Len(p) : f[i] = t.succ[<<f[i - 1], p[i]>>]
  PROVE  AgreeUpTo(Len(p), Trajectory(t, p), f)
<1> DEFINE g == Trajectory(t, p)
<1>1. TrajectoryEquation(t, p)
  BY TrajectorySteps
<1>2. g[0] = f[0]
  BY <1>1 DEF TrajectoryEquation
<1>3. ASSUME NEW i \in 1 .. Len(p), g[i - 1] = f[i - 1]
      PROVE  g[i] = f[i]
  <2>1. g[i] = t.succ[<<g[i - 1], p[i]>>]
    <3> HIDE DEF g
    <3>1. QED
      BY <1>1 DEF TrajectoryEquation, g
  <2>2. QED
    BY <1>3, <2>1
<1>4. Alike(Len(p), g, f)
  <2> HIDE DEF g
  <2>1. QED
    BY <1>2, <1>3 DEF Alike
<1>5. QED
  BY <1>4, PrefixUnique

\* The beginning of a sequence.
LEMMA Beginning ==
  ASSUME NEW S, NEW p \in Seq(S), NEW i \in 0 .. Len(p)
  PROVE  /\ SubSeq(p, 1, i) \in Seq(S) /\ Len(SubSeq(p, 1, i)) = i
         /\ \A j \in 1 .. i : SubSeq(p, 1, i)[j] = p[j]
<1> DEFINE q == SubSeq(p, 1, i)
<1>1. i \in Int /\ 1 \in Int /\ \A j \in 1 .. i : p[j] \in S
  OBVIOUS
<1>2. /\ q \in Seq(S)
      /\ Len(q) = IF 1 <= i THEN i - 1 + 1 ELSE 0
      /\ \A j \in 1 .. i - 1 + 1 : q[j] = p[1 + j - 1]
  <2> HIDE DEF q
  <2>1. QED
    BY <1>1, SubSeqProperties DEF q
<1>3. Len(q) = i
  <2> HIDE DEF q
  <2>1. QED
    BY <1>2
<1>4. ASSUME NEW j \in 1 .. i
      PROVE  q[j] = p[j]
  <2> HIDE DEF q
  <2>1. j \in 1 .. i - 1 + 1 /\ 1 + j - 1 = j
    BY <1>1
  <2>2. QED
    BY <1>2, <2>1
<1>5. QED
  BY <1>2, <1>3, <1>4

\* The costs of the beginnings of a sequence of operators.
Costs(t, p) == [i \in 0 .. Len(p) |-> PlanCost(t, SubSeq(p, 1, i))]

\* They start with 0 and grow by the cost of each operator.
CostEquation(t, p) ==
  /\ Costs(t, p) \in [0 .. Len(p) -> Nat]
  /\ Costs(t, p)[0] = 0
  /\ \A i \in 1 .. Len(p) : Costs(t, p)[i] = Costs(t, p)[i - 1] + t.cost[p[i]]
  /\ PlanCost(t, p) = Costs(t, p)[Len(p)]

IsSum(t, p, c) ==
  /\ c \in [0 .. Len(p) -> Nat] /\ c[0] = 0
  /\ \A i \in 1 .. Len(p) : c[i] = c[i - 1] + t.cost[p[i]]

LEMMA SumExists ==
  ASSUME NEW t, NEW p \in Seq(t.ops), t.cost \in [t.ops -> Nat]
  PROVE  \E c : IsSum(t, p, c)
<1> DEFINE n == Len(p)
           step == [x \in Nat \X (1 .. n) |-> x[1] + t.cost[p[x[2]]]]
<1>1. n \in Nat /\ 0 \in Nat /\ \A i \in 1 .. n : p[i] \in t.ops
  OBVIOUS
<1>2. step \in [Nat \X (1 .. n) -> Nat]
  BY <1>1
<1>3. HasPrefixFunction(n, Nat, 0, step)
  <2> HIDE DEF step, n
  <2>1. QED
    BY <1>1, <1>2, PrefixRecursion
<1>4. PICK c \in [0 .. n -> Nat] :
        c[0] = 0 /\ \A i \in 1 .. n : c[i] = step[<<c[i - 1], i>>]
  <2> HIDE DEF step, n
  <2>1. QED
    BY <1>3, Zenon DEF HasPrefixFunction
<1>5. \A i \in 1 .. n : c[i] = c[i - 1] + t.cost[p[i]]
  <2> SUFFICES ASSUME NEW i \in 1 .. n
               PROVE  c[i] = c[i - 1] + t.cost[p[i]]
    OBVIOUS
  <2>1. c[i - 1] \in Nat
    OBVIOUS
  <2>2. step[<<c[i - 1], i>>] = c[i - 1] + t.cost[p[i]]
    BY <2>1
  <2>3. QED
    BY <1>4, <2>2
<1>6. QED
  BY <1>4, <1>5 DEF IsSum

LEMMA SumIsCost ==
  ASSUME NEW t, NEW p \in Seq(t.ops), t.cost \in [t.ops -> Nat], NEW c, IsSum(t, p, c)
  PROVE  PlanCost(t, p) = c[Len(p)]
<1> DEFINE n == Len(p)
           Body(f) == [i \in 0 .. n |-> IF i = 0 THEN 0 ELSE f[i - 1] + t.cost[p[i]]]
           g == CHOOSE f : f = Body(f)
<1>1. c = Body(c)
  BY DEF IsSum
<1>2. g = Body(g)
  <2> HIDE DEF Body
  <2>1. QED
    BY <1>1
<1>3. PlanCost(t, p) = g[n]
  BY DEF PlanCost
<1>4. g[0] = 0 /\ \A i \in 1 .. n : g[i] = g[i - 1] + t.cost[p[i]]
  <2> HIDE DEF g
  <2>1. QED
    BY <1>2
<1>5. Alike(n, g, c)
  <2> HIDE DEF g
  <2>1. QED
    BY <1>4 DEF Alike, IsSum
<1>6. AgreeUpTo(n, g, c) /\ n \in Nat
  <2>1. n \in Nat
    OBVIOUS
  <2> HIDE DEF g, n
  <2>2. QED
    BY <1>5, <2>1, PrefixUnique
<1>7. QED
  <2> HIDE DEF g
  <2>1. QED
    BY <1>3, <1>6 DEF AgreeUpTo

LEMMA CostSteps ==
  ASSUME NEW t, NEW p \in Seq(t.ops), t.cost \in [t.ops -> Nat]
  PROVE  CostEquation(t, p)
<1> DEFINE n == Len(p)
<1>1. PICK c : IsSum(t, p, c)
  BY SumExists
<1>2. ASSUME NEW i \in 0 .. n
      PROVE  PlanCost(t, SubSeq(p, 1, i)) = c[i]
  <2> DEFINE q == SubSeq(p, 1, i)
             d == [j \in 0 .. i |-> c[j]]
  <2>1. q \in Seq(t.ops) /\ Len(q) = i /\ \A j \in 1 .. i : q[j] = p[j]
    BY Beginning
  <2>2. d \in [0 .. i -> Nat] /\ d[0] = 0
    BY <1>1 DEF IsSum
  <2>3. ASSUME NEW j \in 1 .. i
        PROVE  d[j] = d[j - 1] + t.cost[q[j]]
    <3>1. j \in 1 .. n /\ j \in 0 .. i /\ j - 1 \in 0 .. i
      OBVIOUS
    <3>2. c[j] = c[j - 1] + t.cost[p[j]]
      BY <1>1, <3>1 DEF IsSum
    <3>3. d[j] = c[j] /\ d[j - 1] = c[j - 1]
      BY <3>1
    <3>4. q[j] = p[j]
      BY <2>1
    <3> HIDE DEF q, d
    <3>5. QED
      BY <3>2, <3>3, <3>4
  <2>4. IsSum(t, q, d)
    <3> HIDE DEF q, d
    <3>1. QED
      BY <2>1, <2>2, <2>3 DEF IsSum
  <2>5. PlanCost(t, q) = d[Len(q)]
    <3> HIDE DEF q, d
    <3>1. QED
      BY <2>1, <2>4, SumIsCost
  <2>6. d[i] = c[i]
    OBVIOUS
  <2>7. QED
    BY <2>1, <2>5, <2>6
<1>3. Costs(t, p) = c
  BY <1>1, <1>2 DEF Costs, IsSum
<1>4. PlanCost(t, p) = c[n]
  BY <1>1, SumIsCost
<1>5. QED
  BY <1>1, <1>3, <1>4 DEF CostEquation, IsSum

\* The cost of a sequence that gets one more operator.
LEMMA CostOfAppend ==
  ASSUME NEW t, NEW p \in Seq(t.ops), NEW o \in t.ops, t.cost \in [t.ops -> Nat]
  PROVE  /\ PlanCost(t, p) \in Nat
         /\ PlanCost(t, Append(p, o)) = PlanCost(t, p) + t.cost[o]
<1> DEFINE q == Append(p, o)
<1>1. /\ q \in Seq(t.ops) /\ Len(q) = Len(p) + 1 /\ q[Len(q)] = o
      /\ SubSeq(q, 1, Len(p)) = p /\ Len(p) \in Nat
  OBVIOUS
<1>2. CostEquation(t, q) /\ CostEquation(t, p)
  <2> HIDE DEF q
  <2>1. QED
    BY <1>1, CostSteps
<1>3. Costs(t, q)[Len(p)] = PlanCost(t, p)
  <2> HIDE DEF q
  <2>1. Len(p) \in 0 .. Len(q)
    BY <1>1
  <2>2. Costs(t, q)[Len(p)] = PlanCost(t, SubSeq(q, 1, Len(p)))
    BY <2>1 DEF Costs
  <2>3. QED
    BY <1>1, <2>2
<1>4. QED
  <2> HIDE DEF q
  <2>1. Len(q) \in 1 .. Len(q) /\ Len(q) - 1 = Len(p)
    BY <1>1
  <2>2. QED
    BY <1>1, <1>2, <1>3, <2>1 DEF CostEquation, q

LEMMA CostOfEmpty ==
  ASSUME NEW t, t.cost \in [t.ops -> Nat]
  PROVE  PlanCost(t, <<>>) = 0
<1>1. <<>> \in Seq(t.ops) /\ Len(<<>>) = 0
  OBVIOUS
<1>2. CostEquation(t, <<>>)
  BY <1>1, CostSteps
<1>3. QED
  BY <1>1, <1>2 DEF CostEquation

-----------------------------------------------------------------------------
(* The inductive invariant of the graph and its distances.                 *)

\* The distances to the goal that show that the plan is a cheapest one.
Distances ==
  {h \in Potentials(task, best_plan_cost) : h[task.init] = best_plan_cost}

\* Types that the state of the searches has.
TypeInv ==
  /\ TypeOK
  /\ pc = "reorder" =>
       dfs_queue \in Seq([path : Seq(task.states), rest : Seq(task.ops)])
  /\ pc = "dump" =>
       /\ dfs_queue \in Seq([path : Seq(task.states), ops : Seq(task.ops), cost : Nat])
       /\ after \in {"start reorderings", "start symmetries", "next generator", "done"}
  /\ pc = "symmetry" => gen \in 1 .. Len(task.syms)
  /\ files \in Seq(Seq(task.ops))
  /\ optimal_plans \subseteq Seq(task.ops) /\ IsFiniteSet(optimal_plans)
  /\ non_optimal_plans \subseteq Seq(task.ops) /\ IsFiniteSet(non_optimal_plans)

\* The plan stays in the graph; without operators it gives none.
PlanStays ==
  /\ pc # "add plan" => FollowsGraph(plan)
  /\ plan = <<>> =>
       /\ nodes = {} /\ edges = {}
       /\ pc = "reorder" => \A i \in DOMAIN dfs_queue : dfs_queue[i].rest = <<>>

\* No known distance is too small.
Lower ==
  \A h \in Distances, s \in task.states :
    goal_distance[s] # -1 => h[s] <= goal_distance[s]

\* The search from the goals has settled what it has taken from its queue.
Settling ==
  pc = "backward" =>
    /\ \A s \in nodes \cap task.goal : goal_distance[s] = 0
    /\ \A x \in open : /\ x[2] \in nodes /\ goal_distance[x[2]] # -1
                       /\ goal_distance[x[2]] <= x[1]
    /\ \A e \in edges : goal_distance[task.succ[e]] # -1 =>
         \/ <<goal_distance[task.succ[e]], task.succ[e]>> \in open
         \/ /\ goal_distance[e[1]] # -1
            /\ goal_distance[e[1]] <= goal_distance[task.succ[e]] + task.cost[e[2]]
    /\ \A s \in nodes \ task.goal : goal_distance[s] # -1 =>
         \E e \in edges :
           /\ e[1] = s /\ goal_distance[task.succ[e]] # -1
           /\ goal_distance[task.succ[e]] + task.cost[e[2]] <= goal_distance[s]

\* The distance of s is that to the goal.
Exact(s) ==
  goal_distance[s] # -1 /\ \A h \in Distances : goal_distance[s] = h[s]

\* All edges lead towards the goal; what is reached from the initial state is
\* at its distance, and so will be what is in the queue.
Reaching ==
  pc \in {"start forward", "forward"} =>
    /\ \A e \in edges : Tight(e)
    /\ plan # <<>> => Exact(task.init)
    /\ pc = "forward" =>
         /\ init_distance[task.init] # -1
         /\ \A s \in nodes : init_distance[s] # -1 => Exact(s)
         /\ \A x \in open : x[2] \in nodes => Exact(x[2])
         /\ \A e \in edges : init_distance[e[1]] # -1 =>
              \/ init_distance[task.succ[e]] # -1
              \/ \E v \in Nat : <<v, e[1]>> \in open

\* From then on all nodes are at their distances.
ExactGraph ==
  Pruned => /\ \A s \in nodes : Exact(s)
            /\ \A e \in edges : Tight(e)

Inv ==
  /\ TypeInv /\ IndexesAgree /\ PlanStays /\ Lower
  /\ Settling /\ Reaching /\ ExactGraph

\* End of invariants
-----------------------------------------------------------------------------
(* What the assumptions say of a task and a plan.                          *)

\* The operators of the plan lead from state to state and to the goal.
PlanSteps(t, p) ==
  /\ p \in Seq(t.ops) /\ Len(p) \in Nat
  /\ DOMAIN Trajectory(t, p) = 0 .. Len(p)
  /\ \A i \in 0 .. Len(p) : Trajectory(t, p)[i] \in t.states
  /\ Trajectory(t, p)[0] = t.init
  /\ \A i \in 1 .. Len(p) :
       /\ <<Trajectory(t, p)[i - 1], p[i]>> \in DOMAIN t.succ
       /\ t.succ[<<Trajectory(t, p)[i - 1], p[i]>>] = Trajectory(t, p)[i]
  /\ \A i, j \in 0 .. Len(p) : Trajectory(t, p)[i] = Trajectory(t, p)[j] => i = j
  /\ \A i \in 0 .. Len(p) : Trajectory(t, p)[i] \in t.goal <=> i = Len(p)

LEMMA PlanIsSound ==
  ASSUME NEW t \in Tasks, NEW p \in PlansOf[t]
  PROVE  PlanSteps(t, p)
<1> DEFINE f == Trajectory(t, p)
<1>1. /\ p \in Seq(t.ops)
      /\ \A i \in 1 .. Len(p) : <<f[i - 1], p[i]>> \in DOMAIN t.succ
      /\ \A i, j \in 0 .. Len(p) : f[i] = f[j] => i = j
      /\ \A i \in 0 .. Len(p) : f[i] \in t.goal <=> i = Len(p)
  BY PlansAssumption
<1>2. Len(p) \in Nat
  BY <1>1
<1>3. TrajectoryEquation(t, p)
  BY <1>2, TrajectorySteps
<1>4. /\ DOMAIN f = 0 .. Len(p) /\ f[0] = t.init
      /\ \A i \in 1 .. Len(p) : f[i] = t.succ[<<f[i - 1], p[i]>>]
  BY <1>3 DEF TrajectoryEquation
<1>5. ASSUME NEW i \in 0 .. Len(p)
      PROVE  f[i] \in t.states
  <2> HIDE DEF f
  <2>1. CASE i = 0
    BY <2>1, <1>4, TaskAssumption
  <2>2. CASE i # 0
    <3>1. i \in 1 .. Len(p)
      BY <1>2, <2>2
    <3>2. f[i] = t.succ[<<f[i - 1], p[i]>>] /\ <<f[i - 1], p[i]>> \in DOMAIN t.succ
      BY <3>1, <1>1, <1>4
    <3>3. QED
      BY <3>2, TaskAssumption
  <2>3. QED
    BY <2>1, <2>2
<1>6. QED
  <2> HIDE DEF f
  <2>1. QED
    BY <1>1, <1>2, <1>4, <1>5 DEF PlanSteps, f

\* Along a cheapest plan, the distances are the cost that is left.
LEMMA PlanDistances ==
  ASSUME NEW t \in Tasks, NEW p \in PlansOf[t],
         NEW h \in Potentials(t, PlanCost(t, p)), h[t.init] = PlanCost(t, p),
         NEW i \in 0 .. Len(p)
  PROVE  /\ h[Trajectory(t, p)[i]] = PlanCost(t, p) - Costs(t, p)[i]
         /\ PlanCost(t, p) - Costs(t, p)[i] \in Nat
<1> DEFINE f == Trajectory(t, p)
           c == Costs(t, p)
           n == Len(p)
           b == PlanCost(t, p)
<1>1. /\ n \in Nat
      /\ \A k \in 0 .. n : f[k] \in t.states
      /\ f[0] = t.init
      /\ \A k \in 1 .. n : /\ <<f[k - 1], p[k]>> \in DOMAIN t.succ
                           /\ t.succ[<<f[k - 1], p[k]>>] = f[k]
                           /\ p[k] \in t.ops
      /\ f[n] \in t.goal
  <2>1. PlanSteps(t, p)
    BY PlanIsSound
  <2>2. n \in 0 .. n
    BY <2>1 DEF PlanSteps
  <2>3. \A k \in 1 .. n : p[k] \in t.ops
    BY <2>1 DEF PlanSteps
  <2>4. QED
    BY <2>1, <2>2, <2>3 DEF PlanSteps
<1>2. /\ c \in [0 .. n -> Nat] /\ c[0] = 0
      /\ \A k \in 1 .. n : c[k] = c[k - 1] + t.cost[p[k]]
      /\ b = c[n]
  <2>1. p \in Seq(t.ops)
    BY PlanIsSound DEF PlanSteps
  <2>2. CostEquation(t, p)
    BY <2>1, CostSteps, TaskAssumption
  <2>3. QED
    BY <2>2 DEF CostEquation
<1>3. b \in Nat
  BY <1>1, <1>2
<1>4. /\ h \in [t.states -> 0 .. b]
      /\ \A s \in t.goal : h[s] = 0
      /\ \A x \in DOMAIN t.succ : h[x[1]] <= h[t.succ[x]] + t.cost[x[2]]
  BY DEF Potentials
<1>5. h[f[0]] = b
  BY <1>1
<1>6. h[f[n]] = 0
  BY <1>1, <1>4
<1>7. \A k \in 1 .. n : t.cost[p[k]] \in Nat
  BY <1>1, TaskAssumption
<1> HIDE DEF f, c, b, n
<1>8. ASSUME NEW k \in 1 .. n
      PROVE  /\ h[f[k - 1]] <= h[f[k]] + t.cost[p[k]]
             /\ h[f[k - 1]] \in Nat /\ h[f[k]] \in Nat
             /\ c[k - 1] \in Nat /\ c[k] \in Nat /\ c[k] = c[k - 1] + t.cost[p[k]]
  <2> DEFINE x == <<f[k - 1], p[k]>>
  <2>1. x \in DOMAIN t.succ /\ t.succ[x] = f[k] /\ x[1] = f[k - 1] /\ x[2] = p[k]
    BY <1>1
  <2>2. h[x[1]] <= h[t.succ[x]] + t.cost[x[2]]
    <3> HIDE DEF x
    <3>1. QED
      BY <1>4, <2>1
  <2>3. k - 1 \in 0 .. n /\ k \in 0 .. n
    BY <1>1
  <2>4. f[k - 1] \in t.states /\ f[k] \in t.states
    BY <1>1, <2>3
  <2>5. h[f[k - 1]] \in Nat /\ h[f[k]] \in Nat
    BY <1>3, <1>4, <2>4
  <2>6. h[f[k - 1]] <= h[f[k]] + t.cost[p[k]]
    <3> HIDE DEF x
    <3>1. QED
      BY <2>1, <2>2
  <2>7. QED
    BY <1>2, <2>3, <2>5, <2>6
<1>9. \A k \in 0 .. n : h[f[k]] >= b - c[k]
  <2> DEFINE S == {k \in 0 .. n : h[f[k]] >= b - c[k]}
  <2>1. 0 \in S
    BY <1>1, <1>2, <1>3, <1>5
  <2>2. ASSUME NEW k \in 0 .. n - 1, h[f[k]] >= b - c[k]
        PROVE  h[f[k + 1]] >= b - c[k + 1]
    <3> DEFINE x == h[f[k]]
               y == h[f[k + 1]]
               u == c[k]
               v == c[k + 1]
               w == t.cost[p[k + 1]]
    <3>1. k + 1 \in 1 .. n /\ k + 1 - 1 = k
      BY <1>1
    <3>2. x <= y + w /\ x \in Nat /\ y \in Nat /\ u \in Nat /\ v \in Nat /\ v = u + w
      BY <1>8, <3>1
    <3>3. w \in Nat /\ x >= b - u
      BY <1>7, <2>2, <3>1
    <3> HIDE DEF x, y, u, v, w
    <3>4. y >= b - v
      BY <1>3, <3>2, <3>3
    <3>5. QED
      BY <3>4 DEF y, v
  <2>3. \A k \in 0 .. n - 1 : k \in S => k + 1 \in S
    BY <1>1, <2>2
  <2>4. \A k \in 0 .. n : k \in S
    <3> HIDE DEF S
    <3>1. QED
      BY <1>1, <2>1, <2>3, Upward
  <2>5. QED
    BY <2>4
<1>10. \A k \in 0 .. n : h[f[k]] <= b - c[k]
  <2> DEFINE S == {k \in 0 .. n : h[f[k]] <= b - c[k]}
  <2>1. n \in S
    BY <1>1, <1>2, <1>3, <1>6
  <2>2. ASSUME NEW k \in 1 .. n, h[f[k]] <= b - c[k]
        PROVE  h[f[k - 1]] <= b - c[k - 1]
    <3> DEFINE x == h[f[k - 1]]
               y == h[f[k]]
               u == c[k - 1]
               v == c[k]
               w == t.cost[p[k]]
    <3>1. x <= y + w /\ x \in Nat /\ y \in Nat /\ u \in Nat /\ v \in Nat /\ v = u + w
      BY <1>8
    <3>2. w \in Nat /\ y <= b - v
      BY <1>7, <2>2
    <3> HIDE DEF x, y, u, v, w
    <3>3. x <= b - u
      BY <1>3, <3>1, <3>2
    <3>4. QED
      BY <3>3 DEF x, u
  <2>3. \A k \in 1 .. n : k \in S => k - 1 \in S
    BY <1>1, <2>2
  <2>4. \A k \in 0 .. n : k \in S
    <3> HIDE DEF S
    <3>1. QED
      BY <1>1, <2>1, <2>3, Downward
  <2>5. QED
    BY <2>4
<1>11. i \in 0 .. n /\ h[f[i]] \in Nat /\ c[i] \in Nat
  <2>1. i \in 0 .. n /\ f[i] \in t.states
    BY <1>1 DEF n
  <2>2. QED
    BY <1>2, <1>3, <1>4, <2>1
<1>12. h[f[i]] = b - c[i]
  BY <1>3, <1>9, <1>10, <1>11
<1>13. QED
  BY <1>3, <1>11, <1>12 DEF f, c, b, n

\* What a symmetry of a task does.
LEMMA SymmetryFacts ==
  ASSUME NEW t \in Tasks, NEW i \in 1 .. Len(t.syms)
  PROVE  LET f == t.syms[i].state
             g == t.syms[i].op
         IN
         /\ f \in [t.states -> t.states] /\ g \in [t.ops -> t.ops]
         /\ \A r, s \in t.states : f[r] = f[s] => r = s
         /\ f[t.init] = t.init
         /\ \A s \in t.states : s \in t.goal <=> f[s] \in t.goal
         /\ \A o \in t.ops : t.cost[g[o]] = t.cost[o]
         /\ \A x \in DOMAIN t.succ :
              /\ Permuted(t.syms[i], x) \in DOMAIN t.succ
              /\ t.succ[Permuted(t.syms[i], x)] = f[t.succ[x]]
<1> DEFINE f == t.syms[i].state
           g == t.syms[i].op
           S == [state : [t.states -> t.states], op : [t.ops -> t.ops]]
<1>1. t.syms \in Seq(S)
  BY TaskAssumption
<1>2. t.syms[i] \in S
  <2> HIDE DEF S
  <2>1. QED
    BY <1>1
<1>3. f \in [t.states -> t.states] /\ g \in [t.ops -> t.ops]
  BY <1>2
<1>4. /\ \A r, s \in t.states : f[r] = f[s] => r = s
      /\ f[t.init] = t.init
      /\ \A s \in t.states : s \in t.goal <=> f[s] \in t.goal
      /\ \A o \in t.ops : t.cost[g[o]] = t.cost[o]
  BY TaskAssumption
<1> DEFINE sym == t.syms[i]
<1>5. \A x \in DOMAIN t.succ : /\ Permuted(sym, x) \in DOMAIN t.succ
                               /\ t.succ[Permuted(sym, x)] = sym.state[t.succ[x]]
  BY ZenonT(30), TaskAssumption
<1>6. QED
  BY <1>3, <1>4, <1>5

\* Distances to the goal, of the symmetric states.
LEMMA SymmetricDistances ==
  ASSUME NEW t \in Tasks, NEW b \in Nat, NEW h \in Potentials(t, b),
         NEW i \in 1 .. Len(t.syms)
  PROVE  LET k == [s \in t.states |-> h[t.syms[i].state[s]]]
         IN  k \in Potentials(t, b) /\ k[t.init] = h[t.init]
<1> DEFINE f == t.syms[i].state
           g == t.syms[i].op
           k == [s \in t.states |-> h[f[s]]]
<1>1. /\ f \in [t.states -> t.states] /\ g \in [t.ops -> t.ops]
      /\ f[t.init] = t.init
      /\ \A s \in t.states : s \in t.goal <=> f[s] \in t.goal
      /\ \A o \in t.ops : t.cost[g[o]] = t.cost[o]
      /\ \A x \in DOMAIN t.succ : /\ <<f[x[1]], g[x[2]]>> \in DOMAIN t.succ
                                  /\ t.succ[<<f[x[1]], g[x[2]]>>] = f[t.succ[x]]
  BY SymmetryFacts DEF Permuted
<1>2. /\ t.init \in t.states /\ t.goal \subseteq t.states
      /\ DOMAIN t.succ \subseteq t.states \X t.ops
      /\ \A x \in DOMAIN t.succ : t.succ[x] \in t.states
  BY TaskAssumption
<1>3. /\ h \in [t.states -> 0 .. b]
      /\ \A s \in t.goal : h[s] = 0
      /\ \A x \in DOMAIN t.succ : h[x[1]] <= h[t.succ[x]] + t.cost[x[2]]
  BY DEF Potentials
<1> HIDE DEF f, g
<1>4. k \in [t.states -> 0 .. b] /\ k[t.init] = h[t.init]
  BY <1>1, <1>2, <1>3
<1>5. \A s \in t.goal : k[s] = 0
  BY <1>1, <1>2, <1>3
<1>6. ASSUME NEW x \in DOMAIN t.succ
      PROVE  k[x[1]] <= k[t.succ[x]] + t.cost[x[2]]
  <2> DEFINE y == <<f[x[1]], g[x[2]]>>
  <2>1. x[1] \in t.states /\ x[2] \in t.ops /\ t.succ[x] \in t.states
    BY <1>2
  <2>2. y \in DOMAIN t.succ /\ t.succ[y] = f[t.succ[x]] /\ t.cost[g[x[2]]] = t.cost[x[2]]
    BY <1>1, <2>1
  <2>3. h[y[1]] <= h[t.succ[y]] + t.cost[y[2]]
    <3> HIDE DEF y
    <3>1. QED
      BY <1>3, <2>2
  <2>4. k[x[1]] = h[y[1]] /\ k[t.succ[x]] = h[t.succ[y]] /\ t.cost[y[2]] = t.cost[x[2]]
    BY <2>1, <2>2
  <2>5. QED
    <3> HIDE DEF y, k
    <3>1. QED
      BY <2>3, <2>4
<1>7. k \in Potentials(t, b)
  <2> HIDE DEF k
  <2>1. QED
    BY <1>4, <1>5, <1>6 DEF Potentials
<1>8. QED
  BY <1>4, <1>7 DEF f

-----------------------------------------------------------------------------
(* The indexes of the graph.                                               *)

\* Nodes N, edges E and origin states O belong together.
GraphOK(t, N, E, O) ==
  /\ N \subseteq t.states /\ E \subseteq DOMAIN t.succ
  /\ DOMAIN O \subseteq t.ops /\ \A o \in DOMAIN O : O[o] \subseteq t.states
  /\ \A e \in DOMAIN t.succ : e \in E <=> e[2] \in DOMAIN O /\ e[1] \in O[e[2]]
  /\ \A e \in E : e[1] \in N /\ t.succ[e] \in N

\* The origin states with the new edges.
OriginWith(O, E, new) ==
  [o \in DOMAIN O \cup {e[2] : e \in new} |->
     (IF o \in DOMAIN O THEN O[o] ELSE {})
     \cup {e[1] : e \in {x \in new \ E : x[2] = o}}]

LEMMA GraphGrows ==
  ASSUME NEW t \in Tasks, NEW N, NEW E, NEW O, GraphOK(t, N, E, O),
         NEW new \in SUBSET DOMAIN t.succ, NEW M \in SUBSET t.states,
         N \subseteq M, \A e \in new : e[1] \in M /\ t.succ[e] \in M
  PROVE  GraphOK(t, M, E \cup new, OriginWith(O, E, new))
<1> DEFINE P == OriginWith(O, E, new)
<1>1. DOMAIN t.succ \subseteq t.states \X t.ops
  BY TaskAssumption
<1>2. /\ DOMAIN P = DOMAIN O \cup {e[2] : e \in new}
      /\ \A o \in DOMAIN P : P[o] = (IF o \in DOMAIN O THEN O[o] ELSE {})
                                    \cup {e[1] : e \in {x \in new \ E : x[2] = o}}
  BY DEF OriginWith
<1>3. \A e \in DOMAIN t.succ : e[1] \in t.states /\ e[2] \in t.ops /\ e = <<e[1], e[2]>>
  BY <1>1
<1>4. DOMAIN P \subseteq t.ops
  <2> HIDE DEF P
  <2>1. QED
    BY <1>2, <1>3 DEF GraphOK
<1>5. ASSUME NEW o \in DOMAIN P, NEW s
      PROVE  s \in P[o] <=> (o \in DOMAIN O /\ s \in O[o])
                            \/ \E e \in new \ E : e[1] = s /\ e[2] = o
  <2> HIDE DEF P
  <2>1. QED
    BY <1>2
<1>6. ASSUME NEW o \in DOMAIN P
      PROVE  P[o] \subseteq t.states
  <2> HIDE DEF P
  <2>1. QED
    BY <1>3, <1>5 DEF GraphOK
<1>7. ASSUME NEW e \in DOMAIN t.succ
      PROVE  e \in E \cup new <=> e[2] \in DOMAIN P /\ e[1] \in P[e[2]]
  <2> HIDE DEF P
  <2>1. e \in E <=> e[2] \in DOMAIN O /\ e[1] \in O[e[2]]
    BY DEF GraphOK
  <2>2. ASSUME e \in new
        PROVE  e[2] \in DOMAIN P
    BY <1>2, <2>2
  <2>3. ASSUME NEW d \in new, d[1] = e[1], d[2] = e[2]
        PROVE  d = e
    BY <1>3, <2>3
  <2>4. CASE e \in E
    <3>1. e[2] \in DOMAIN P
      BY <1>2, <2>1, <2>4
    <3>2. QED
      BY <1>5, <2>1, <2>4, <3>1
  <2>5. CASE e \notin E
    BY <1>5, <2>1, <2>2, <2>3, <2>5
  <2>6. QED
    BY <2>4, <2>5
<1>8. \A e \in E \cup new : e[1] \in M /\ t.succ[e] \in M
  BY DEF GraphOK
<1>9. E \cup new \subseteq DOMAIN t.succ
  BY DEF GraphOK
<1>10. QED
  <2> HIDE DEF P
  <2>1. QED
    BY <1>4, <1>6, <1>7, <1>8, <1>9 DEF GraphOK, P

\* The origin states without removed edges.
OriginLess(O, removed) == [o \in DOMAIN O |-> {s \in O[o] : <<s, o>> \notin removed}]

LEMMA GraphShrinks ==
  ASSUME NEW t \in Tasks, NEW N, NEW E, NEW O, GraphOK(t, N, E, O), NEW removed,
         NEW M \in SUBSET N, \A e \in E \ removed : e[1] \in M /\ t.succ[e] \in M
  PROVE  GraphOK(t, M, E \ removed, OriginLess(O, removed))
<1> DEFINE P == OriginLess(O, removed)
<1>1. \A e \in DOMAIN t.succ : e = <<e[1], e[2]>>
  <2>1. DOMAIN t.succ \subseteq t.states \X t.ops
    BY TaskAssumption
  <2>2. QED
    BY <2>1
<1>2. DOMAIN P = DOMAIN O /\ \A o \in DOMAIN O : P[o] = {s \in O[o] : <<s, o>> \notin removed}
  BY DEF OriginLess
<1> HIDE DEF P
<1>3. DOMAIN P \subseteq t.ops /\ \A o \in DOMAIN P : P[o] \subseteq t.states
  BY <1>2 DEF GraphOK
<1>4. ASSUME NEW e \in DOMAIN t.succ
      PROVE  e \in E \ removed <=> e[2] \in DOMAIN P /\ e[1] \in P[e[2]]
  <2>1. e \in E <=> e[2] \in DOMAIN O /\ e[1] \in O[e[2]]
    BY DEF GraphOK
  <2>2. e = <<e[1], e[2]>>
    BY <1>1
  <2>3. QED
    BY <1>2, <2>1, <2>2
<1>5. M \subseteq t.states /\ E \ removed \subseteq DOMAIN t.succ
  BY DEF GraphOK
<1>6. QED
  BY <1>3, <1>4, <1>5 DEF GraphOK, P

\* A stack after its top was replaced by others.
LEMMA Pushed ==
  ASSUME NEW S, NEW q \in Seq(S), q # <<>>, NEW n \in Nat, NEW f \in [1 .. n -> S]
  PROVE  Top(q) \in S /\ Pop(q) \o f \in Seq(S)
<1>1. Len(q) \in 1 .. Len(q) /\ Len(q) - 1 \in 0 .. Len(q)
  OBVIOUS
<1>2. Top(q) \in S
  BY <1>1 DEF Top
<1>3. Pop(q) \in Seq(S)
  BY <1>1, Beginning DEF Pop
<1>4. f \in Seq(S)
  OBVIOUS
<1>5. QED
  BY <1>2, <1>3, <1>4

-----------------------------------------------------------------------------
(* Every action keeps the invariant.                                       *)

LEMMA SameDistances ==
  ASSUME UNCHANGED input
  PROVE  Distances' = Distances /\ best_plan_cost' = best_plan_cost
BY DEF Distances, best_plan_cost, input

\* There are such distances.
LEMMA DistancesExist ==
  ASSUME TypeOK
  PROVE  /\ best_plan_cost \in Nat /\ Distances # {}
         /\ \A h \in Distances : /\ h \in Potentials(task, best_plan_cost)
                                 /\ h \in [task.states -> 0 .. best_plan_cost]
                                 /\ h[task.init] = best_plan_cost
<1>1. task \in Tasks /\ plan \in PlansOf[task]
  BY DEF TypeOK
<1>2. \E h \in Potentials(task, best_plan_cost) : h[task.init] = best_plan_cost
  BY <1>1, PlansAssumption DEF best_plan_cost
<1>3. CostEquation(task, plan) /\ Len(plan) \in Nat
  <2>1. plan \in Seq(task.ops) /\ Len(plan) \in Nat
    BY <1>1, PlanIsSound DEF PlanSteps
  <2>2. QED
    BY <1>1, <2>1, CostSteps, TaskAssumption
<1>4. best_plan_cost \in Nat
  <2>1. Len(plan) \in 0 .. Len(plan)
    BY <1>3
  <2>2. QED
    BY <1>3, <2>1 DEF CostEquation, best_plan_cost
<1>5. QED
  BY <1>2, <1>4 DEF Distances, Potentials

LEMMA RootEntry ==
  ASSUME NEW t \in Tasks
  PROVE  <<[path |-> <<t.init>>, ops |-> <<>>, cost |-> 0]>>
           \in Seq([path : Seq(t.states), ops : Seq(t.ops), cost : Nat])
<1>1. t.init \in t.states
  BY TaskAssumption
<1> DEFINE r == [path |-> <<t.init>>, ops |-> <<>>, cost |-> 0]
           S == [path : Seq(t.states), ops : Seq(t.ops), cost : Nat]
           i == t.init
           states == t.states
<1>2. <<i>> \in Seq(states)
  <2> HIDE DEF i, states
  <2>1. i \in states
    BY <1>1 DEF i, states
  <2>2. QED
    BY <2>1
<1>3. r \in S
  BY <1>2
<1>4. <<r>> \in Seq(S)
  <2> HIDE DEF r, S
  <2>1. QED
    BY <1>3
<1>5. QED
  BY <1>4

AfterDump == {"start reorderings", "start symmetries", "next generator", "done"}

\* A search for plans starts with the root.
LEMMA DumpStarts ==
  ASSUME TypeInv, NEW n \in Nat, NEW label \in AfterDump, StartDump(n, label),
         task' = task
  PROVE  /\ pc' = "dump" /\ after' = label /\ wanted' = n
         /\ dfs_queue' \in Seq([path : Seq(task.states), ops : Seq(task.ops), cost : Nat])
         /\ UNCHANGED <<optimal_plans, non_optimal_plans, files>>
<1>1. task \in Tasks
  BY DEF TypeInv, TypeOK
<1>2. QED
  BY <1>1, RootEntry DEF StartDump

\* A position on the plan has one state.
LEMMA PlanPosition ==
  ASSUME NEW t \in Tasks, NEW p \in PlansOf[t], NEW i \in 0 .. Len(p)
  PROVE  (CHOOSE j \in 0 .. Len(p) : Trajectory(t, p)[j] = Trajectory(t, p)[i]) = i
BY PlanIsSound DEF PlanSteps

LEMMA FirstPlanKeeps ==
  ASSUME Inv, AddFirstPlan
  PROVE  Inv'
<1> DEFINE f == Trajectory(task, plan)
           n == Len(plan)
           new == {<<f[i - 1], plan[i]>> : i \in 1 .. n}
<1>1. /\ TypeInv /\ TypeOK /\ IndexesAgree /\ PlanStays
      /\ task \in Tasks /\ plan \in PlansOf[task] /\ limit \in Nat
      /\ GraphOK(task, nodes, edges, origin)
  BY LimitAssumption DEF Inv, TypeInv, TypeOK, IndexesAgree, GraphOK
<1>2. /\ pc = "add plan" /\ AddEdges(new) /\ StartDump(1, "start reorderings")
      /\ goal_distance' =
          [s \in task.states |->
             IF plan # <<>> /\ \E i \in 0 .. n : f[i] = s
             THEN best_plan_cost - PlanCost(task, SubSeq(plan, 1,
                    CHOOSE i \in 0 .. n : f[i] = s))
             ELSE -1]
      /\ UNCHANGED <<input, init_distance, open, count_goal_states, symmetry>>
  BY DEF AddFirstPlan
<1>3. task' = task /\ plan' = plan /\ limit' = limit
  BY <1>2 DEF input
<1>4. PlanSteps(task, plan)
  BY <1>1, PlanIsSound
<1>5. new \in SUBSET DOMAIN task.succ
  BY <1>4 DEF PlanSteps
<1>6. GraphOK(task, nodes', edges', origin')
  <2>1. /\ nodes' = nodes \cup {e[1] : e \in new} \cup {task.succ[e] : e \in new}
        /\ edges' = edges \cup new
        /\ origin' = OriginWith(origin, edges, new)
    BY <1>2 DEF AddEdges, OriginWith
  <2> HIDE DEF new
  <2>2. nodes' \in SUBSET task.states
    <3>1. DOMAIN task.succ \subseteq task.states \X task.ops
          /\ \A x \in DOMAIN task.succ : task.succ[x] \in task.states
      BY <1>1, TaskAssumption
    <3>2. QED
      BY <1>1, <1>5, <2>1, <3>1 DEF GraphOK
  <2>3. nodes \subseteq nodes' /\ \A e \in new : e[1] \in nodes' /\ task.succ[e] \in nodes'
    BY <2>1
  <2>4. QED
    BY <1>1, <1>5, <2>1, <2>2, <2>3, GraphGrows
<1>7. ASSUME NEW s \in task.states
      PROVE  /\ goal_distance'[s] \in Nat \cup {-1}
             /\ \A h \in Distances : goal_distance'[s] # -1 => h[s] <= goal_distance'[s]
  <2>1. CASE plan # <<>> /\ \E i \in 0 .. n : f[i] = s
    <3>1. PICK i \in 0 .. n : f[i] = s
      BY <2>1
    <3>2. (CHOOSE j \in 0 .. n : f[j] = s) = i
      BY <1>1, <3>1, PlanPosition
    <3>3. goal_distance'[s] = best_plan_cost - PlanCost(task, SubSeq(plan, 1, i))
      BY <1>2, <2>1, <3>2
    <3>4. goal_distance'[s] = best_plan_cost - Costs(task, plan)[i]
      BY <3>3 DEF Costs
    <3>5. ASSUME NEW h \in Distances
          PROVE  h[s] = goal_distance'[s] /\ h[s] \in Nat
      <4>1. h \in Potentials(task, best_plan_cost) /\ h[task.init] = best_plan_cost
        BY DEF Distances
      <4>2. /\ h[f[i]] = best_plan_cost - Costs(task, plan)[i]
            /\ best_plan_cost - Costs(task, plan)[i] \in Nat
        BY <1>1, <4>1, PlanDistances DEF best_plan_cost
      <4>3. QED
        BY <3>1, <3>4, <4>2
    <3>6. Distances # {}
      BY <1>1, DistancesExist
    <3>7. QED
      BY <3>5, <3>6
  <2>2. CASE ~ (plan # <<>> /\ \E i \in 0 .. n : f[i] = s)
    BY <1>2, <2>2
  <2>3. QED
    BY <2>1, <2>2
<1>8. goal_distance' \in [task.states -> Nat \cup {-1}]
  <2>1. DOMAIN goal_distance' = task.states
        /\ goal_distance' = [s \in task.states |-> goal_distance'[s]]
    BY <1>2
  <2>2. QED
    BY <1>7, <2>1
<1>9. /\ pc' = "dump" /\ after' = "start reorderings" /\ wanted' = 1
      /\ dfs_queue' \in Seq([path : Seq(task.states), ops : Seq(task.ops), cost : Nat])
      /\ UNCHANGED <<optimal_plans, non_optimal_plans, files>>
  BY <1>1, <1>2, <1>3, DumpStarts DEF AfterDump
<1>10. TypeOK' /\ IndexesAgree'
  <2>1. /\ open' = open /\ init_distance' = init_distance
        /\ count_goal_states' = count_goal_states
        /\ gen' = gen /\ todo' = todo /\ visited' = visited
        /\ curr_change' = curr_change /\ change' = change
    BY <1>2 DEF symmetry
  <2>2. QED
    BY <1>1, <1>3, <1>6, <1>8, <1>9, <2>1 DEF TypeOK, IndexesAgree, GraphOK, Labels
<1>11. TypeInv'
  BY <1>1, <1>3, <1>9, <1>10 DEF TypeInv
<1>12. PlanStays'
  <2>1. edges' = edges \cup new
    BY <1>2 DEF AddEdges
  <2>2. FollowsGraph(plan)'
    BY <1>3, <2>1 DEF FollowsGraph
  <2>3. plan = <<>> => nodes' = {} /\ edges' = {}
    <3>1. plan = <<>> => new = {}
      OBVIOUS
    <3> HIDE DEF new
    <3>2. QED
      BY <1>1, <1>2, <3>1 DEF AddEdges, PlanStays
  <2>4. QED
    BY <1>3, <1>9, <2>2, <2>3 DEF PlanStays
<1>13. Lower'
  BY <1>2, <1>3, <1>7, SameDistances DEF Lower
<1>14. Settling' /\ Reaching' /\ ExactGraph'
  BY <1>9 DEF Settling, Reaching, ExactGraph, Pruned
<1>15. QED
  BY <1>10, <1>11, <1>12, <1>13, <1>14 DEF Inv

\* Steps that leave the graph alone.
LEMMA GraphUnchanged ==
  ASSUME Inv, UNCHANGED <<input, graph, goal_distance>>, pc # "add plan",
         pc' # "reorder"
  PROVE  PlanStays' /\ Lower'
<1>1. PlanStays'
  BY DEF Inv, PlanStays, FollowsGraph, input, graph
<1>2. Lower'
  BY SameDistances DEF Inv, Lower, input
<1>3. QED
  BY <1>1, <1>2

LEMMA ReorderingsKeep ==
  ASSUME Inv, StartReorderings
  PROVE  Inv'
<1> DEFINE e == [path |-> <<task.init>>, rest |-> plan]
           states == task.states
           ops == task.ops
           S == [path : Seq(states), rest : Seq(ops)]
<1>1. /\ TypeInv /\ TypeOK /\ IndexesAgree /\ PlanStays /\ Lower
      /\ task \in Tasks /\ plan \in PlansOf[task]
  BY DEF Inv, TypeInv, TypeOK
<1>2. /\ pc = "start reorderings" /\ pc' = "reorder" /\ dfs_queue' = <<e>>
      /\ UNCHANGED <<input, graph, goal_distance, init_distance, open,
                     count_goal_states, dump, symmetry>>
  BY DEF StartReorderings
<1>3. dfs_queue' \in Seq(S)
  <2>1. task.init \in states /\ plan \in Seq(ops)
    BY <1>1, TaskAssumption, PlanIsSound DEF PlanSteps
  <2> DEFINE i == task.init
  <2>2. <<i>> \in Seq(states)
    <3> HIDE DEF i, states
    <3>1. QED
      BY <2>1 DEF i
  <2>3. e \in S
    BY <2>1, <2>2
  <2>4. QED
    <3> HIDE DEF S
    <3>1. dfs_queue' = <<e>>
      BY <1>2
    <3> HIDE DEF e
    <3>2. <<e>> \in Seq(S)
      BY <2>3
    <3>3. QED
      BY <3>1, <3>2
<1>4. TypeOK' /\ IndexesAgree'
  BY <1>1, <1>2 DEF TypeOK, IndexesAgree, input, graph, dump, symmetry, Labels
<1>5. TypeInv'
  BY <1>1, <1>2, <1>3, <1>4 DEF TypeInv, input, dump
<1>6. PlanStays'
  <2>1. FollowsGraph(plan)'
    BY <1>1, <1>2 DEF PlanStays, FollowsGraph, input, graph
  <2>2. plan = <<>> => nodes' = {} /\ edges' = {}
    BY <1>1, <1>2 DEF PlanStays, graph
  <2>3. ASSUME NEW i \in DOMAIN dfs_queue'
        PROVE  dfs_queue'[i].rest = plan
    <3>1. e.rest = plan
      OBVIOUS
    <3>2. dfs_queue' = <<e>>
      BY <1>2
    <3> HIDE DEF e
    <3>3. dfs_queue'[i] = e
      BY <3>2
    <3>4. QED
      BY <3>1, <3>3
  <2>4. QED
    BY <1>2, <2>1, <2>2, <2>3 DEF PlanStays, input
<1>7. Lower'
  BY <1>1, <1>2, SameDistances DEF Lower, input
<1>8. Settling' /\ Reaching' /\ ExactGraph'
  BY <1>2 DEF Settling, Reaching, ExactGraph, Pruned
<1>9. QED
  BY <1>4, <1>5, <1>6, <1>7, <1>8 DEF Inv

LEMMA Longer ==
  ASSUME NEW S, NEW q \in Seq(S), NEW x \in S
  PROVE  Append(q, x) \in Seq(S)
OBVIOUS

LEMMA RemoveTyped ==
  ASSUME NEW S, NEW q \in Seq(S), NEW i \in 1 .. Len(q)
  PROVE  Remove(q, i) \in Seq(S)
<1>1. SubSeq(q, 1, i - 1) \in Seq(S)
  <2>1. i - 1 \in 0 .. Len(q)
    OBVIOUS
  <2>2. QED
    BY <2>1, Beginning
<1>2. SubSeq(q, i + 1, Len(q)) \in Seq(S)
  <2>1. i + 1 \in Int /\ Len(q) \in Int /\ \A j \in i + 1 .. Len(q) : q[j] \in S
    OBVIOUS
  <2>2. QED
    BY <2>1, SubSeqProperties
<1>3. QED
  BY <1>1, <1>2 DEF Remove

\* The positions that are tried are those of operators of the rest.
LEMMA MovesFacts ==
  ASSUME TypeOK, NEW node \in [path : Seq(task.states), rest : Seq(task.ops)],
         NEW inner \in SUBSET Moves(node)
  PROVE  /\ Cardinality(inner) \in Nat /\ IsFiniteSet(inner)
         /\ \A i \in Moves(node) :
              /\ i \in 1 .. Len(node.rest)
              /\ <<Top(node.path), node.rest[i]>> \in DOMAIN task.succ
              /\ Top(node.path) \in task.states
              /\ Successor(Top(node.path), node.rest[i]) \in task.states
<1>1. task \in Tasks
  BY DEF TypeOK
<1>2. Moves(node) \subseteq 1 .. Len(node.rest) /\ Len(node.rest) \in Nat
  BY DEF Moves
<1>3. IsFiniteSet(inner)
  <2>1. IsFiniteSet(1 .. Len(node.rest))
    BY <1>2, FS_Interval
  <2>2. inner \in SUBSET (1 .. Len(node.rest))
    BY <1>2
  <2>3. QED
    BY <2>1, <2>2, FS_Subset
<1>4. Cardinality(inner) \in Nat
  BY <1>3, FS_CardinalityType
<1>5. ASSUME NEW i \in Moves(node)
      PROVE  /\ <<Top(node.path), node.rest[i]>> \in DOMAIN task.succ
             /\ Top(node.path) \in task.states
             /\ Successor(Top(node.path), node.rest[i]) \in task.states
  <2> DEFINE x == <<Top(node.path), node.rest[i]>>
  <2>1. x \in DOMAIN task.succ
    BY DEF Moves, Applicable
  <2>2. DOMAIN task.succ \subseteq task.states \X task.ops /\ task.succ[x] \in task.states
    BY <1>1, <2>1, TaskAssumption
  <2>3. QED
    BY <2>1, <2>2 DEF Successor
<1>6. QED
  BY <1>2, <1>3, <1>4, <1>5

LEMMA ReorderKeeps ==
  ASSUME Inv, Reorder
  PROVE  Inv'
<1> DEFINE node == Top(dfs_queue)
           s == Top(node.path)
           moves == Moves(node)
           next(i) == Successor(s, node.rest[i])
           inner == {i \in moves : next(i) \notin task.goal}
           new == {<<s, node.rest[i]>> : i \in moves}
           states == task.states
           ops == task.ops
           S == [path : Seq(states), rest : Seq(ops)]
<1>1. /\ TypeInv /\ TypeOK /\ IndexesAgree /\ PlanStays /\ Lower
      /\ task \in Tasks /\ plan \in PlansOf[task]
      /\ GraphOK(task, nodes, edges, origin)
  BY DEF Inv, TypeInv, TypeOK, IndexesAgree, GraphOK
<1>2. /\ pc = "reorder" /\ dfs_queue # <<>>
      /\ AddEdges(new)
      /\ count_goal_states' = count_goal_states + Cardinality(moves \ inner)
      /\ UNCHANGED <<input, pc, goal_distance, init_distance, open, dump, symmetry>>
  BY DEF Reorder
<1>3. PICK order \in [1 .. Cardinality(inner) -> inner] :
        dfs_queue' = Pop(dfs_queue) \o
          [j \in 1 .. Cardinality(inner) |->
             [path |-> Append(node.path, next(order[j])),
              rest |-> Remove(node.rest, order[j])]]
  BY DEF Reorder
<1>4. dfs_queue \in Seq(S) /\ task' = task /\ plan' = plan /\ limit' = limit
  BY <1>1, <1>2 DEF TypeInv, input
<1>5. node \in S
  <2>1. Len(dfs_queue) \in DOMAIN dfs_queue
    BY <1>2, <1>4
  <2>2. QED
    <3> HIDE DEF S
    <3>1. QED
      BY <1>4, <2>1 DEF Top
<1>6. inner \in SUBSET moves /\ moves \ inner \in SUBSET moves
  OBVIOUS
<1>7. /\ Cardinality(inner) \in Nat /\ Cardinality(moves \ inner) \in Nat
      /\ \A i \in moves : /\ i \in 1 .. Len(node.rest)
                          /\ <<s, node.rest[i]>> \in DOMAIN task.succ
                          /\ s \in task.states
                          /\ next(i) \in task.states
  <2> HIDE DEF inner, node
  <2>1. node \in [path : Seq(task.states), rest : Seq(task.ops)]
    BY <1>5
  <2>2. QED
    BY <1>1, <1>6, <2>1, MovesFacts
<1> DEFINE f == [j \in 1 .. Cardinality(inner) |->
                   [path |-> Append(node.path, next(order[j])),
                    rest |-> Remove(node.rest, order[j])]]
<1>8. f \in [1 .. Cardinality(inner) -> S]
  <2> SUFFICES ASSUME NEW j \in 1 .. Cardinality(inner)
               PROVE  [path |-> Append(node.path, next(order[j])),
                       rest |-> Remove(node.rest, order[j])] \in S
    OBVIOUS
  <2>1. order[j] \in moves
    OBVIOUS
  <2> HIDE DEF inner, node, moves, next, s
  <2>2. node.path \in Seq(states) /\ node.rest \in Seq(ops)
    BY <1>5
  <2>3. next(order[j]) \in states /\ order[j] \in 1 .. Len(node.rest)
    BY <1>7, <2>1
  <2>4. Append(node.path, next(order[j])) \in Seq(states)
    BY <2>2, <2>3, Longer
  <2>5. Remove(node.rest, order[j]) \in Seq(ops)
    BY <2>2, <2>3, RemoveTyped
  <2>6. QED
    BY <2>4, <2>5
<1>9. dfs_queue' \in Seq(S)
  <2> HIDE DEF f, S
  <2>1. dfs_queue' = Pop(dfs_queue) \o f
    BY <1>3 DEF f
  <2> HIDE DEF inner
  <2>2. QED
    BY <1>2, <1>4, <1>7, <1>8, <2>1, Pushed
<1>10. /\ new \in SUBSET DOMAIN task.succ
       /\ \A e \in new : e[1] \in task.states /\ task.succ[e] \in task.states
  <2> HIDE DEF moves, s
  <2>1. QED
    BY <1>7 DEF Successor
<1>11. GraphOK(task, nodes', edges', origin')
  <2>1. /\ nodes' = nodes \cup {e[1] : e \in new} \cup {task.succ[e] : e \in new}
        /\ edges' = edges \cup new
        /\ origin' = OriginWith(origin, edges, new)
    BY <1>2 DEF AddEdges, OriginWith
  <2> HIDE DEF new
  <2>2. nodes' \in SUBSET task.states
    BY <1>1, <1>10, <2>1 DEF GraphOK
  <2>3. nodes \subseteq nodes' /\ \A e \in new : e[1] \in nodes' /\ task.succ[e] \in nodes'
    BY <2>1
  <2>4. QED
    BY <1>1, <1>10, <2>1, <2>2, <2>3, GraphGrows
<1>12. TypeOK' /\ IndexesAgree'
  <2>1. count_goal_states' \in Nat
    <3> HIDE DEF inner, moves
    <3>1. QED
      BY <1>1, <1>2, <1>7 DEF TypeOK
  <2>2. QED
    BY <1>1, <1>2, <1>4, <1>11, <2>1 DEF TypeOK, IndexesAgree, GraphOK, dump, symmetry
<1>13. TypeInv'
  BY <1>1, <1>2, <1>4, <1>9, <1>12 DEF TypeInv, dump
<1>14. PlanStays'
  <2>1. edges \subseteq edges'
    BY <1>2 DEF AddEdges
  <2>2. FollowsGraph(plan)'
    BY <1>1, <1>2, <1>4, <2>1 DEF FollowsGraph, PlanStays
  <2>3. ASSUME plan = <<>>
        PROVE  /\ nodes' = {} /\ edges' = {}
               /\ \A i \in DOMAIN dfs_queue' : dfs_queue'[i].rest = <<>>
    <3>1. \A i \in DOMAIN dfs_queue : dfs_queue[i].rest = <<>>
      BY <1>1, <1>2, <2>3 DEF PlanStays
    <3>2. Len(dfs_queue) \in DOMAIN dfs_queue
      BY <1>2, <1>4
    <3>3. node.rest = <<>>
      BY <3>1, <3>2 DEF Top
    <3>4. moves = {}
      BY <3>3 DEF Moves
    <3>5. new = {} /\ inner = {}
      BY <3>4
    <3>6. Cardinality(inner) = 0
      BY <3>5, FS_EmptySet
    <3>7. nodes' = {} /\ edges' = {}
      <4> HIDE DEF new
      <4>1. QED
        BY <1>1, <1>2, <2>3, <3>5 DEF AddEdges, PlanStays
    <3>8. f = <<>>
      <4> DEFINE g(n) == [j \in 1 .. n |->
                            [path |-> Append(node.path, next(order[j])),
                             rest |-> Remove(node.rest, order[j])]]
      <4>1. f = g(Cardinality(inner))
        OBVIOUS
      <4>2. g(0) = <<>>
        OBVIOUS
      <4> HIDE DEF g, f
      <4>3. QED
        BY <3>6, <4>1, <4>2
    <3>9. dfs_queue' = Pop(dfs_queue) \o <<>>
      <4> HIDE DEF f
      <4>1. QED
        BY <1>3, <3>8 DEF f
    <3>10. dfs_queue' = Pop(dfs_queue)
      <4>1. Pop(dfs_queue) \in Seq(S)
        <5> HIDE DEF S
        <5>1. Len(dfs_queue) - 1 \in 0 .. Len(dfs_queue)
          BY <1>2, <1>4
        <5>2. QED
          BY <1>4, <5>1, Beginning DEF Pop
      <4>2. QED
        <5> HIDE DEF S
        <5>1. QED
          BY <3>9, <4>1
    <3>11. \A i \in DOMAIN dfs_queue' : i \in DOMAIN dfs_queue /\ dfs_queue'[i] = dfs_queue[i]
      <4> HIDE DEF S
      <4>1. Len(dfs_queue) - 1 \in 0 .. Len(dfs_queue)
        BY <1>2, <1>4
      <4>2. /\ Pop(dfs_queue) \in Seq(S) /\ Len(Pop(dfs_queue)) = Len(dfs_queue) - 1
            /\ \A j \in 1 .. Len(dfs_queue) - 1 : Pop(dfs_queue)[j] = dfs_queue[j]
        BY <1>4, <4>1, Beginning DEF Pop
      <4>3. QED
        BY <1>4, <3>10, <4>1, <4>2
    <3>12. QED
      BY <3>1, <3>7, <3>11
  <2>4. QED
    BY <1>4, <2>2, <2>3 DEF PlanStays
<1>15. Lower'
  BY <1>1, <1>2, SameDistances DEF Lower, input
<1>16. Settling' /\ Reaching' /\ ExactGraph'
  BY <1>2 DEF Settling, Reaching, ExactGraph, Pruned
<1>17. QED
  BY <1>12, <1>13, <1>14, <1>15, <1>16 DEF Inv

\* The distances after improvements: one of those found, and none is better.
IsNearest(f, g, found) ==
  /\ g \in [DOMAIN f -> Nat \cup {-1}]
  /\ \A s \in DOMAIN f :
       \/ g[s] = f[s] /\ \A x \in found : x[2] # s
       \/ /\ g[s] \in Nat /\ <<g[s], s>> \in found
          /\ \A x \in found : x[2] = s => g[s] <= x[1]

LEMMA NearestFound ==
  ASSUME NEW S, NEW f \in [S -> Nat \cup {-1}], NEW found \in SUBSET (Nat \X S)
  PROVE  IsNearest(f, Nearest(f, found), found)
<1> DEFINE g == Nearest(f, found)
           V(s) == {x[1] : x \in {y \in found : y[2] = s}}
<1>1. DOMAIN f = S
  OBVIOUS
<1>2. g = [s \in S |-> IF V(s) = {} THEN f[s] ELSE CHOOSE m \in V(s) : \A n \in V(s) : m <= n]
  BY <1>1 DEF Nearest
<1>3. ASSUME NEW s \in S
      PROVE  /\ g[s] \in Nat \cup {-1}
             /\ \/ g[s] = f[s] /\ \A x \in found : x[2] # s
                \/ /\ g[s] \in Nat /\ <<g[s], s>> \in found
                   /\ \A x \in found : x[2] = s => g[s] <= x[1]
  <2>1. g[s] = IF V(s) = {} THEN f[s] ELSE CHOOSE m \in V(s) : \A n \in V(s) : m <= n
    BY <1>2
  <2>2. V(s) \in SUBSET Nat
    OBVIOUS
  <2>3. \A x \in found : x[2] = s => x[1] \in V(s)
    OBVIOUS
  <2>4. \A v \in V(s) : <<v, s>> \in found
    <3> SUFFICES ASSUME NEW v \in V(s)
                 PROVE  <<v, s>> \in found
      OBVIOUS
    <3>1. PICK x \in found : x[2] = s /\ x[1] = v
      OBVIOUS
    <3>2. x = <<x[1], x[2]>>
      OBVIOUS
    <3>3. QED
      BY <3>1, <3>2
  <2> HIDE DEF V, g
  <2>5. CASE V(s) = {}
    <3>1. g[s] = f[s] /\ f[s] \in Nat \cup {-1}
      BY <2>1, <2>5
    <3>2. QED
      BY <2>3, <2>5, <3>1
  <2>6. CASE V(s) # {}
    <3>1. \E m \in V(s) : \A n \in V(s) : m <= n
      BY <2>2, <2>6, LeastNatural
    <3>2. g[s] \in V(s) /\ \A n \in V(s) : g[s] <= n
      BY <2>1, <2>6, <3>1
    <3>3. QED
      BY <2>2, <2>3, <2>4, <3>2
  <2>7. QED
    BY <2>5, <2>6
<1>4. g \in [S -> Nat \cup {-1}]
  <2>1. g = [s \in S |-> g[s]]
    BY <1>2
  <2> HIDE DEF g
  <2>2. QED
    BY <1>3, <2>1
<1>5. QED
  BY <1>1, <1>3, <1>4 DEF IsNearest

LEMMA StartBackwardKeeps ==
  ASSUME Inv, StartBackward
  PROVE  Inv'
<1>1. /\ TypeInv /\ TypeOK /\ IndexesAgree /\ PlanStays /\ Lower
      /\ task \in Tasks /\ nodes \subseteq task.states
      /\ goal_distance \in [task.states -> Nat \cup {-1}]
  BY DEF Inv, TypeInv, TypeOK
<1>2. /\ pc = "reorder" /\ pc' = "backward"
      /\ open' = {<<0, s>> : s \in nodes \cap task.goal}
      /\ goal_distance' =
           [s \in task.states |->
              IF s \notin nodes THEN goal_distance[s]
              ELSE IF s \in task.goal THEN Update(goal_distance, s, 0)[s] ELSE -1]
      /\ UNCHANGED <<input, graph, init_distance, dfs_queue, count_goal_states,
                     dump, symmetry>>
  BY DEF StartBackward
<1>3. task' = task /\ plan' = plan /\ limit' = limit /\ nodes' = nodes /\ edges' = edges
  BY <1>2 DEF input, graph
<1>4. ASSUME NEW s \in task.states
      PROVE  /\ s \notin nodes => goal_distance'[s] = goal_distance[s]
             /\ s \in nodes \cap task.goal => goal_distance'[s] = 0
             /\ s \in nodes \ task.goal => goal_distance'[s] = -1
  <2>1. goal_distance[s] \in Nat \cup {-1}
    BY <1>1
  <2>2. Update(goal_distance, s, 0)[s] = 0
    BY <1>1, <2>1 DEF Update
  <2>3. QED
    BY <1>2, <2>2
<1>5. goal_distance' \in [task.states -> Nat \cup {-1}]
  <2>1. goal_distance' = [s \in task.states |-> goal_distance'[s]]
    BY <1>2
  <2>2. \A s \in task.states : goal_distance'[s] \in Nat \cup {-1}
    BY <1>1, <1>4
  <2>3. QED
    BY <2>1, <2>2
<1>6. open' \subseteq Nat \X task.states
  BY <1>1, <1>2
<1>7. TypeOK' /\ IndexesAgree'
  BY <1>1, <1>2, <1>3, <1>5, <1>6
     DEF TypeOK, IndexesAgree, input, graph, dump, symmetry, Labels
<1>8. TypeInv'
  BY <1>1, <1>2, <1>3, <1>7 DEF TypeInv, dump
<1>9. PlanStays'
  BY <1>1, <1>2, <1>3 DEF PlanStays, FollowsGraph
<1>10. Lower'
  <2>1. Distances' = Distances
    BY <1>2, SameDistances
  <2>2. ASSUME NEW h \in Distances, NEW s \in task.states, goal_distance'[s] # -1
        PROVE  h[s] <= goal_distance'[s]
    <3>1. CASE s \notin nodes
      BY <1>1, <1>4, <2>2, <3>1 DEF Lower
    <3>2. CASE s \in nodes
      <4>1. s \in task.goal /\ goal_distance'[s] = 0
        BY <1>4, <2>2, <3>2
      <4>2. h[s] = 0
        BY <4>1 DEF Distances, Potentials
      <4>3. QED
        BY <4>1, <4>2
    <3>3. QED
      BY <3>1, <3>2
  <2>3. QED
    BY <1>3, <2>1, <2>2 DEF Lower
<1>11. Settling'
  <2>1. \A s \in nodes \cap task.goal : goal_distance'[s] = 0
    BY <1>1, <1>4
  <2>2. ASSUME NEW x \in open'
        PROVE  x[2] \in nodes /\ goal_distance'[x[2]] # -1 /\ goal_distance'[x[2]] <= x[1]
    <3>1. PICK s \in nodes \cap task.goal : x = <<0, s>>
      BY <1>2
    <3>2. QED
      BY <2>1, <3>1
  <2>3. ASSUME NEW e \in edges, goal_distance'[task.succ[e]] # -1
        PROVE  <<goal_distance'[task.succ[e]], task.succ[e]>> \in open'
    <3>1. task.succ[e] \in nodes
      BY <1>1 DEF IndexesAgree
    <3>2. task.succ[e] \in nodes \cap task.goal
      BY <1>1, <1>4, <2>3, <3>1
    <3>3. QED
      BY <1>2, <2>1, <3>2
  <2>4. \A s \in nodes \ task.goal : goal_distance'[s] = -1
    BY <1>1, <1>4
  <2>5. QED
    BY <1>3, <2>1, <2>2, <2>3, <2>4 DEF Settling
<1>12. Reaching' /\ ExactGraph'
  BY <1>2 DEF Reaching, ExactGraph, Pruned
<1>13. QED
  BY <1>7, <1>8, <1>9, <1>10, <1>11, <1>12 DEF Inv

LEMMA BackwardKeeps ==
  ASSUME Inv, Backward
  PROVE  Inv'
<1>1. /\ TypeInv /\ TypeOK /\ IndexesAgree /\ PlanStays /\ Lower /\ Settling
      /\ task \in Tasks /\ nodes \subseteq task.states /\ edges \subseteq DOMAIN task.succ
      /\ goal_distance \in [task.states -> Nat \cup {-1}]
      /\ open \subseteq Nat \X task.states
  BY DEF Inv, TypeInv, TypeOK
<1>2. PICK x \in open :
        LET into == {e \in edges : task.succ[e] = x[2]}
            d(e) == x[1] + task.cost[e[2]]
            better == {e \in into : Improves(goal_distance, e[1], d(e))}
            found == {<<d(e), e[1]>> : e \in better}
        IN
        /\ open' = (open \ {x}) \cup found
        /\ goal_distance' = Nearest(goal_distance, found)
  BY DEF Backward
<1> DEFINE d(e) == x[1] + task.cost[e[2]]
           better == {e \in edges : /\ task.succ[e] = x[2]
                                    /\ Improves(goal_distance, e[1], d(e))}
           found == {<<d(e), e[1]>> : e \in better}
           gd == goal_distance
           hd == goal_distance'
<1>3. pc = "backward" /\ UNCHANGED <<input, pc, graph, init_distance, dfs_queue,
                                     count_goal_states, dump, symmetry>>
  BY DEF Backward
<1>4. open' = (open \ {x}) \cup found /\ goal_distance' = Nearest(goal_distance, found)
  <2>1. {e \in {b \in edges : task.succ[b] = x[2]} : Improves(goal_distance, e[1], d(e))}
          = better
    OBVIOUS
  <2>2. QED
    BY <1>2, <2>1, Zenon
<1>5. x \in Nat \X task.states /\ x = <<x[1], x[2]>> /\ x[1] \in Nat /\ x[2] \in task.states
  BY <1>1
<1>6. ASSUME NEW e \in edges
      PROVE  /\ e[1] \in task.states /\ e[1] \in nodes /\ task.cost[e[2]] \in Nat
             /\ task.succ[e] \in task.states /\ d(e) \in Nat /\ e \in DOMAIN task.succ
             /\ x[1] <= d(e)
  <2>1. DOMAIN task.succ \subseteq task.states \X task.ops /\ e \in DOMAIN task.succ
    BY <1>1, TaskAssumption
  <2>2. e[1] \in task.states /\ e[2] \in task.ops /\ task.succ[e] \in task.states
    BY <1>1, <2>1, TaskAssumption
  <2>3. task.cost[e[2]] \in Nat
    BY <1>1, <2>2, TaskAssumption
  <2>4. e[1] \in nodes
    BY <1>1 DEF IndexesAgree
  <2>5. QED
    BY <1>5, <2>1, <2>2, <2>3, <2>4
<1>7. found \in SUBSET (Nat \X task.states)
  BY <1>6
<1>8. /\ gd[x[2]] # -1 /\ gd[x[2]] <= x[1] /\ x[2] \in nodes /\ gd[x[2]] \in Nat
  <2>1. gd[x[2]] # -1 /\ gd[x[2]] <= x[1] /\ x[2] \in nodes
    BY <1>1, <1>3 DEF Settling
  <2>2. QED
    BY <1>1, <1>5, <2>1
<1>9. ASSUME NEW y \in found
      PROVE  \E e \in edges : /\ task.succ[e] = x[2] /\ y[1] = d(e) /\ y[2] = e[1]
                              /\ Improves(gd, e[1], d(e))
  OBVIOUS
<1>10. \A e \in better : <<d(e), e[1]>> \in found
  OBVIOUS
<1>11. IsNearest(gd, hd, found)
  <2> HIDE DEF found
  <2>1. QED
    BY <1>1, <1>4, <1>7, NearestFound
<1>12. DOMAIN gd = task.states
  BY <1>1
<1> HIDE DEF found, d
<1>13. hd \in [task.states -> Nat \cup {-1}]
  BY <1>11, <1>12 DEF IsNearest
<1>14. ASSUME NEW s \in task.states
       PROVE  \/ hd[s] = gd[s] /\ \A y \in found : y[2] # s
              \/ /\ hd[s] \in Nat /\ <<hd[s], s>> \in found
                 /\ \A y \in found : y[2] = s => hd[s] <= y[1]
  BY <1>11, <1>12 DEF IsNearest
\* An improvement comes from an edge into x.
<1>15. ASSUME NEW s \in task.states, <<hd[s], s>> \in found
       PROVE  \E e \in edges : /\ task.succ[e] = x[2] /\ hd[s] = d(e) /\ e[1] = s
                               /\ (gd[s] = -1 \/ hd[s] < gd[s])
  <2>1. PICK e \in edges : /\ task.succ[e] = x[2] /\ hd[s] = d(e) /\ s = e[1]
                           /\ Improves(gd, e[1], d(e))
    BY <1>9, <1>15
  <2>2. QED
    BY <2>1 DEF Improves
\* No distance grows.
<1>16. ASSUME NEW s \in task.states, gd[s] # -1
       PROVE  hd[s] # -1 /\ hd[s] <= gd[s] /\ hd[s] \in Nat /\ gd[s] \in Nat
  <2>1. gd[s] \in Nat
    BY <1>1, <1>16
  <2>2. CASE hd[s] = gd[s]
    BY <2>1, <2>2
  <2>3. CASE hd[s] # gd[s]
    <3>1. hd[s] \in Nat /\ <<hd[s], s>> \in found
      BY <1>14, <2>3
    <3>2. hd[s] < gd[s]
      BY <1>15, <1>16, <3>1
    <3>3. QED
      BY <2>1, <3>1, <3>2
  <2>4. QED
    BY <2>2, <2>3
\* What is settled stays.
<1>17. hd[x[2]] = gd[x[2]]
  <2>1. ASSUME hd[x[2]] # gd[x[2]]
        PROVE  FALSE
    <3>1. hd[x[2]] \in Nat /\ <<hd[x[2]], x[2]>> \in found
      BY <1>5, <1>14, <2>1
    <3>2. PICK e \in edges : hd[x[2]] = d(e) /\ (gd[x[2]] = -1 \/ hd[x[2]] < gd[x[2]])
      BY <1>5, <1>15, <3>1
    <3>3. x[1] <= hd[x[2]]
      BY <1>6, <3>2
    <3>4. QED
      BY <1>5, <1>8, <3>1, <3>2, <3>3
  <2>2. QED
    BY <2>1
<1>18. task' = task /\ plan' = plan /\ limit' = limit /\ nodes' = nodes /\ edges' = edges
  BY <1>3 DEF input, graph
<1>19. open' \subseteq Nat \X task.states
  BY <1>1, <1>4, <1>7
<1>20. TypeOK' /\ IndexesAgree'
  BY <1>1, <1>3, <1>18, <1>13, <1>19
     DEF TypeOK, IndexesAgree, input, graph, dump, symmetry
<1>21. TypeInv'
  BY <1>1, <1>3, <1>18, <1>20 DEF TypeInv, dump, symmetry
<1>22. PlanStays'
  BY <1>1, <1>3, <1>18 DEF PlanStays, FollowsGraph
<1>23. Lower'
  <2>1. Distances' = Distances
    BY <1>3, SameDistances
  <2>2. ASSUME NEW h \in Distances, NEW s \in task.states, hd[s] # -1
        PROVE  h[s] <= hd[s]
    <3>1. CASE hd[s] = gd[s]
      BY <1>1, <2>2, <3>1 DEF Lower
    <3>2. CASE hd[s] # gd[s]
      <4>1. <<hd[s], s>> \in found
        BY <1>14, <3>2
      <4>2. PICK e \in edges : task.succ[e] = x[2] /\ hd[s] = d(e) /\ e[1] = s
        BY <1>15, <4>1
      <4>3. h[e[1]] <= h[x[2]] + task.cost[e[2]]
        BY <1>6, <4>2 DEF Distances, Potentials
      <4>4. h[x[2]] <= gd[x[2]]
        BY <1>1, <1>5, <1>8 DEF Lower
      <4>5. h[e[1]] \in Nat /\ h[x[2]] \in Nat
        BY <1>1, <1>5, <1>6, DistancesExist
      <4>6. d(e) = x[1] + task.cost[e[2]] /\ task.cost[e[2]] \in Nat
        BY <1>6 DEF d
      <4>7. QED
        BY <1>5, <1>8, <4>2, <4>3, <4>4, <4>5, <4>6
    <3>3. QED
      BY <3>1, <3>2
  <2>3. QED
    BY <1>18, <2>1, <2>2 DEF Lower
<1>24. Settling'
  <2>1. ASSUME NEW s \in nodes \cap task.goal
        PROVE  hd[s] = 0
    <3>1. gd[s] = 0 /\ s \in task.states
      BY <1>1, <1>3 DEF Settling
    <3>2. QED
      BY <1>16, <3>1
  <2>2. ASSUME NEW y \in open'
        PROVE  y[2] \in nodes /\ hd[y[2]] # -1 /\ hd[y[2]] <= y[1]
    <3>1. CASE y \in open
      <4>1. y[2] \in nodes /\ gd[y[2]] # -1 /\ gd[y[2]] <= y[1] /\ y[1] \in Nat
        BY <1>1, <1>3, <3>1 DEF Settling
      <4>2. hd[y[2]] # -1 /\ hd[y[2]] <= gd[y[2]] /\ hd[y[2]] \in Nat /\ gd[y[2]] \in Nat
        BY <1>1, <1>16, <4>1
      <4>3. QED
        BY <4>1, <4>2
    <3>2. CASE y \in found
      <4>1. PICK e \in edges : y[2] = e[1]
        BY <1>9, <3>2
      <4>2. y[2] \in nodes /\ y[2] \in task.states
        BY <1>6, <4>1
      <4>3. hd[y[2]] \in Nat /\ hd[y[2]] <= y[1]
        BY <1>14, <3>2, <4>2
      <4>4. QED
        BY <4>2, <4>3
    <3>3. QED
      BY <1>4, <2>2, <3>1, <3>2
  <2>3. ASSUME NEW e \in edges, hd[task.succ[e]] # -1
        PROVE  \/ <<hd[task.succ[e]], task.succ[e]>> \in open'
               \/ hd[e[1]] # -1 /\ hd[e[1]] <= hd[task.succ[e]] + task.cost[e[2]]
    <3> DEFINE r == task.succ[e]
    <3>1. r \in task.states /\ e[1] \in task.states /\ task.cost[e[2]] \in Nat
      BY <1>6
    <3>2. CASE hd[r] # gd[r]
      <4>1. <<hd[r], r>> \in found
        BY <1>14, <3>1, <3>2
      <4>2. QED
        BY <1>4, <4>1
    <3>3. CASE hd[r] = gd[r] /\ gd[e[1]] # -1 /\ gd[e[1]] <= gd[r] + task.cost[e[2]]
      <4>1. hd[e[1]] # -1 /\ hd[e[1]] <= gd[e[1]] /\ hd[e[1]] \in Nat /\ gd[e[1]] \in Nat
        BY <1>16, <3>1, <3>3
      <4>2. gd[r] \in Nat
        BY <1>1, <2>3, <3>1, <3>3
      <4>3. QED
        BY <3>1, <3>3, <4>1, <4>2
    <3>4. CASE hd[r] = gd[r] /\ <<gd[r], r>> \in open /\ <<gd[r], r>> # x
      BY <1>4, <3>4
    <3>5. CASE hd[r] = gd[r] /\ <<gd[r], r>> = x
      <4>1. x[1] = gd[r] /\ x[2] = r
        BY <3>5, Zenon
      <4>2. d(e) = hd[r] + task.cost[e[2]] /\ d(e) \in Nat
        BY <1>6, <3>5, <4>1 DEF d
      <4>3. CASE Improves(gd, e[1], d(e))
        <5>1. e \in better
          BY <4>1, <4>3
        <5>2. <<d(e), e[1]>> \in found
          BY <1>10, <5>1
        <5>3. hd[e[1]] \in Nat /\ hd[e[1]] <= d(e)
          BY <1>14, <3>1, <5>2
        <5>4. QED
          BY <4>2, <5>3
      <4>4. CASE ~ Improves(gd, e[1], d(e))
        <5>1. gd[e[1]] # -1 /\ ~ (d(e) < gd[e[1]])
          BY <4>4 DEF Improves
        <5>2. hd[e[1]] # -1 /\ hd[e[1]] <= gd[e[1]] /\ hd[e[1]] \in Nat /\ gd[e[1]] \in Nat
          BY <1>16, <3>1, <5>1
        <5>3. QED
          BY <4>2, <5>1, <5>2
      <4>5. QED
        BY <4>3, <4>4
    <3>6. CASE hd[r] = gd[r]
      <4>1. \/ <<gd[r], r>> \in open
            \/ gd[e[1]] # -1 /\ gd[e[1]] <= gd[r] + task.cost[e[2]]
        BY <1>1, <1>3, <2>3, <3>6 DEF Settling
      <4>2. QED
        BY <3>3, <3>4, <3>5, <3>6, <4>1
    <3>7. QED
      BY <3>2, <3>6
  <2>4. ASSUME NEW s \in nodes \ task.goal, hd[s] # -1
        PROVE  \E e \in edges : /\ e[1] = s /\ hd[task.succ[e]] # -1
                                /\ hd[task.succ[e]] + task.cost[e[2]] <= hd[s]
    <3>1. s \in task.states
      BY <1>1
    <3>2. CASE hd[s] = gd[s]
      <4>1. PICK e \in edges : /\ e[1] = s /\ gd[task.succ[e]] # -1
                               /\ gd[task.succ[e]] + task.cost[e[2]] <= gd[s]
        BY <1>1, <1>3, <2>4, <3>2 DEF Settling
      <4>2. task.succ[e] \in task.states /\ task.cost[e[2]] \in Nat
        BY <1>6
      <4>3. /\ hd[task.succ[e]] # -1 /\ hd[task.succ[e]] <= gd[task.succ[e]]
            /\ hd[task.succ[e]] \in Nat /\ gd[task.succ[e]] \in Nat
        BY <1>16, <4>1, <4>2
      <4>4. gd[s] \in Nat
        BY <1>1, <2>4, <3>1, <3>2
      <4>5. hd[task.succ[e]] + task.cost[e[2]] <= hd[s]
        BY <3>2, <4>1, <4>2, <4>3, <4>4
      <4>6. QED
        BY <4>1, <4>3, <4>5
    <3>3. CASE hd[s] # gd[s]
      <4>1. <<hd[s], s>> \in found
        BY <1>14, <3>1, <3>3
      <4>2. PICK e \in edges : task.succ[e] = x[2] /\ hd[s] = d(e) /\ e[1] = s
        BY <1>15, <3>1, <4>1
      <4>3. task.cost[e[2]] \in Nat /\ d(e) = x[1] + task.cost[e[2]]
        BY <1>6 DEF d
      <4>4. hd[x[2]] # -1 /\ hd[x[2]] + task.cost[e[2]] <= hd[s]
        BY <1>5, <1>8, <1>17, <4>2, <4>3
      <4>5. QED
        BY <4>2, <4>4
    <3>4. QED
      BY <3>2, <3>3
  <2>5. QED
    BY <1>18, <2>1, <2>2, <2>3, <2>4 DEF Settling
<1>25. Reaching' /\ ExactGraph'
  BY <1>3 DEF Reaching, ExactGraph, Pruned
<1>26. QED
  BY <1>20, <1>21, <1>22, <1>23, <1>24, <1>25 DEF Inv

\* What the parts of a plan in the graph are.
PlanInGraph ==
  \A i \in 1 .. Len(plan) :
    /\ <<Trajectory(task, plan)[i - 1], plan[i]>> \in edges
    /\ task.succ[<<Trajectory(task, plan)[i - 1], plan[i]>>] = Trajectory(task, plan)[i]
    /\ Trajectory(task, plan)[i - 1] \in nodes /\ Trajectory(task, plan)[i] \in nodes

LEMMA PlanFollowed ==
  ASSUME TypeOK, IndexesAgree, FollowsGraph(plan)
  PROVE  PlanInGraph
<1>1. PlanSteps(task, plan)
  BY PlanIsSound DEF TypeOK
<1>2. ASSUME NEW i \in 1 .. Len(plan)
      PROVE  /\ <<Trajectory(task, plan)[i - 1], plan[i]>> \in edges
             /\ task.succ[<<Trajectory(task, plan)[i - 1], plan[i]>>]
                  = Trajectory(task, plan)[i]
             /\ Trajectory(task, plan)[i - 1] \in nodes
             /\ Trajectory(task, plan)[i] \in nodes
  <2> DEFINE e == <<Trajectory(task, plan)[i - 1], plan[i]>>
  <2>1. e \in edges /\ task.succ[e] = Trajectory(task, plan)[i]
    BY <1>1 DEF FollowsGraph, PlanSteps
  <2>2. e[1] \in nodes /\ task.succ[e] \in nodes
    <3> HIDE DEF e
    <3>1. QED
      BY <2>1 DEF IndexesAgree
  <2>3. QED
    BY <2>1, <2>2
<1>3. QED
  BY <1>2 DEF PlanInGraph

\* An upper bound along the plan makes its states exact.
LEMMA PlanExact ==
  ASSUME TypeOK, Lower,
         \A i \in 0 .. Len(plan) :
           /\ goal_distance[Trajectory(task, plan)[i]] # -1
           /\ goal_distance[Trajectory(task, plan)[i]]
                <= best_plan_cost - Costs(task, plan)[i],
         NEW i \in 0 .. Len(plan)
  PROVE  /\ Exact(Trajectory(task, plan)[i])
         /\ goal_distance[Trajectory(task, plan)[i]]
              = best_plan_cost - Costs(task, plan)[i]
<1> DEFINE s == Trajectory(task, plan)[i]
           v == best_plan_cost - Costs(task, plan)[i]
<1>1. task \in Tasks /\ plan \in PlansOf[task]
  BY DEF TypeOK
<1>2. s \in task.states
  BY <1>1, PlanIsSound DEF PlanSteps
<1>3. goal_distance[s] # -1 /\ goal_distance[s] <= v /\ goal_distance[s] \in Nat
  BY <1>2 DEF TypeOK
<1>4. ASSUME NEW h \in Distances
      PROVE  h[s] = goal_distance[s] /\ goal_distance[s] = v
  <2>1. h \in Potentials(task, best_plan_cost) /\ h[task.init] = best_plan_cost
    BY DistancesExist
  <2>2. h[s] = v /\ v \in Nat
    BY <1>1, <2>1, PlanDistances DEF best_plan_cost
  <2>3. h[s] <= goal_distance[s]
    BY <1>2, <1>3 DEF Lower
  <2> HIDE DEF s, v
  <2>4. QED
    BY <1>3, <2>2, <2>3
<1>5. Distances # {}
  BY DistancesExist
<1>6. QED
  BY <1>3, <1>4, <1>5 DEF Exact

LEMMA NonPlansKeep ==
  ASSUME Inv, RemoveNonPlans
  PROVE  Inv'
<1> DEFINE removed == {e \in edges : ~ Tight(e)}
           gd == goal_distance
           f == Trajectory(task, plan)
           c == Costs(task, plan)
           n == Len(plan)
<1>1. /\ TypeInv /\ TypeOK /\ IndexesAgree /\ PlanStays /\ Lower /\ Settling
      /\ task \in Tasks /\ plan \in PlansOf[task]
      /\ nodes \subseteq task.states /\ edges \subseteq DOMAIN task.succ
      /\ gd \in [task.states -> Nat \cup {-1}]
      /\ GraphOK(task, nodes, edges, origin)
  BY DEF Inv, TypeInv, TypeOK, IndexesAgree, GraphOK
<1>2. /\ pc = "backward" /\ open = {} /\ RemoveEdges(removed)
      /\ nodes' = {s \in nodes : s \in task.goal \/ \E e \in edges \ removed : e[1] = s}
      /\ pc' = "start forward"
      /\ UNCHANGED <<input, goal_distance, init_distance, open, dfs_queue,
                     count_goal_states, dump, symmetry>>
  BY DEF RemoveNonPlans
<1>3. task' = task /\ plan' = plan /\ limit' = limit
  BY <1>2 DEF input
<1>4. /\ edges' = edges \ removed
      /\ origin' = OriginLess(origin, removed)
  BY <1>2 DEF RemoveEdges, OriginWithout, OriginLess
<1>5. ASSUME NEW e \in edges
      PROVE  /\ e[1] \in task.states /\ e[1] \in nodes /\ task.cost[e[2]] \in Nat
             /\ task.succ[e] \in task.states /\ task.succ[e] \in nodes
             /\ gd[e[1]] \in Nat \cup {-1} /\ gd[task.succ[e]] \in Nat \cup {-1}
  <2>1. DOMAIN task.succ \subseteq task.states \X task.ops /\ e \in DOMAIN task.succ
    BY <1>1, TaskAssumption
  <2>2. e[1] \in task.states /\ e[2] \in task.ops /\ task.succ[e] \in task.states
    BY <1>1, <2>1, TaskAssumption
  <2>3. task.cost[e[2]] \in Nat
    BY <1>1, <2>2, TaskAssumption
  <2>4. e[1] \in nodes /\ task.succ[e] \in nodes
    BY <1>1 DEF IndexesAgree
  <2>5. QED
    BY <1>1, <2>2, <2>3, <2>4
\* The search is over: the distances obey all edges.
<1>6. ASSUME NEW e \in edges, gd[task.succ[e]] # -1
      PROVE  gd[e[1]] # -1 /\ gd[e[1]] <= gd[task.succ[e]] + task.cost[e[2]]
  BY <1>1, <1>2, <1>6 DEF Settling
<1>7. ASSUME NEW s \in nodes \ task.goal, gd[s] # -1
      PROVE  \E e \in edges \ removed : e[1] = s
  <2>1. PICK e \in edges : /\ e[1] = s /\ gd[task.succ[e]] # -1
                           /\ gd[task.succ[e]] + task.cost[e[2]] <= gd[s]
    BY <1>1, <1>2, <1>7 DEF Settling
  <2>2. gd[s] <= gd[task.succ[e]] + task.cost[e[2]]
    BY <1>6, <2>1
  <2>3. gd[s] \in Nat /\ gd[task.succ[e]] \in Nat /\ task.cost[e[2]] \in Nat
    BY <1>5, <1>7, <2>1
  <2>4. gd[s] = gd[task.succ[e]] + task.cost[e[2]]
    BY <2>1, <2>2, <2>3
  <2>5. Tight(e)
    BY <1>7, <2>1, <2>4 DEF Tight
  <2>6. QED
    BY <2>1, <2>5
<1>8. ASSUME NEW e \in edges \ removed
      PROVE  Tight(e) /\ e[1] \in nodes' /\ task.succ[e] \in nodes'
  <2>1. Tight(e) /\ e \in edges
    OBVIOUS
  <2>2. e[1] \in nodes'
    BY <1>2, <1>5, <2>1
  <2>3. gd[task.succ[e]] # -1 /\ task.succ[e] \in nodes
    BY <1>5, <2>1 DEF Tight
  <2>4. task.succ[e] \in nodes'
    BY <1>2, <1>7, <2>3
  <2>5. QED
    BY <2>1, <2>2, <2>4
<1>9. GraphOK(task, nodes', edges', origin')
  <2> HIDE DEF removed
  <2>1. nodes' \in SUBSET nodes
    BY <1>2
  <2>2. \A e \in edges \ removed : e[1] \in nodes' /\ task.succ[e] \in nodes'
    BY <1>8
  <2>3. QED
    BY <1>1, <1>4, <2>1, <2>2, GraphShrinks
<1>10. TypeOK' /\ IndexesAgree'
  BY <1>1, <1>2, <1>3, <1>9 DEF TypeOK, IndexesAgree, GraphOK, dump, symmetry, Labels
<1>11. TypeInv'
  BY <1>1, <1>2, <1>3, <1>10 DEF TypeInv, dump
\* The plan is at its distances, so that its edges stay.
<1>12. ASSUME plan # <<>>
       PROVE  \A i \in 0 .. n : Exact(f[i]) /\ gd[f[i]] = best_plan_cost - c[i]
  <2>1. PlanSteps(task, plan) /\ PlanInGraph
    BY <1>1, <1>2, PlanIsSound, PlanFollowed DEF PlanStays
  <2>2. n \in Nat /\ n # 0 /\ plan \in Seq(task.ops)
    BY <1>12, <2>1 DEF PlanSteps
  <2>3. CostEquation(task, plan)
    BY <1>1, <2>2, CostSteps, TaskAssumption
  <2>4. /\ c \in [0 .. n -> Nat] /\ best_plan_cost = c[n]
        /\ \A i \in 1 .. n : c[i] = c[i - 1] + task.cost[plan[i]]
    BY <2>3 DEF CostEquation, best_plan_cost
  <2> DEFINE S == {i \in 0 .. n : gd[f[i]] # -1 /\ gd[f[i]] <= best_plan_cost - c[i]}
  <2>5. n \in S
    <3>1. n \in 1 .. n /\ n \in 0 .. n
      BY <2>2
    <3>2. f[n] \in nodes /\ f[n] \in task.goal
      BY <2>1, <3>1 DEF PlanInGraph, PlanSteps
    <3>3. gd[f[n]] = 0
      BY <1>1, <1>2, <3>2 DEF Settling
    <3>4. best_plan_cost - c[n] = 0
      BY <2>4, <3>1
    <3>5. QED
      BY <3>1, <3>3, <3>4
  <2>6. ASSUME NEW i \in 1 .. n, i \in S
        PROVE  i - 1 \in S
    <3> DEFINE e == <<f[i - 1], plan[i]>>
    <3>1. e \in edges /\ task.succ[e] = f[i]
      BY <2>1 DEF PlanInGraph
    <3>2. gd[f[i]] # -1 /\ gd[f[i]] <= best_plan_cost - c[i]
      BY <2>6
    <3>3. gd[e[1]] # -1 /\ gd[e[1]] <= gd[f[i]] + task.cost[e[2]]
      <4> HIDE DEF e
      <4>1. QED
        BY <1>6, <3>1, <3>2
    <3>4. gd[f[i - 1]] # -1 /\ gd[f[i - 1]] <= gd[f[i]] + task.cost[plan[i]]
      BY <3>3
    <3>5. gd[f[i]] \in Nat /\ gd[f[i - 1]] \in Nat /\ task.cost[plan[i]] \in Nat
      <4>1. gd[e[1]] \in Nat \cup {-1} /\ gd[task.succ[e]] \in Nat \cup {-1}
            /\ task.cost[e[2]] \in Nat
        <5> HIDE DEF e
        <5>1. QED
          BY <1>5, <3>1
      <4>2. QED
        BY <3>1, <3>2, <3>4, <4>1
    <3>6. /\ c[i] = c[i - 1] + task.cost[plan[i]] /\ c[i] \in Nat /\ c[i - 1] \in Nat
          /\ best_plan_cost \in Nat /\ i - 1 \in 0 .. n
      <4>1. i \in 0 .. n /\ i - 1 \in 0 .. n /\ n \in 0 .. n
        BY <2>2
      <4>2. QED
        BY <2>4, <4>1
    <3>7. gd[f[i - 1]] <= best_plan_cost - c[i - 1]
      <4> DEFINE x == gd[f[i - 1]]
                 y == gd[f[i]]
                 u == c[i - 1]
                 v == c[i]
                 w == task.cost[plan[i]]
                 b == best_plan_cost
      <4>1. y <= b - v /\ x <= y + w /\ v = u + w
        BY <3>2, <3>4, <3>6
      <4>2. {x, y, u, v, w, b} \subseteq Nat
        BY <3>5, <3>6
      <4> HIDE DEF x, y, u, v, w, b
      <4>3. x <= b - u
        BY <4>1, <4>2
      <4>4. QED
        BY <4>3 DEF x, u, b
    <3>8. QED
      BY <3>4, <3>6, <3>7
  <2>7. \A i \in 0 .. n : i \in S
    <3>1. \A i \in 1 .. n : i \in S => i - 1 \in S
      BY <2>6
    <3> HIDE DEF S
    <3>2. QED
      BY <2>2, <2>5, <3>1, Downward
  <2>8. \A i \in 0 .. n : gd[f[i]] # -1 /\ gd[f[i]] <= best_plan_cost - c[i]
    BY <2>7
  <2>9. QED
    BY <1>1, <2>8, PlanExact
<1>13. PlanStays'
  <2>1. ASSUME NEW i \in 1 .. n
        PROVE  <<f[i - 1], plan[i]>> \in edges'
    <3> DEFINE e == <<f[i - 1], plan[i]>>
    <3>1. PlanSteps(task, plan) /\ PlanInGraph
      BY <1>1, <1>2, PlanIsSound, PlanFollowed DEF PlanStays
    <3>2. e \in edges /\ task.succ[e] = f[i]
      BY <3>1 DEF PlanInGraph
    <3>3. plan # <<>> /\ i \in 0 .. n /\ i - 1 \in 0 .. n /\ n \in Nat
      BY <3>1 DEF PlanSteps
    <3>4. /\ gd[f[i]] # -1 /\ gd[f[i - 1]] # -1
          /\ gd[f[i]] = best_plan_cost - c[i] /\ gd[f[i - 1]] = best_plan_cost - c[i - 1]
      BY <1>12, <3>3 DEF Exact
    <3>5. CostEquation(task, plan)
      BY <1>1, <3>1, CostSteps, TaskAssumption DEF PlanSteps
    <3>6. /\ c[i] = c[i - 1] + task.cost[plan[i]] /\ c[i] \in Nat /\ c[i - 1] \in Nat
          /\ best_plan_cost \in Nat
      <4>1. n \in 0 .. n
        BY <3>3
      <4>2. QED
        BY <3>3, <3>5, <4>1 DEF CostEquation, best_plan_cost
    <3>7. task.cost[plan[i]] \in Nat
      <4>1. plan[i] \in task.ops
        BY <3>1 DEF PlanSteps
      <4>2. QED
        BY <1>1, <4>1, TaskAssumption
    <3>8. gd[f[i - 1]] = gd[f[i]] + task.cost[plan[i]]
      <4> HIDE DEF f, c
      <4>1. QED
        BY <3>4, <3>6, <3>7
    <3>9. Tight(e)
      BY <3>2, <3>4, <3>8 DEF Tight
    <3>10. QED
      BY <1>4, <3>2, <3>9
  <2>2. FollowsGraph(plan)'
    BY <1>3, <2>1 DEF FollowsGraph
  <2>3. plan = <<>> => nodes' = {} /\ edges' = {}
    BY <1>1, <1>2, <1>4 DEF PlanStays
  <2>4. QED
    BY <1>2, <1>3, <2>2, <2>3 DEF PlanStays
<1>14. Distances' = Distances
  BY <1>2, SameDistances
<1>15. Lower'
  BY <1>1, <1>2, <1>3, <1>14 DEF Lower
<1>16. Reaching'
  <2>1. ASSUME NEW e \in edges'
        PROVE  Tight(e)'
    <3>1. Tight(e)
      BY <1>4, <1>8
    <3>2. QED
      BY <1>2, <1>3, <3>1 DEF Tight
  <2>2. plan # <<>> => Exact(task.init)
    <3>1. PlanSteps(task, plan)
      BY <1>1, PlanIsSound
    <3>2. 0 \in 0 .. n /\ f[0] = task.init
      BY <3>1 DEF PlanSteps
    <3>3. QED
      BY <1>12, <3>2
  <2>3. Exact(task.init)' <=> Exact(task.init)
    BY <1>2, <1>3, <1>14 DEF Exact
  <2>4. QED
    BY <1>2, <1>3, <2>1, <2>2, <2>3 DEF Reaching
<1>17. Settling' /\ ExactGraph'
  BY <1>2 DEF Settling, ExactGraph, Pruned
<1>18. QED
  BY <1>10, <1>11, <1>13, <1>15, <1>16, <1>17 DEF Inv

LEMMA StartForwardKeeps ==
  ASSUME Inv, StartForward
  PROVE  Inv'
<1>1. /\ TypeInv /\ TypeOK /\ IndexesAgree /\ PlanStays /\ Lower /\ Reaching
      /\ task \in Tasks /\ nodes \subseteq task.states
      /\ init_distance \in [task.states -> Nat \cup {-1}]
      /\ task.init \in task.states
  BY TaskAssumption DEF Inv, TypeInv, TypeOK
<1>2. /\ pc = "start forward" /\ pc' = "forward" /\ open' = {<<0, task.init>>}
      /\ init_distance' = [s \in task.states |-> IF s = task.init THEN 0
                             ELSE IF s \in nodes THEN -1 ELSE init_distance[s]]
      /\ UNCHANGED <<input, graph, goal_distance, dfs_queue, count_goal_states,
                     dump, symmetry>>
  BY DEF StartForward
<1>3. /\ task' = task /\ plan' = plan /\ limit' = limit
      /\ nodes' = nodes /\ edges' = edges /\ goal_distance' = goal_distance
  BY <1>2 DEF input, graph
<1>4. init_distance' \in [task.states -> Nat \cup {-1}] /\ init_distance'[task.init] = 0
      /\ \A s \in nodes : init_distance'[s] # -1 => s = task.init
  <2>1. \A s \in task.states : init_distance'[s] = IF s = task.init THEN 0
                             ELSE IF s \in nodes THEN -1 ELSE init_distance[s]
    BY <1>2
  <2>2. \A s \in task.states : init_distance'[s] \in Nat \cup {-1}
    BY <1>1, <2>1
  <2>3. init_distance' = [s \in task.states |-> init_distance'[s]]
    BY <1>2
  <2>4. init_distance' \in [task.states -> Nat \cup {-1}]
    BY <2>2, <2>3
  <2>5. QED
    BY <1>1, <2>1, <2>4
<1>5. TypeOK' /\ IndexesAgree'
  <2>1. open' \subseteq Nat \X task.states
    <3>1. <<0, task.init>> \in Nat \X task.states
      BY <1>1
    <3>2. QED
      BY <1>2, <3>1
  <2>2. QED
    BY <1>1, <1>2, <1>3, <1>4, <2>1
       DEF TypeOK, IndexesAgree, input, graph, dump, symmetry, Labels
<1>6. TypeInv'
  BY <1>1, <1>2, <1>3, <1>5 DEF TypeInv, dump
<1>7. PlanStays' /\ Lower'
  BY <1>2, GraphUnchanged
<1>8. Reaching'
  <2>1. Distances' = Distances
    BY <1>2, SameDistances
  <2>2. \A s : Exact(s)' <=> Exact(s)
    BY <1>3, <2>1 DEF Exact
  <2>3. \A e \in edges : Tight(e)' <=> Tight(e)
    BY <1>3 DEF Tight
  <2>4. nodes # {} => plan # <<>>
    BY <1>1 DEF PlanStays
  <2>5. plan # <<>> => Exact(task.init)
    BY <1>1, <1>2 DEF Reaching
  <2>6. \A s \in nodes : init_distance'[s] # -1 => Exact(s)
    BY <1>4, <2>4, <2>5
  <2>7. ASSUME NEW x \in open', x[2] \in nodes
        PROVE  Exact(x[2])
    <3>1. x = <<0, task.init>>
      BY <1>2
    <3>2. x[2] = task.init
      BY <3>1
    <3>3. QED
      BY <2>4, <2>5, <2>7, <3>2
  <2>8. ASSUME NEW e \in edges, init_distance'[e[1]] # -1
        PROVE  \E v \in Nat : <<v, e[1]>> \in open'
    <3>1. e[1] \in nodes
      BY <1>1 DEF IndexesAgree
    <3>2. e[1] = task.init
      BY <1>4, <2>8, <3>1
    <3>3. <<0, e[1]>> \in open' /\ 0 \in Nat
      BY <1>2, <3>2
    <3>4. QED
      BY <3>3
  <2>9. \A e \in edges : Tight(e)
    BY <1>1, <1>2 DEF Reaching
  <2>10. init_distance'[task.init] # -1
    BY <1>4
  <2>11. QED
    BY <1>2, <1>3, <2>2, <2>3, <2>5, <2>6, <2>7, <2>8, <2>9, <2>10 DEF Reaching
<1>9. Settling' /\ ExactGraph'
  BY <1>2 DEF Settling, ExactGraph, Pruned
<1>10. QED
  BY <1>5, <1>6, <1>7, <1>8, <1>9 DEF Inv

\* An edge towards the goal leads from a node at its distance to another one.
LEMMA TightExact ==
  ASSUME TypeOK, Lower, NEW e \in edges, Tight(e), Exact(e[1])
  PROVE  Exact(task.succ[e])
<1> DEFINE gd == goal_distance
           r == task.succ[e]
<1>1. task \in Tasks /\ e \in DOMAIN task.succ
      /\ gd \in [task.states -> Nat \cup {-1}]
  BY DEF TypeOK
<1>2. e[1] \in task.states /\ e[2] \in task.ops /\ r \in task.states
  <2>1. DOMAIN task.succ \subseteq task.states \X task.ops
    BY <1>1, TaskAssumption
  <2>2. QED
    BY <1>1, <2>1, TaskAssumption
<1>3. task.cost[e[2]] \in Nat
  BY <1>1, <1>2, TaskAssumption
<1>4. gd[r] # -1 /\ gd[e[1]] # -1 /\ gd[e[1]] = gd[r] + task.cost[e[2]]
  BY DEF Tight
<1>5. gd[r] \in Nat /\ gd[e[1]] \in Nat
  BY <1>1, <1>2, <1>4
<1>6. ASSUME NEW h \in Distances
      PROVE  gd[r] = h[r]
  <2>1. h[e[1]] <= h[r] + task.cost[e[2]]
    BY <1>1 DEF Distances, Potentials
  <2>2. h[e[1]] = gd[e[1]]
    BY DEF Exact
  <2>3. h[r] <= gd[r]
    BY <1>2, <1>4 DEF Lower
  <2>4. h[r] \in Nat
    BY <1>2, DistancesExist
  <2> HIDE DEF r, gd
  <2>5. QED
    BY <1>3, <1>4, <1>5, <2>1, <2>2, <2>3, <2>4
<1>7. QED
  BY <1>4, <1>6 DEF Exact

LEMMA ForwardKeeps ==
  ASSUME Inv, Forward
  PROVE  Inv'
<1> DEFINE id == init_distance
           jd == init_distance'
<1>1. /\ TypeInv /\ TypeOK /\ IndexesAgree /\ PlanStays /\ Lower /\ Reaching
      /\ task \in Tasks /\ nodes \subseteq task.states /\ edges \subseteq DOMAIN task.succ
      /\ id \in [task.states -> Nat \cup {-1}]
      /\ open \subseteq Nat \X task.states
  BY DEF Inv, TypeInv, TypeOK
<1>2. PICK x \in open :
        LET out == {e \in edges : e[1] = x[2]}
            d(e) == x[1] + task.cost[e[2]]
            better == {e \in out : Improves(init_distance, task.succ[e], d(e))}
            found == {<<d(e), task.succ[e]>> : e \in better}
        IN
        /\ open' = (open \ {x}) \cup found
        /\ init_distance' = Nearest(init_distance, found)
  BY DEF Forward
<1> DEFINE d(e) == x[1] + task.cost[e[2]]
           better == {e \in edges : /\ e[1] = x[2]
                                    /\ Improves(init_distance, task.succ[e], d(e))}
           found == {<<d(e), task.succ[e]>> : e \in better}
<1>3. pc = "forward" /\ UNCHANGED <<input, pc, graph, goal_distance, dfs_queue,
                                    count_goal_states, dump, symmetry>>
  BY DEF Forward
<1>4. open' = (open \ {x}) \cup found /\ init_distance' = Nearest(init_distance, found)
  <2>1. {e \in {b \in edges : b[1] = x[2]} : Improves(init_distance, task.succ[e], d(e))}
          = better
    OBVIOUS
  <2>2. QED
    BY <1>2, <2>1, Zenon
<1>5. x \in Nat \X task.states /\ x = <<x[1], x[2]>> /\ x[1] \in Nat /\ x[2] \in task.states
  BY <1>1
<1>6. ASSUME NEW e \in edges
      PROVE  /\ e[1] \in task.states /\ e[1] \in nodes
             /\ task.succ[e] \in task.states /\ task.succ[e] \in nodes /\ d(e) \in Nat
  <2>1. DOMAIN task.succ \subseteq task.states \X task.ops /\ e \in DOMAIN task.succ
    BY <1>1, TaskAssumption
  <2>2. e[1] \in task.states /\ e[2] \in task.ops /\ task.succ[e] \in task.states
    BY <1>1, <2>1, TaskAssumption
  <2>3. task.cost[e[2]] \in Nat
    BY <1>1, <2>2, TaskAssumption
  <2>4. e[1] \in nodes /\ task.succ[e] \in nodes
    BY <1>1 DEF IndexesAgree
  <2>5. QED
    BY <1>5, <2>1, <2>2, <2>3, <2>4
<1>7. found \in SUBSET (Nat \X task.states)
  BY <1>6
<1>8. ASSUME NEW y \in found
      PROVE  \E e \in edges : e[1] = x[2] /\ y[2] = task.succ[e] /\ y[1] = d(e)
  OBVIOUS
<1>9. \A e \in better : <<d(e), task.succ[e]>> \in found
  OBVIOUS
<1>10. IsNearest(id, jd, found)
  <2> HIDE DEF found
  <2>1. QED
    BY <1>1, <1>4, <1>7, NearestFound
<1>11. DOMAIN id = task.states
  BY <1>1
<1> HIDE DEF found, d
<1>12. jd \in [task.states -> Nat \cup {-1}]
  BY <1>10, <1>11 DEF IsNearest
<1>13. ASSUME NEW s \in task.states
       PROVE  \/ jd[s] = id[s] /\ \A y \in found : y[2] # s
              \/ jd[s] \in Nat /\ <<jd[s], s>> \in found
  BY <1>10, <1>11 DEF IsNearest
<1>14. ASSUME NEW s \in task.states, id[s] # -1
       PROVE  jd[s] # -1
  <2>1. jd[s] = id[s] \/ jd[s] \in Nat
    BY <1>13
  <2>2. QED
    BY <1>14, <2>1
<1>15. /\ task' = task /\ plan' = plan /\ limit' = limit
       /\ nodes' = nodes /\ edges' = edges /\ goal_distance' = goal_distance
  BY <1>3 DEF input, graph
<1>16. open' \subseteq Nat \X task.states
  BY <1>1, <1>4, <1>7
<1>17. TypeOK' /\ IndexesAgree'
  BY <1>1, <1>3, <1>15, <1>12, <1>16
     DEF TypeOK, IndexesAgree, input, graph, dump, symmetry
<1>18. TypeInv'
  BY <1>1, <1>3, <1>15, <1>17 DEF TypeInv, dump, symmetry
<1>19. PlanStays' /\ Lower'
  BY <1>3, GraphUnchanged
\* What is found is at its distance.
<1>20. ASSUME NEW y \in found
       PROVE  Exact(y[2])
  <2>1. PICK e \in edges : e[1] = x[2] /\ y[2] = task.succ[e]
    BY <1>8
  <2>2. Tight(e) /\ Exact(e[1])
    BY <1>1, <1>3, <1>6, <2>1 DEF Reaching
  <2>3. QED
    BY <1>1, <2>1, <2>2, TightExact
<1>21. Reaching'
  <2>1. Distances' = Distances
    BY <1>3, SameDistances
  <2>2. \A s : Exact(s)' <=> Exact(s)
    BY <1>15, <2>1 DEF Exact
  <2>3. \A e \in edges : Tight(e)' <=> Tight(e)
    BY <1>15 DEF Tight
  <2>4. jd[task.init] # -1
    <3>1. task.init \in task.states /\ id[task.init] # -1
      BY <1>1, <1>3, TaskAssumption DEF Reaching
    <3>2. QED
      BY <1>14, <3>1
  <2>5. ASSUME NEW s \in nodes, jd[s] # -1
        PROVE  Exact(s)
    <3>1. s \in task.states
      BY <1>1
    <3>2. CASE jd[s] = id[s]
      BY <1>1, <1>3, <2>5, <3>2 DEF Reaching
    <3>3. CASE jd[s] # id[s]
      <4>1. <<jd[s], s>> \in found
        BY <1>13, <3>1, <3>3
      <4>2. Exact(<<jd[s], s>>[2])
        BY <1>20, <4>1
      <4>3. QED
        BY <4>2
    <3>4. QED
      BY <3>2, <3>3
  <2>6. \A y \in open' : y[2] \in nodes => Exact(y[2])
    BY <1>1, <1>3, <1>4, <1>20 DEF Reaching
  <2>7. ASSUME NEW e \in edges, jd[e[1]] # -1
        PROVE  \/ jd[task.succ[e]] # -1
               \/ \E v \in Nat : <<v, e[1]>> \in open'
    <3>1. e[1] \in task.states /\ task.succ[e] \in task.states
      BY <1>6
    <3>2. CASE jd[e[1]] # id[e[1]]
      <4>1. <<jd[e[1]], e[1]>> \in found /\ jd[e[1]] \in Nat
        BY <1>13, <3>1, <3>2
      <4>2. QED
        BY <1>4, <4>1
    <3>3. CASE id[task.succ[e]] # -1
      BY <1>14, <3>1, <3>3
    <3>4. ASSUME NEW v \in Nat, <<v, e[1]>> \in open
          PROVE  \/ jd[task.succ[e]] # -1
                 \/ \E w \in Nat : <<w, e[1]>> \in open'
      <4>1. CASE <<v, e[1]>> # x
        BY <1>4, <3>4, <4>1
      <4>2. CASE <<v, e[1]>> = x
        <5>1. e[1] = x[2]
          BY <4>2, Zenon
        <5>2. CASE Improves(id, task.succ[e], d(e))
          <6>1. <<d(e), task.succ[e]>> \in found
            BY <1>9, <5>1, <5>2
          <6>2. jd[task.succ[e]] \in Nat
            BY <1>13, <3>1, <6>1
          <6>3. QED
            BY <6>2
        <5>3. CASE ~ Improves(id, task.succ[e], d(e))
          BY <3>3, <5>3 DEF Improves
        <5>4. QED
          BY <5>2, <5>3
      <4>3. QED
        BY <4>1, <4>2
    <3>5. CASE id[e[1]] # -1
      <4>1. \/ id[task.succ[e]] # -1
            \/ \E v \in Nat : <<v, e[1]>> \in open
        BY <1>1, <1>3, <3>5 DEF Reaching
      <4>2. QED
        BY <3>3, <3>4, <4>1
    <3>6. QED
      BY <2>7, <3>2, <3>5
  <2>8. (\A e \in edges : Tight(e)) /\ (plan # <<>> => Exact(task.init))
    BY <1>1, <1>3 DEF Reaching
  <2>9. QED
    BY <1>3, <1>15, <2>2, <2>3, <2>4, <2>5, <2>6, <2>7, <2>8 DEF Reaching
<1>22. Settling' /\ ExactGraph'
  BY <1>3 DEF Settling, ExactGraph, Pruned
<1>23. QED
  BY <1>17, <1>18, <1>19, <1>21, <1>22 DEF Inv

LEMMA UnreachableKeep ==
  ASSUME Inv, RemoveInitUnreachable
  PROVE  Inv'
<1> DEFINE gone == {s \in nodes : init_distance[s] = -1}
           removed == {e \in edges : e[1] \in gone}
<1>1. /\ TypeInv /\ TypeOK /\ IndexesAgree /\ PlanStays /\ Lower /\ Reaching
      /\ task \in Tasks /\ plan \in PlansOf[task] /\ limit \in Nat
      /\ nodes \subseteq task.states
      /\ GraphOK(task, nodes, edges, origin)
  BY LimitAssumption DEF Inv, TypeInv, TypeOK, IndexesAgree, GraphOK
<1>2. /\ pc = "forward" /\ open = {} /\ RemoveEdges(removed)
      /\ nodes' = nodes \ gone
      /\ StartDump(limit, "start symmetries")
      /\ UNCHANGED <<input, goal_distance, init_distance, open,
                     count_goal_states, symmetry>>
  BY DEF RemoveInitUnreachable
<1>3. task' = task /\ plan' = plan /\ limit' = limit /\ goal_distance' = goal_distance
  BY <1>2 DEF input
<1>4. /\ edges' = edges \ removed
      /\ origin' = OriginLess(origin, removed)
  BY <1>2 DEF RemoveEdges, OriginWithout, OriginLess
<1>5. ASSUME NEW e \in edges, init_distance[e[1]] # -1
      PROVE  init_distance[task.succ[e]] # -1
  BY <1>1, <1>2, <1>5 DEF Reaching
<1>6. ASSUME NEW e \in edges \ removed
      PROVE  e[1] \in nodes' /\ task.succ[e] \in nodes'
  <2>1. e[1] \in nodes /\ task.succ[e] \in nodes /\ e[1] \notin gone
    BY <1>1 DEF IndexesAgree
  <2>2. init_distance[e[1]] # -1
    BY <2>1
  <2>3. QED
    BY <1>2, <1>5, <2>1, <2>2
<1>7. GraphOK(task, nodes', edges', origin')
  <2> DEFINE M == nodes \ gone
  <2>1. \A e \in edges \ removed : e[1] \in M /\ task.succ[e] \in M
    BY <1>2, <1>6
  <2>2. M \in SUBSET nodes
    OBVIOUS
  <2>3. GraphOK(task, nodes, edges, origin) /\ task \in Tasks
    BY <1>1
  <2> HIDE DEF M, removed
  <2>4. GraphOK(task, M, edges \ removed, OriginLess(origin, removed))
    BY <2>1, <2>2, <2>3, GraphShrinks
  <2>5. nodes' = M
    BY <1>2 DEF M
  <2>6. QED
    BY <1>4, <2>4, <2>5
<1>8. /\ pc' = "dump" /\ after' = "start symmetries" /\ wanted' = limit
      /\ dfs_queue' \in Seq([path : Seq(task.states), ops : Seq(task.ops), cost : Nat])
      /\ UNCHANGED <<optimal_plans, non_optimal_plans, files>>
  BY <1>1, <1>2, <1>3, DumpStarts DEF AfterDump
<1>9. TypeOK' /\ IndexesAgree'
  BY <1>1, <1>2, <1>3, <1>7, <1>8 DEF TypeOK, IndexesAgree, GraphOK, symmetry, Labels
<1>10. TypeInv'
  BY <1>1, <1>3, <1>8, <1>9 DEF TypeInv
<1>11. PlanStays'
  <2> DEFINE f == Trajectory(task, plan)
             n == Len(plan)
             S == {i \in 0 .. n : init_distance[f[i]] # -1}
  <2>1. PlanSteps(task, plan) /\ PlanInGraph
    BY <1>1, <1>2, PlanIsSound, PlanFollowed DEF PlanStays
  <2>2. n \in Nat /\ f[0] = task.init
    BY <2>1 DEF PlanSteps
  <2>3. 0 \in S
    <3>1. init_distance[task.init] # -1
      BY <1>1, <1>2 DEF Reaching
    <3>2. QED
      BY <2>2, <3>1
  <2>4. ASSUME NEW i \in 1 .. n
        PROVE  LET e == <<f[i - 1], plan[i]>> IN e \in edges /\ task.succ[e] = f[i]
    BY <2>1 DEF PlanInGraph
  <2>5. ASSUME NEW i \in 0 .. n - 1, i \in S
        PROVE  i + 1 \in S
    <3> DEFINE e == <<f[i], plan[i + 1]>>
    <3>1. i + 1 \in 1 .. n /\ i + 1 - 1 = i /\ i + 1 \in 0 .. n
      BY <2>2
    <3>2. e \in edges /\ task.succ[e] = f[i + 1]
      BY <2>4, <3>1
    <3>3. init_distance[e[1]] # -1
      BY <2>5
    <3>4. init_distance[task.succ[e]] # -1
      <4> HIDE DEF e
      <4>1. QED
        BY <1>5, <3>2, <3>3
    <3>5. QED
      BY <3>1, <3>2, <3>4
  <2>6. \A i \in 0 .. n : i \in S
    <3>1. \A i \in 0 .. n - 1 : i \in S => i + 1 \in S
      BY <2>5
    <3> HIDE DEF S
    <3>2. QED
      BY <2>2, <2>3, <3>1, Upward
  <2>7. ASSUME NEW i \in 1 .. n
        PROVE  <<f[i - 1], plan[i]>> \in edges'
    <3>1. i - 1 \in 0 .. n
      BY <2>2
    <3>2. init_distance[f[i - 1]] # -1
      BY <2>6, <3>1
    <3>3. <<f[i - 1], plan[i]>> \in edges /\ <<f[i - 1], plan[i]>> \notin removed
      BY <2>4, <3>2
    <3>4. QED
      BY <1>4, <3>3
  <2>8. FollowsGraph(plan)'
    BY <1>3, <2>7 DEF FollowsGraph
  <2>9. plan = <<>> => nodes' = {} /\ edges' = {}
    BY <1>1, <1>2, <1>4 DEF PlanStays
  <2>10. QED
    BY <1>3, <1>8, <2>8, <2>9 DEF PlanStays
<1>12. Distances' = Distances
  BY <1>2, SameDistances
<1>13. Lower'
  BY <1>1, <1>3, <1>12 DEF Lower
<1>14. ExactGraph'
  <2>1. \A s \in nodes' : s \in nodes /\ init_distance[s] # -1
    BY <1>2
  <2>2. \A s \in nodes' : Exact(s)
    BY <1>1, <1>2, <2>1 DEF Reaching
  <2>3. \A e \in edges' : Tight(e)
    BY <1>1, <1>2, <1>4 DEF Reaching
  <2>4. \A s : Exact(s)' <=> Exact(s)
    BY <1>3, <1>12 DEF Exact
  <2>5. \A e : Tight(e)' <=> Tight(e)
    BY <1>3 DEF Tight
  <2>6. QED
    BY <2>2, <2>3, <2>4, <2>5 DEF ExactGraph
<1>15. Settling' /\ Reaching'
  BY <1>8 DEF Settling, Reaching
<1>16. QED
  BY <1>9, <1>10, <1>11, <1>13, <1>14, <1>15 DEF Inv

\* Steps that leave the graph alone and do not end the pruning.
LEMMA ExactUnchanged ==
  ASSUME Inv, UNCHANGED <<input, graph, goal_distance>>, Pruned' => Pruned,
         pc' \notin {"backward", "start forward", "forward"}
  PROVE  Settling' /\ Reaching' /\ ExactGraph'
<1>1. task' = task /\ nodes' = nodes /\ edges' = edges /\ goal_distance' = goal_distance
  BY DEF input, graph
<1>2. Distances' = Distances
  BY SameDistances
<1>3. \A s : Exact(s)' <=> Exact(s)
  BY <1>1, <1>2 DEF Exact
<1>4. \A e : Tight(e)' <=> Tight(e)
  BY <1>1 DEF Tight
<1>5. ExactGraph'
  BY <1>1, <1>3, <1>4 DEF Inv, ExactGraph
<1>6. QED
  BY <1>5 DEF Settling, Reaching

LEMMA EdgesFinite ==
  ASSUME TypeOK, NEW out \in SUBSET edges
  PROVE  IsFiniteSet(out) /\ Cardinality(out) \in Nat
<1>1. /\ IsFiniteSet(task.states) /\ IsFiniteSet(task.ops)
      /\ DOMAIN task.succ \subseteq task.states \X task.ops
      /\ edges \subseteq DOMAIN task.succ
  BY TaskAssumption DEF TypeOK
<1>2. IsFiniteSet(task.states \X task.ops)
  BY <1>1, FS_Product
<1>3. out \in SUBSET (task.states \X task.ops)
  BY <1>1
<1>4. IsFiniteSet(out)
  BY <1>2, <1>3, FS_Subset
<1>5. QED
  BY <1>4, FS_CardinalityType

LEMMA DumpNodeKeeps ==
  ASSUME Inv, DumpNode
  PROVE  Inv'
<1> DEFINE node == Top(dfs_queue)
           s == Top(node.path)
           found == s \in task.goal
           best == node.cost = best_plan_cost
           out == {e \in edges : /\ e[1] = s
                                 /\ task.succ[e] \notin InRange(node.path)
                                 /\ goal_distance[task.succ[e]] # -1}
           states == task.states
           ops == task.ops
           S == [path : Seq(states), ops : Seq(ops), cost : Nat]
<1>1. /\ TypeInv /\ TypeOK /\ IndexesAgree
      /\ task \in Tasks /\ edges \subseteq DOMAIN task.succ
  BY DEF Inv, TypeInv, TypeOK
<1>2. /\ pc = "dump" /\ dfs_queue # <<>>
      /\ optimal_plans' = IF found /\ best THEN optimal_plans \cup {node.ops}
                          ELSE optimal_plans
      /\ non_optimal_plans' = IF found /\ ~ best
                              THEN non_optimal_plans \cup {node.ops}
                              ELSE non_optimal_plans
      /\ files' = IF found /\ best /\ IsNew(node.ops)
                  THEN Append(files, node.ops) ELSE files
      /\ UNCHANGED <<input, pc, graph, goal_distance, init_distance, open,
                     count_goal_states, wanted, after, symmetry>>
  BY DEF DumpNode
<1>3. PICK order \in [1 .. Cardinality(out) -> out] :
        dfs_queue' = Pop(dfs_queue) \o
          [j \in 1 .. Cardinality(out) |->
             [path |-> Append(node.path, task.succ[order[j]]),
              ops |-> Append(node.ops, order[j][2]),
              cost |-> node.cost + task.cost[order[j][2]]]]
  BY DEF DumpNode
<1>4. dfs_queue \in Seq(S) /\ task' = task /\ plan' = plan /\ limit' = limit
  BY <1>1, <1>2 DEF TypeInv, input
<1>5. node \in S
  <2> HIDE DEF S
  <2>1. Len(dfs_queue) \in DOMAIN dfs_queue
    BY <1>2, <1>4
  <2>2. QED
    BY <1>4, <2>1 DEF Top
<1>6. node.path \in Seq(states) /\ node.ops \in Seq(ops) /\ node.cost \in Nat
  <2> HIDE DEF node
  <2>1. QED
    BY <1>5
<1>7. Cardinality(out) \in Nat
  BY <1>1, EdgesFinite
<1>8. ASSUME NEW e \in edges
      PROVE  task.succ[e] \in states /\ e[2] \in ops /\ task.cost[e[2]] \in Nat
  <2>1. DOMAIN task.succ \subseteq task.states \X task.ops /\ e \in DOMAIN task.succ
    BY <1>1, TaskAssumption
  <2>2. e[2] \in task.ops /\ task.succ[e] \in task.states
    BY <1>1, <2>1, TaskAssumption
  <2>3. task.cost[e[2]] \in Nat
    BY <1>1, <2>2, TaskAssumption
  <2>4. QED
    BY <2>2, <2>3
<1> DEFINE f == [j \in 1 .. Cardinality(out) |->
                   [path |-> Append(node.path, task.succ[order[j]]),
                    ops |-> Append(node.ops, order[j][2]),
                    cost |-> node.cost + task.cost[order[j][2]]]]
<1>9. f \in [1 .. Cardinality(out) -> S]
  <2> SUFFICES ASSUME NEW j \in 1 .. Cardinality(out)
               PROVE  [path |-> Append(node.path, task.succ[order[j]]),
                       ops |-> Append(node.ops, order[j][2]),
                       cost |-> node.cost + task.cost[order[j][2]]] \in S
    OBVIOUS
  <2>1. order[j] \in edges
    OBVIOUS
  <2> HIDE DEF node, out
  <2>2. /\ task.succ[order[j]] \in states /\ order[j][2] \in ops
        /\ task.cost[order[j][2]] \in Nat
    BY <1>8, <2>1
  <2>3. Append(node.path, task.succ[order[j]]) \in Seq(states)
    BY <1>6, <2>2, Longer
  <2>4. Append(node.ops, order[j][2]) \in Seq(ops)
    BY <1>6, <2>2, Longer
  <2>5. node.cost + task.cost[order[j][2]] \in Nat
    BY <1>6, <2>2
  <2>6. QED
    BY <2>3, <2>4, <2>5
<1>10. dfs_queue' \in Seq(S)
  <2> HIDE DEF f, S
  <2>1. dfs_queue' = Pop(dfs_queue) \o f
    BY <1>3 DEF f
  <2> HIDE DEF out
  <2>2. QED
    BY <1>2, <1>4, <1>7, <1>9, <2>1, Pushed
<1>11. /\ files' \in Seq(Seq(ops))
       /\ optimal_plans' \subseteq Seq(ops) /\ IsFiniteSet(optimal_plans')
       /\ non_optimal_plans' \subseteq Seq(ops) /\ IsFiniteSet(non_optimal_plans')
  <2> DEFINE Q == Seq(ops)
             p == node.ops
  <2>1. /\ files \in Seq(Q) /\ optimal_plans \subseteq Q /\ IsFiniteSet(optimal_plans)
        /\ non_optimal_plans \subseteq Q /\ IsFiniteSet(non_optimal_plans) /\ p \in Q
    BY <1>1, <1>6 DEF TypeInv
  <2> HIDE DEF Q, p
  <2>2. Append(files, p) \in Seq(Q)
    BY <2>1
  <2>3. /\ IsFiniteSet(optimal_plans \cup {p}) /\ IsFiniteSet(non_optimal_plans \cup {p})
    BY <2>1, FS_AddElement
  <2>4. /\ optimal_plans' = optimal_plans \/ optimal_plans' = optimal_plans \cup {p}
        /\ non_optimal_plans' = non_optimal_plans
           \/ non_optimal_plans' = non_optimal_plans \cup {p}
        /\ files' = files \/ files' = Append(files, p)
    BY <1>2 DEF p
  <2>5. /\ files' \in Seq(Q)
        /\ optimal_plans' \subseteq Q /\ IsFiniteSet(optimal_plans')
        /\ non_optimal_plans' \subseteq Q /\ IsFiniteSet(non_optimal_plans')
    BY <2>1, <2>2, <2>3, <2>4
  <2>6. QED
    BY <2>5 DEF Q
<1>12. TypeOK' /\ IndexesAgree'
  <2>1. \A i \in DOMAIN files' : files'[i] \in Seq(ops)
    <3> DEFINE Q == Seq(ops)
    <3>1. files' \in Seq(Q)
      BY <1>11
    <3> HIDE DEF Q
    <3>2. \A i \in DOMAIN files' : files'[i] \in Q
      BY <3>1
    <3>3. QED
      BY <3>2 DEF Q
  <2>2. QED
    BY <1>1, <1>2, <1>4, <2>1 DEF TypeOK, IndexesAgree, graph, symmetry
<1>13. TypeInv'
  BY <1>1, <1>2, <1>4, <1>10, <1>11, <1>12 DEF TypeInv, symmetry
<1>14. PlanStays' /\ Lower'
  BY <1>2, GraphUnchanged
<1>15. Settling' /\ Reaching' /\ ExactGraph'
  <2>1. Pruned' => Pruned
    BY <1>2 DEF Pruned
  <2>2. QED
    BY <1>2, <2>1, ExactUnchanged
<1>16. QED
  BY <1>12, <1>13, <1>14, <1>15 DEF Inv

LEMMA DumpEndKeeps ==
  ASSUME Inv, DumpEnd
  PROVE  Inv'
<1>1. /\ TypeInv /\ TypeOK /\ IndexesAgree
      /\ after \in {"start reorderings", "start symmetries", "next generator", "done"}
  BY DEF Inv, TypeInv, DumpEnd
<1>2. /\ pc = "dump" /\ pc' = after
      /\ UNCHANGED <<input, graph, goal_distance, init_distance, open, dfs_queue,
                     count_goal_states, wanted, after, optimal_plans,
                     non_optimal_plans, symmetry>>
  BY DEF DumpEnd
<1>3. PICK q \in [1 .. Cardinality(non_optimal_plans) -> non_optimal_plans] :
        files' = files \o q
  BY DEF DumpEnd
<1>4. files' \in Seq(Seq(task.ops)) /\ \A i \in DOMAIN files' : files'[i] \in Seq(task.ops)
  <2> DEFINE Q == Seq(task.ops)
  <2>1. /\ files \in Seq(Q) /\ non_optimal_plans \subseteq Q
        /\ Cardinality(non_optimal_plans) \in Nat
    BY <1>1, FS_CardinalityType DEF TypeInv
  <2> HIDE DEF Q
  <2>2. q \in Seq(Q)
    BY <2>1
  <2>3. files' \in Seq(Q)
    BY <1>3, <2>1, <2>2
  <2>4. \A i \in DOMAIN files' : files'[i] \in Q
    BY <2>3
  <2>5. QED
    BY <2>3, <2>4 DEF Q
<1>5. task' = task /\ plan' = plan /\ limit' = limit
  BY <1>2 DEF input
<1>6. TypeOK' /\ IndexesAgree'
  BY <1>1, <1>2, <1>4, <1>5 DEF TypeOK, IndexesAgree, graph, symmetry
<1>7. TypeInv'
  BY <1>1, <1>2, <1>4, <1>5, <1>6 DEF TypeInv
<1>8. PlanStays' /\ Lower'
  BY <1>1, <1>2, GraphUnchanged
<1>9. Settling' /\ Reaching' /\ ExactGraph'
  <2>1. Pruned' => Pruned
    BY <1>1, <1>2 DEF Pruned
  <2>2. QED
    BY <1>1, <1>2, <2>1, ExactUnchanged
<1>10. QED
  BY <1>6, <1>7, <1>8, <1>9 DEF Inv

LEMMA RoundKeeps ==
  ASSUME Inv, StartRound
  PROVE  Inv'
<1>1. /\ TypeInv /\ TypeOK /\ IndexesAgree
      /\ task \in Tasks /\ limit \in Nat /\ Len(task.syms) \in Nat
      /\ task.syms # <<>> => 1 \in 1 .. Len(task.syms)
  <2>1. task \in Tasks /\ TypeInv /\ TypeOK /\ IndexesAgree /\ limit \in Nat
    BY LimitAssumption DEF Inv, TypeInv, TypeOK
  <2> DEFINE S == [state : [task.states -> task.states], op : [task.ops -> task.ops]]
             syms == task.syms
  <2>2. syms \in Seq(S)
    BY <2>1, TaskAssumption
  <2> HIDE DEF S, syms
  <2>3. Len(syms) \in Nat /\ (syms # <<>> => 1 \in 1 .. Len(syms))
    BY <2>2
  <2>4. QED
    BY <2>1, <2>3 DEF syms
<1>2. /\ pc = "start symmetries"
      /\ UNCHANGED <<input, graph, goal_distance, init_distance, open, count_goal_states>>
  BY DEF StartRound
<1>3. task' = task /\ plan' = plan /\ limit' = limit
  BY <1>2 DEF input
<1>4. CASE StartDump(limit, "done") /\ UNCHANGED symmetry
  <2>1. /\ pc' = "dump" /\ after' = "done" /\ wanted' = limit
        /\ dfs_queue' \in Seq([path : Seq(task.states), ops : Seq(task.ops), cost : Nat])
        /\ UNCHANGED <<optimal_plans, non_optimal_plans, files>>
    BY <1>1, <1>3, <1>4, DumpStarts DEF AfterDump
  <2>2. TypeOK' /\ IndexesAgree'
    BY <1>1, <1>2, <1>3, <1>4, <2>1 DEF TypeOK, IndexesAgree, graph, symmetry, Labels
  <2>3. TypeInv'
    BY <1>1, <1>3, <2>1, <2>2 DEF TypeInv
  <2>4. QED
    BY <1>2, <2>1, <2>2, <2>3, GraphUnchanged, ExactUnchanged DEF Inv, Pruned
<1>5. CASE /\ pc' = "symmetry" /\ gen' = 1 /\ change' = FALSE
           /\ todo' = nodes /\ visited' = {} /\ curr_change' = FALSE
           /\ UNCHANGED <<dfs_queue, dump>> /\ task.syms # <<>>
  <2> gen' \in 0 .. Len(task'.syms) /\ gen' \in 1 .. Len(task'.syms)
    BY <1>1, <1>3, <1>5
  <2>1. TypeOK' /\ IndexesAgree'
    BY <1>1, <1>2, <1>3, <1>5 DEF TypeOK, IndexesAgree, graph, dump, Labels
  <2>2. TypeInv'
    BY <1>1, <1>3, <1>5, <2>1 DEF TypeInv, dump
  <2>3. QED
    BY <1>2, <1>5, <2>1, <2>2, GraphUnchanged, ExactUnchanged DEF Inv, Pruned
<1>6. QED
  BY <1>4, <1>5 DEF StartRound

LEMMA PassKeeps ==
  ASSUME Inv, EndOfPass
  PROVE  Inv'
<1>1. /\ TypeInv /\ TypeOK /\ IndexesAgree /\ task \in Tasks /\ limit \in Nat
  BY LimitAssumption DEF Inv, TypeInv, TypeOK
<1>2. /\ pc = "symmetry" /\ change' = (change \/ curr_change)
      /\ UNCHANGED <<input, graph, goal_distance, init_distance, open,
                     count_goal_states, gen, todo, visited, curr_change>>
  BY DEF EndOfPass
<1>3. task' = task /\ plan' = plan /\ limit' = limit
  BY <1>2 DEF input
<1>4. change' \in BOOLEAN
  BY <1>2
<1>5. CASE StartDump(limit, "next generator")
  <2>1. /\ pc' = "dump" /\ after' = "next generator" /\ wanted' = limit
        /\ dfs_queue' \in Seq([path : Seq(task.states), ops : Seq(task.ops), cost : Nat])
        /\ UNCHANGED <<optimal_plans, non_optimal_plans, files>>
    BY <1>1, <1>3, <1>5, DumpStarts DEF AfterDump
  <2>2. TypeOK' /\ IndexesAgree'
    BY <1>1, <1>2, <1>3, <1>4, <2>1 DEF TypeOK, IndexesAgree, graph, Labels
  <2>3. TypeInv'
    BY <1>1, <1>3, <2>1, <2>2 DEF TypeInv
  <2>4. QED
    BY <1>2, <2>1, <2>2, <2>3, GraphUnchanged, ExactUnchanged DEF Inv, Pruned
<1>6. CASE pc' = "next generator" /\ UNCHANGED <<dfs_queue, dump>>
  <2>1. TypeOK' /\ IndexesAgree'
    BY <1>1, <1>2, <1>3, <1>4, <1>6 DEF TypeOK, IndexesAgree, graph, dump, Labels
  <2>2. TypeInv'
    BY <1>1, <1>3, <1>6, <2>1 DEF TypeInv, dump
  <2>3. QED
    BY <1>2, <1>6, <2>1, <2>2, GraphUnchanged, ExactUnchanged DEF Inv, Pruned
<1>7. QED
  BY <1>5, <1>6 DEF EndOfPass

\* The number of generators.
LEMMA Generators ==
  ASSUME task \in Tasks
  PROVE  Len(task.syms) \in Nat
<1> DEFINE S == [state : [task.states -> task.states], op : [task.ops -> task.ops]]
           syms == task.syms
<1>1. syms \in Seq(S)
  BY TaskAssumption
<1> HIDE DEF S, syms
<1>2. Len(syms) \in Nat
  BY <1>1
<1>3. QED
  BY <1>2 DEF syms

LEMMA GeneratorKeeps ==
  ASSUME Inv, NextGenerator
  PROVE  Inv'
<1>1. /\ TypeInv /\ TypeOK /\ IndexesAgree /\ task \in Tasks /\ limit \in Nat
      /\ gen \in 0 .. Len(task.syms) /\ Len(task.syms) \in Nat
  BY LimitAssumption, Generators DEF Inv, TypeInv, TypeOK
<1>2. /\ pc = "next generator"
      /\ gen' = IF pc' = "symmetry" THEN gen + 1 ELSE gen
      /\ todo' = nodes /\ visited' = {} /\ curr_change' = FALSE
      /\ UNCHANGED <<input, graph, goal_distance, init_distance, open,
                     count_goal_states, change>>
  BY DEF NextGenerator
<1>3. task' = task /\ plan' = plan /\ limit' = limit
  BY <1>2 DEF input
<1>4. CASE StartDump(limit, "done")
  <2>1. /\ pc' = "dump" /\ after' = "done" /\ wanted' = limit
        /\ dfs_queue' \in Seq([path : Seq(task.states), ops : Seq(task.ops), cost : Nat])
        /\ UNCHANGED <<optimal_plans, non_optimal_plans, files>>
    BY <1>1, <1>3, <1>4, DumpStarts DEF AfterDump
  <2>2. TypeOK' /\ IndexesAgree'
    BY <1>1, <1>2, <1>3, <2>1 DEF TypeOK, IndexesAgree, graph, Labels
  <2>3. TypeInv'
    BY <1>1, <1>3, <2>1, <2>2 DEF TypeInv
  <2>4. QED
    BY <1>2, <2>1, <2>2, <2>3, GraphUnchanged, ExactUnchanged DEF Inv, Pruned
<1>5. CASE pc' = "start symmetries" /\ UNCHANGED <<dfs_queue, dump>>
  <2>1. TypeOK' /\ IndexesAgree'
    BY <1>1, <1>2, <1>3, <1>5 DEF TypeOK, IndexesAgree, graph, dump, Labels
  <2>2. TypeInv'
    BY <1>1, <1>3, <1>5, <2>1 DEF TypeInv, dump
  <2>3. QED
    BY <1>2, <1>5, <2>1, <2>2, GraphUnchanged, ExactUnchanged DEF Inv, Pruned
<1>6. CASE pc' = "symmetry" /\ UNCHANGED <<dfs_queue, dump>> /\ gen # Len(task.syms)
  <2> DEFINE n == Len(task.syms)
  <2>a. gen' = gen + 1 /\ gen \in 0 .. n /\ gen # n /\ n \in Nat
    BY <1>1, <1>2, <1>6
  <2> HIDE DEF n
  <2>b. gen' \in 1 .. n /\ gen' \in 0 .. n
    BY <2>a
  <2>1. gen' \in 1 .. Len(task'.syms) /\ gen' \in 0 .. Len(task'.syms)
    BY <2>b, <1>3 DEF n
  <2>2. TypeOK' /\ IndexesAgree'
    BY <1>1, <1>2, <1>3, <1>6, <2>1 DEF TypeOK, IndexesAgree, graph, dump, Labels
  <2>3. TypeInv'
    BY <1>1, <1>3, <1>6, <2>1, <2>2 DEF TypeInv, dump
  <2>4. QED
    BY <1>2, <1>6, <2>2, <2>3, GraphUnchanged, ExactUnchanged DEF Inv, Pruned
<1>7. QED
  BY <1>4, <1>5, <1>6 DEF NextGenerator

\* The state whose image is s.
LEMMA PreimageIs ==
  ASSUME NEW t \in Tasks, t = task, NEW i \in 1 .. Len(t.syms), NEW r \in t.states
  PROVE  Preimage(t.syms[i], t.syms[i].state[r]) = r
<1> DEFINE f == t.syms[i].state
<1>1. \A q, s \in t.states : f[q] = f[s] => q = s
  BY SymmetryFacts
<1>2. (CHOOSE q \in t.states : f[q] = f[r]) = r
  BY <1>1
<1>3. QED
  BY <1>2 DEF Preimage

\* Some edges of a node get their images: all, or one that has none.
LEMMA PermutedAre ==
  ASSUME IndexesAgree, PermuteNode \/ PermuteInserted
  PROVE  /\ pc = "symmetry"
         /\ \E from \in nodes : \E out \in SUBSET edges :
              /\ PermuteEdges(from, out) /\ \A e \in out : e[1] = from
              /\ \/ out = {e \in edges : e[1] = from} /\ visited' = visited \cup {from}
                 \/ visited' = visited /\ {Permuted(task.syms[gen], e) : e \in out} \ edges # {}
<1>1. CASE PermuteNode
  <2>1. PICK from \in nodes \ visited :
          /\ PermuteEdges(from, {e \in edges : e[1] = from})
          /\ visited' = visited \cup {from}
    BY <1>1 DEF PermuteNode
  <2>2. {e \in edges : e[1] = from} \in SUBSET edges
    OBVIOUS
  <2>3. QED
    BY <1>1, <2>1, <2>2 DEF PermuteNode
<1>2. CASE PermuteInserted
  <2>1. PICK e \in edges : /\ Permuted(task.syms[gen], e) \notin edges
                           /\ PermuteEdges(e[1], {e})
    BY <1>2 DEF PermuteInserted
  <2>2. e[1] \in nodes /\ {e} \in SUBSET edges
    BY DEF IndexesAgree
  <2>3. Permuted(task.syms[gen], e) \in {Permuted(task.syms[gen], x) : x \in {e}} \ edges
    BY <2>1
  <2>4. visited' = visited /\ pc = "symmetry"
    BY <1>2 DEF PermuteInserted
  <2>5. QED
    BY <2>1, <2>2, <2>3, <2>4
<1>3. QED
  BY <1>1, <1>2

\* Symmetric edges lead to states at the same distances, and what is known of
\* these states gives way to the distance.
LEMMA PermuteKeeps ==
  ASSUME Inv, PermuteNode \/ PermuteInserted
  PROVE  Inv'
<1>1. /\ TypeInv /\ TypeOK /\ IndexesAgree /\ PlanStays /\ Lower /\ ExactGraph
      /\ task \in Tasks /\ gen \in 0 .. Len(task.syms)
      /\ GraphOK(task, nodes, edges, origin)
      /\ goal_distance \in [task.states -> Nat \cup {-1}]
      /\ nodes \subseteq task.states /\ edges \subseteq DOMAIN task.succ
      /\ Distances # {}
  BY DistancesExist DEF Inv, TypeInv, TypeOK, IndexesAgree, GraphOK
<1>2. PICK from \in nodes, out \in SUBSET edges :
        PermuteEdges(from, out) /\ (\A e \in out : e[1] = from) /\ visited' \subseteq visited \cup {from} /\ pc = "symmetry"
  BY <1>1, PermutedAre
<1> DEFINE sym == task.syms[gen]
           f == sym.state
           g == sym.op
           to == f[from]
           new == {Permuted(sym, e) : e \in out} \ edges
           changed == {e \in out : Permuted(sym, e) \in new}
           C(s) == \/ s = to /\ goal_distance[from] # -1
                   \/ \E e \in changed : f[task.succ[e]] = s
<1>3. /\ pc' = pc /\ task' = task /\ plan' = plan /\ limit' = limit
      /\ UNCHANGED <<input, init_distance, open, dfs_queue, count_goal_states, dump, gen, todo, change>>
  BY <1>2 DEF PermuteEdges, input
<1>4. gen \in 1 .. Len(task.syms)
  BY <1>1, <1>2 DEF TypeInv
<1>5. /\ nodes' = nodes \cup {x \in {to} : out # {}} \cup {task.succ[e] : e \in new}
      /\ edges' = edges \cup new
      /\ origin' = [o \in DOMAIN origin \cup {e[2] : e \in new} |->
                      (IF o \in DOMAIN origin THEN origin[o] ELSE {})
                      \cup {e[1] : e \in {x \in new : x[2] = o}}]
      /\ goal_distance' =
           [s \in task.states |->
              IF \/ s = to /\ goal_distance[from] # -1
                 \/ \E e \in changed : sym.state[task.succ[e]] = s
              THEN Update(goal_distance, s, goal_distance[Preimage(sym, s)])[s]
              ELSE goal_distance[s]]
      /\ curr_change' = (curr_change \/ new # {})
  BY <1>2 DEF PermuteEdges
<1>6. /\ f \in [task.states -> task.states] /\ g \in [task.ops -> task.ops]
      /\ \A r, s \in task.states : f[r] = f[s] => r = s
      /\ \A o \in task.ops : task.cost[g[o]] = task.cost[o]
      /\ \A x \in DOMAIN task.succ :
           /\ Permuted(sym, x) \in DOMAIN task.succ
           /\ task.succ[Permuted(sym, x)] = f[task.succ[x]]
  BY <1>1, <1>4, SymmetryFacts
<1>7. /\ \A s \in nodes : Exact(s)
      /\ \A e \in edges : Tight(e)
  BY <1>1, <1>2 DEF ExactGraph, Pruned
<1>8. \A e \in edges : e[1] \in nodes /\ task.succ[e] \in nodes /\ e[2] \in task.ops
  <2>1. DOMAIN task.succ \subseteq task.states \X task.ops
    BY <1>1, TaskAssumption
  <2>2. \A e \in edges : e[2] \in task.ops
    BY <1>1, <2>1
  <2>3. QED
    BY <1>1, <2>2 DEF IndexesAgree
<1>9. \A r \in task.states : Preimage(sym, f[r]) = r
  BY <1>1, <1>4, PreimageIs
\* Distances of symmetric states are equal.
<1>10. ASSUME NEW h \in Distances, NEW r \in task.states, Exact(r)
       PROVE  goal_distance[r] = h[f[r]]
  <2> DEFINE k == [s \in task.states |-> h[f[s]]]
  <2>1. best_plan_cost \in Nat /\ h \in Potentials(task, best_plan_cost)
        /\ h[task.init] = best_plan_cost
    BY <1>1, DistancesExist
  <2>2. k \in Potentials(task, best_plan_cost) /\ k[task.init] = h[task.init]
    BY <1>1, <1>4, <2>1, SymmetricDistances
  <2>3. k[r] = h[f[r]]
    OBVIOUS
  <2> HIDE DEF k
  <2>4. k \in Distances
    BY <2>1, <2>2 DEF Distances
  <2>5. QED
    BY <1>10, <2>3, <2>4 DEF Exact
<1>11. ASSUME NEW s \in task.states, C(s)
       PROVE  /\ goal_distance'[s] \in Nat
              /\ \A h \in Distances : goal_distance'[s] = h[s]
  <2>1. PICK r \in nodes : f[r] = s
    BY <1>8, <1>11
  <2>2. r \in task.states /\ Exact(r) /\ Preimage(sym, s) = r
    BY <1>1, <1>7, <1>9, <2>1
  <2> DEFINE v == goal_distance[r]
             w == goal_distance[s]
  <2>3. goal_distance'[s] = Update(goal_distance, s, v)[s]
    BY <1>5, <1>11, <2>2
  <2>4. goal_distance'[s] = IF w = -1 \/ w > v THEN v ELSE w
    <3>1. Update(goal_distance, s, v)[s] = IF w = -1 \/ w > v THEN v ELSE w
      BY <1>1 DEF Update
    <3>2. QED
      BY <2>3, <3>1
  <2>5. v \in Nat /\ w \in Nat \cup {-1}
    BY <1>1, <2>2 DEF Exact
  <2>6. ASSUME NEW h \in Distances
        PROVE  v = h[s] /\ (w # -1 => h[s] <= w)
    BY <1>1, <1>10, <2>1, <2>2 DEF Lower
  <2> HIDE DEF v, w
  <2>7. goal_distance'[s] = v
    BY <1>1, <2>4, <2>5, <2>6
  <2>8. QED
    BY <2>5, <2>6, <2>7
<1>12. ASSUME NEW s \in task.states, ~ C(s)
       PROVE  goal_distance'[s] = goal_distance[s]
  BY <1>5, <1>12
<1>13. goal_distance' \in [task.states -> Nat \cup {-1}]
  <2>1. DOMAIN goal_distance' = task.states
        /\ goal_distance' = [s \in task.states |-> goal_distance'[s]]
    BY <1>5
  <2>2. \A s \in task.states : goal_distance'[s] \in Nat \cup {-1}
    <3> HIDE DEF C
    <3>1. QED
      BY <1>1, <1>11, <1>12
  <2>3. QED
    BY <2>1, <2>2
<1>14. \A s \in task.states, h \in Distances :
          goal_distance'[s] # -1 => h[s] <= goal_distance'[s]
  <2> HIDE DEF C
  <2>1. ASSUME NEW s \in task.states, NEW h \in Distances, C(s)
        PROVE  h[s] <= goal_distance'[s]
    BY <1>11, <2>1
  <2>2. QED
    BY <1>1, <1>12, <2>1 DEF Lower
<1>15. Lower'
  BY <1>3, <1>14, <1>2, SameDistances DEF Lower
<1>16. new \subseteq DOMAIN task.succ /\ new \cap edges = {}
       /\ \A e \in new : /\ \E x \in changed : e = Permuted(sym, x)
                         /\ e[1] = to /\ task.succ[e] \in task.states
  <2>1. ASSUME NEW x \in out
        PROVE  /\ Permuted(sym, x) \in DOMAIN task.succ
               /\ Permuted(sym, x)[1] = to
               /\ task.succ[Permuted(sym, x)] \in task.states
    <3>1. Permuted(sym, x)[1] = f[x[1]]
      BY DEF Permuted
    <3>2. x \in DOMAIN task.succ /\ task.succ[x] \in task.states
      BY <1>1, <1>8
    <3>3. QED
      BY <1>2, <1>6, <3>1, <3>2
  <2>2. QED
    BY <2>1
<1>17. from \in task.states /\ to \in task.states /\ goal_distance[from] # -1
  BY <1>1, <1>6, <1>7 DEF Exact
<1>18. nodes' \in SUBSET task.states /\ nodes \subseteq nodes'
       /\ \A e \in new : e[1] \in nodes' /\ task.succ[e] \in nodes'
  <2>1. nodes' = nodes \cup {x \in {to} : out # {}} \cup {task.succ[e] : e \in new}
    BY <1>5
  <2>2. new # {} => out # {}
    OBVIOUS
  <2> HIDE DEF new
  <2>3. QED
    BY <1>1, <1>16, <1>17, <2>1, <2>2
<1>19. GraphOK(task, nodes', edges', origin')
  <2>1. origin' = [o \in DOMAIN origin \cup {e[2] : e \in new} |->
                     (IF o \in DOMAIN origin THEN origin[o] ELSE {})
                     \cup {e[1] : e \in {x \in new : x[2] = o}}]
        /\ edges' = edges \cup new
    BY <1>5
  <2>2. new \ edges = new
    OBVIOUS
  <2> HIDE DEF new
  <2>3. origin' = OriginWith(origin, edges, new)
    BY <2>1, <2>2 DEF OriginWith
  <2>4. new \in SUBSET DOMAIN task.succ
        /\ \A e \in new : e[1] \in nodes' /\ task.succ[e] \in nodes'
    BY <1>16, <1>18
  <2>5. GraphOK(task, nodes', edges \cup new, OriginWith(origin, edges, new))
    BY <1>1, <1>18, <2>4, GraphGrows
  <2>6. QED
    BY <2>1, <2>3, <2>5
<1>20. TypeOK' /\ IndexesAgree'
  <2>1. curr_change' \in BOOLEAN /\ visited' \subseteq task.states
    BY <1>1, <1>2, <1>5, <1>17 DEF TypeOK
  <2>2. QED
    BY <1>1, <1>2, <1>3, <1>13, <1>19, <2>1 DEF TypeOK, IndexesAgree, GraphOK, dump
<1>21. TypeInv'
  BY <1>1, <1>2, <1>3, <1>20 DEF TypeInv, dump
<1>22. PlanStays'
  <2>1. edges' = edges \cup new
    BY <1>5
  <2> HIDE DEF new
  <2>2. FollowsGraph(plan)'
    BY <1>1, <1>2, <1>3, <2>1 DEF FollowsGraph, PlanStays
  <2>3. plan # <<>>
    BY <1>1 DEF PlanStays
  <2>4. QED
    BY <1>2, <1>3, <2>2, <2>3 DEF PlanStays
\* The nodes are at their distances, the edges lead along them.
<1>23. ASSUME NEW s \in nodes'
       PROVE  /\ goal_distance'[s] \in Nat
              /\ \A h \in Distances : goal_distance'[s] = h[s]
  <2>1. s \in task.states
    BY <1>18
  <2>2. CASE C(s)
    <3> HIDE DEF C
    <3>1. QED
      BY <1>11, <2>1, <2>2
  <2>3. CASE ~ C(s)
    <3>1. s \in nodes
      <4>1. s # to
        BY <1>17, <2>3
      <4>2. ASSUME NEW e \in new, s = task.succ[e]
            PROVE  FALSE
        <5>1. PICK x \in changed : e = Permuted(sym, x)
          BY <1>16
        <5>2. x \in DOMAIN task.succ
          BY <1>1
        <5>3. f[task.succ[x]] = s
          BY <1>6, <4>2, <5>1, <5>2
        <5>4. QED
          BY <2>3, <5>3
      <4>3. QED
        BY <1>5, <4>1, <4>2
    <3>2. goal_distance'[s] = goal_distance[s]
      BY <1>12, <2>1, <2>3
    <3>3. goal_distance[s] \in Nat /\ \A h \in Distances : goal_distance[s] = h[s]
      BY <1>1, <1>7, <2>1, <3>1 DEF Exact
    <3>4. QED
      BY <3>2, <3>3
  <2>4. QED
    BY <2>2, <2>3
<1>24. ASSUME NEW h \in Distances, NEW e \in edges'
       PROVE  h[e[1]] = h[task.succ[e]] + task.cost[e[2]]
  <2>1. CASE e \in edges
    BY <1>7, <1>8, <2>1 DEF Tight, Exact
  <2>2. CASE e \in new
    <3>1. PICK x \in changed : e = Permuted(sym, x)
      BY <1>16, <2>2
    <3>2. x \in edges /\ x \in DOMAIN task.succ /\ x[1] = from
      BY <1>1, <1>2
    <3>3. Tight(x) /\ Exact(x[1]) /\ Exact(task.succ[x])
          /\ x[1] \in task.states /\ task.succ[x] \in task.states /\ x[2] \in task.ops
      BY <1>1, <1>7, <1>8, <3>2
    <3>4. goal_distance[x[1]] = h[f[x[1]]] /\ goal_distance[task.succ[x]] = h[f[task.succ[x]]]
      BY <1>10, <3>3
    <3>5. goal_distance[x[1]] = goal_distance[task.succ[x]] + task.cost[x[2]]
      BY <3>3 DEF Tight
    <3>6. e[1] = f[x[1]] /\ e[2] = g[x[2]]
      BY <3>1 DEF Permuted
    <3>7. task.succ[e] = f[task.succ[x]] /\ task.cost[e[2]] = task.cost[x[2]]
      BY <1>6, <3>1, <3>2, <3>3, <3>6
    <3>8. QED
      BY <3>4, <3>5, <3>6, <3>7
  <2>3. QED
    BY <1>5, <2>1, <2>2
<1>25. ExactGraph'
  <2>1. PICK h \in Distances : TRUE
    BY <1>1
  <2>2. \A s \in nodes' : goal_distance'[s] # -1 /\ goal_distance'[s] \in Nat
    BY <1>23
  <2>3. \A s \in nodes' : Exact(s)'
    BY <1>2, <1>3, <1>23, <2>2, SameDistances DEF Exact
  <2>4. ASSUME NEW e \in edges'
        PROVE  Tight(e)'
    <3>1. e[1] \in nodes' /\ task.succ[e] \in nodes'
      BY <1>19 DEF GraphOK
    <3>2. goal_distance'[e[1]] = h[e[1]] /\ goal_distance'[task.succ[e]] = h[task.succ[e]]
      BY <1>23, <3>1
    <3>3. QED
      BY <1>3, <1>24, <2>2, <3>1, <3>2 DEF Tight
  <2>5. QED
    BY <2>3, <2>4 DEF ExactGraph
<1>26. Settling' /\ Reaching'
  BY <1>2, <1>3 DEF Settling, Reaching
<1>27. QED
  BY <1>15, <1>20, <1>21, <1>22, <1>25, <1>26 DEF Inv

LEMMA InitKeeps ==
  ASSUME Init
  PROVE  Inv
<1>1. /\ task \in Tasks /\ plan \in PlansOf[task] /\ limit \in Limits
      /\ pc = "add plan" /\ after = "done" /\ wanted = 0
      /\ nodes = {} /\ edges = {} /\ DOMAIN origin = {}
      /\ goal_distance = [s \in task.states |-> -1]
      /\ init_distance = [s \in task.states |-> -1]
      /\ open = {} /\ count_goal_states = 0
      /\ optimal_plans = {} /\ non_optimal_plans = {} /\ files = <<>> /\ DOMAIN files = {}
      /\ gen = 0 /\ todo = {} /\ visited = {} /\ curr_change = FALSE /\ change = FALSE
  <2>1. DOMAIN <<>> = {}
    OBVIOUS
  <2>2. QED
    BY <2>1 DEF Init
<1>2. goal_distance \in [task.states -> Nat \cup {-1}]
      /\ init_distance \in [task.states -> Nat \cup {-1}]
  BY <1>1
<1>3. gen \in 0 .. Len(task.syms)
  <2> DEFINE n == Len(task.syms)
  <2>1. n \in Nat
    BY <1>1, Generators
  <2> HIDE DEF n
  <2>2. gen = 0
    BY <1>1
  <2>3. gen \in 0 .. n
    BY <2>1, <2>2
  <2>4. QED
    BY <2>3 DEF n
<1>4. TypeOK
  BY <1>1, <1>2, <1>3 DEF TypeOK, Labels
<1>5. TypeInv
  <2>1. <<>> \in Seq(Seq(task.ops))
    OBVIOUS
  <2>2. QED
    BY <1>1, <1>4, <2>1, FS_EmptySet DEF TypeInv
<1>6. IndexesAgree
  BY <1>1, <1>4 DEF IndexesAgree
<1>7. PlanStays /\ Lower
  BY <1>1 DEF PlanStays, Lower
<1>8. Settling /\ Reaching /\ ExactGraph
  BY <1>1 DEF Settling, Reaching, ExactGraph, Pruned
<1>9. QED
  BY <1>5, <1>6, <1>7, <1>8 DEF Inv

LEMMA StutterKeeps ==
  ASSUME Inv, UNCHANGED vars
  PROVE  Inv'
<1>1. /\ UNCHANGED <<input, graph, dump, symmetry>>
      /\ UNCHANGED <<pc, goal_distance, init_distance, open, dfs_queue, count_goal_states>>
  BY DEF vars
<1>2. TypeOK' /\ IndexesAgree'
  BY <1>1 DEF Inv, TypeOK, IndexesAgree, input, graph, dump, symmetry
<1>3. TypeInv'
  BY <1>1, <1>2 DEF Inv, TypeInv, input, dump, symmetry
<1>4. PlanStays'
  BY <1>1 DEF Inv, PlanStays, FollowsGraph, input, graph
<1>5. Distances' = Distances
  BY <1>1, SameDistances
<1>6. Lower'
  BY <1>1, <1>5 DEF Inv, Lower, input
<1>7. Settling'
  BY <1>1 DEF Inv, Settling, input, graph
<1>8. \A s : Exact(s)' <=> Exact(s)
  BY <1>1, <1>5 DEF Exact
<1>9. \A e : Tight(e)' <=> Tight(e)
  BY <1>1 DEF Tight, input
<1>10. Reaching'
  BY <1>1, <1>8, <1>9 DEF Inv, Reaching, input, graph
<1>11. ExactGraph'
  BY <1>1, <1>8, <1>9 DEF Inv, ExactGraph, Pruned, graph, dump
<1>12. QED
  BY <1>2, <1>3, <1>4, <1>6, <1>7, <1>10, <1>11 DEF Inv

-----------------------------------------------------------------------------
(* The theorems.                                                           *)

\* The invariant holds in every state of every call.
THEOREM InvariantHolds == Spec => []Inv
<1>1. Init => Inv
  BY InitKeeps
<1>2. Inv /\ [Next]_vars => Inv'
  <2> SUFFICES ASSUME Inv, [Next]_vars PROVE Inv'
    OBVIOUS
  <2>1. CASE AddFirstPlan
    BY <2>1, FirstPlanKeeps
  <2>2. CASE StartReorderings
    BY <2>2, ReorderingsKeep
  <2>3. CASE Reorder
    BY <2>3, ReorderKeeps
  <2>4. CASE StartBackward
    BY <2>4, StartBackwardKeeps
  <2>5. CASE Backward
    BY <2>5, BackwardKeeps
  <2>6. CASE RemoveNonPlans
    BY <2>6, NonPlansKeep
  <2>7. CASE StartForward
    BY <2>7, StartForwardKeeps
  <2>8. CASE Forward
    BY <2>8, ForwardKeeps
  <2>9. CASE RemoveInitUnreachable
    BY <2>9, UnreachableKeep
  <2>10. CASE DumpNode
    BY <2>10, DumpNodeKeeps
  <2>11. CASE DumpEnd
    BY <2>11, DumpEndKeeps
  <2>12. CASE StartRound
    BY <2>12, RoundKeeps
  <2>13. CASE PermuteNode \/ PermuteInserted
    BY <2>13, PermuteKeeps
  <2>14. CASE EndOfPass
    BY <2>14, PassKeeps
  <2>15. CASE NextGenerator
    BY <2>15, GeneratorKeeps
  <2>16. CASE UNCHANGED vars
    BY <2>16, StutterKeeps
  <2>17. QED
    BY <2>1, <2>2, <2>3, <2>4, <2>5, <2>6, <2>7, <2>8, <2>9, <2>10, <2>11,
       <2>12, <2>13, <2>14, <2>15, <2>16 DEF Next
<1>3. QED
  BY <1>1, <1>2, PTL DEF Spec

\* The forbidding task and the dumps read the same graph: after every
\* insertion, pruning and symmetry the origin states of an operator are those
\* of its edges, and no edge leads out of the nodes.
THEOREM IndexesCorrect == Spec => []IndexesAgree
<1>1. Inv => IndexesAgree
  BY DEF Inv
<1>2. QED
  BY <1>1, InvariantHolds, PTL

\* From the first pruning on, and through all symmetries, every node has the
\* cost of the cheapest way to the goal as its distance, and the edges lead
\* along such ways.
THEOREM DistancesCorrect == Spec => []DistancesAreExact
<1>1. Inv => DistancesAreExact
  <2> SUFFICES ASSUME Inv, Pruned, NEW s \in nodes
               PROVE  /\ goal_distance[s] \in 0 .. best_plan_cost
                      /\ s \in task.goal => goal_distance[s] = 0
                      /\ \A e \in edges : e[1] = s =>
                           goal_distance[s] = goal_distance[task.succ[e]] + task.cost[e[2]]
    BY DEF DistancesAreExact
  <2>1. TypeOK /\ s \in task.states /\ Exact(s) /\ \A e \in edges : Tight(e)
    BY DEF Inv, TypeInv, TypeOK, ExactGraph
  <2>2. PICK h \in Distances : TRUE
    BY <2>1, DistancesExist
  <2>3. h \in [task.states -> 0 .. best_plan_cost] /\ \A r \in task.goal : h[r] = 0
    BY <2>1, DistancesExist DEF Potentials
  <2>4. goal_distance[s] = h[s]
    BY <2>1, <2>2 DEF Exact
  <2>5. \A e \in edges : e[1] = s =>
           goal_distance[s] = goal_distance[task.succ[e]] + task.cost[e[2]]
    BY <2>1 DEF Tight
  <2>6. QED
    BY <2>1, <2>3, <2>4, <2>5
<1>2. QED
  BY <1>1, InvariantHolds, PTL


-----------------------------------------------------------------------------
(* The inductive invariant of the plans that are saved.                    *)

\* The operators lead along the path from the initial state and close no loop.
IsRun(t, ops, path) ==
  /\ ops \in Seq(t.ops) /\ path \in Seq(t.states)
  /\ Len(path) = Len(ops) + 1 /\ path[1] = t.init
  /\ \A i \in 1 .. Len(ops) : /\ <<path[i], ops[i]>> \in DOMAIN t.succ
                              /\ path[i + 1] = t.succ[<<path[i], ops[i]>>]
  /\ \A i, j \in 1 .. Len(path) : path[i] = path[j] => i = j

\* A search entry: a run along edges E, with its cost.
IsEntry(t, E, e) ==
  /\ IsRun(t, e.ops, e.path) /\ e.cost = PlanCost(t, e.ops)
  /\ \A i \in 1 .. Len(e.ops) : <<e.path[i], e.ops[i]>> \in E

Entries == pc = "dump" => \A k \in DOMAIN dfs_queue : IsEntry(task, edges, dfs_queue[k])

\* Meanwhile all edges lead towards the goal; in the first search they are
\* those of the plan.
PlanEdges == {<<Trajectory(task, plan)[i - 1], plan[i]>> : i \in 1 .. Len(plan)}

Guided ==
  pc = "dump" =>
    /\ \A e \in edges : Tight(e) /\ Exact(e[1]) /\ Exact(task.succ[e])
    /\ after = "start reorderings" => edges = PlanEdges
    /\ wanted = IF after = "start reorderings" THEN 1 ELSE limit

\* What the search has found, and what it will find.
Starts(e, p) == Len(e.ops) <= Len(p) /\ \A i \in 1 .. Len(e.ops) : e.ops[i] = p[i]

Pending(q, p) == \E k \in DOMAIN q : Starts(q[k], p)

Searching ==
  pc = "dump" => \A p \in LoopFreePlans(task) :
    FollowsGraph(p) => p \in optimal_plans \/ Pending(dfs_queue, p)

Saved ==
  /\ optimal_plans = InRange(files) /\ non_optimal_plans = {}
  /\ \A i, j \in DOMAIN files : files[i] = files[j] => i = j
  /\ \A p \in optimal_plans : p \in LoopFreePlans(task) /\ PlanCost(task, p) = best_plan_cost

First ==
  /\ pc = "add plan" => files = <<>> /\ edges = {}
  /\ pc = "dump" /\ after = "start reorderings" => files = <<>> \/ files = <<plan>>
  /\ pc \in {"start reorderings", "reorder", "backward", "start forward", "forward"} =>
       files = <<plan>>
  /\ Pruned => files # <<>> /\ files[1] = plan

Follow == Pruned => \A p \in optimal_plans : FollowsGraph(p)

\* The generators that the round has tried without a change.
ClosedUnder(i) == \A e \in edges : Permuted(task.syms[i], e) \in edges

Rounds ==
  /\ pc = "symmetry" /\ ~ change /\ ~ curr_change =>
       /\ nodes = todo
       /\ \A i \in 1 .. gen - 1 : ClosedUnder(i)
       /\ \A e \in edges : e[1] \in visited => Permuted(task.syms[gen], e) \in edges
  /\ pc = "next generator" /\ ~ change => \A i \in 1 .. gen : ClosedUnder(i)
  /\ pc = "dump" /\ after = "next generator" => change
  /\ (pc = "dump" /\ after = "done") \/ pc = "done" =>
       enough_plans_found \/ \A i \in DOMAIN task.syms : ClosedUnder(i)

Finished ==
  pc = "done" /\ ~ enough_plans_found =>
    \A p \in LoopFreePlans(task) : FollowsGraph(p) => p \in optimal_plans

SavedInv ==
  /\ Entries /\ Guided /\ Searching /\ Saved /\ First /\ Follow
  /\ Rounds /\ Finished

-----------------------------------------------------------------------------
(* Runs without loops.                                                     *)

\* The elements of a sequence.
LEMMA ElementsOf ==
  ASSUME NEW S, NEW q \in Seq(S)
  PROVE  /\ DOMAIN q = 1 .. Len(q) /\ Len(q) \in Nat
         /\ \A x : x \in InRange(q) <=> \E i \in 1 .. Len(q) : q[i] = x
         /\ \A i \in 1 .. Len(q) : q[i] \in S
         /\ q # <<>> => Len(q) \in 1 .. Len(q)
BY DEF InRange

\* A sequence with one more element.
LEMMA AppendIs ==
  ASSUME NEW S, NEW q \in Seq(S), NEW x \in S
  PROVE  /\ Append(q, x) \in Seq(S) /\ Len(Append(q, x)) = Len(q) + 1
         /\ \A i \in 1 .. Len(q) : Append(q, x)[i] = q[i]
         /\ Append(q, x)[Len(q) + 1] = x
OBVIOUS

LEMMA RunGrows ==
  ASSUME NEW t \in Tasks, NEW p, NEW path, IsRun(t, p, path), NEW o \in t.ops,
         <<Top(path), o>> \in DOMAIN t.succ, t.succ[<<Top(path), o>>] \notin InRange(path)
  PROVE  IsRun(t, Append(p, o), Append(path, t.succ[<<Top(path), o>>]))
<1> DEFINE s == t.succ[<<Top(path), o>>]
           q == Append(p, o)
           r == Append(path, s)
           n == Len(p)
           ops == t.ops
           states == t.states
<1>1. s \in states
  BY TaskAssumption
<1>2. p \in Seq(ops) /\ path \in Seq(states) /\ n \in Nat /\ Len(path) = n + 1
  BY DEF IsRun
<1>3. q \in Seq(ops) /\ Len(q) = n + 1 /\ q[n + 1] = o /\ \A i \in 1 .. n : q[i] = p[i]
  <2> HIDE DEF ops
  <2>1. p \in Seq(ops) /\ o \in ops
    BY <1>2 DEF ops
  <2>2. QED
    BY <2>1, AppendIs
<1>4. /\ r \in Seq(states) /\ Len(r) = n + 2 /\ r[n + 2] = s
      /\ \A i \in 1 .. n + 1 : r[i] = path[i]
  <2> HIDE DEF s, states
  <2>1. QED
    BY <1>1, <1>2, AppendIs
<1>5. r[1] = t.init
  BY <1>2, <1>4 DEF IsRun
<1>6. ASSUME NEW i \in 1 .. n + 1
      PROVE  <<r[i], q[i]>> \in DOMAIN t.succ /\ r[i + 1] = t.succ[<<r[i], q[i]>>]
  <2>1. CASE i = n + 1
    <3>1. r[i] = Top(path) /\ r[i + 1] = s /\ q[i] = o
      BY <1>2, <1>3, <1>4, <2>1 DEF Top
    <3> HIDE DEF r, q
    <3>2. QED
      BY <3>1
  <2>2. CASE i # n + 1
    <3>1. i \in 1 .. n /\ i \in 1 .. n + 1 /\ i + 1 \in 1 .. n + 1
      BY <1>2, <2>2
    <3>2. r[i] = path[i] /\ r[i + 1] = path[i + 1] /\ q[i] = p[i]
      BY <1>3, <1>4, <3>1
    <3> HIDE DEF r, q
    <3>3. QED
      BY <3>1, <3>2 DEF IsRun
  <2>3. QED
    BY <2>1, <2>2
<1>7. ASSUME NEW i \in 1 .. n + 2, NEW j \in 1 .. n + 2, r[i] = r[j]
      PROVE  i = j
  <2> HIDE DEF r, s
  <2>1. \A k \in 1 .. n + 1 : path[k] # s
    BY <1>2, ElementsOf DEF s
  <2>2. CASE i = n + 2 \/ j = n + 2
    BY <1>2, <1>4, <1>7, <2>1, <2>2
  <2>3. CASE i # n + 2 /\ j # n + 2
    <3>1. i \in 1 .. Len(path) /\ j \in 1 .. Len(path) /\ path[i] = path[j]
      BY <1>2, <1>4, <1>7, <2>3
    <3>2. QED
      BY <3>1 DEF IsRun
  <2>4. QED
    BY <2>2, <2>3
<1>8. QED
  <2> HIDE DEF q, r, s, n
  <2>1. n \in Nat /\ Len(r) = Len(q) + 1 /\ Len(q) = n + 1 /\ Len(r) = n + 2
    BY <1>2, <1>3, <1>4
  <2>2. IsRun(t, q, r)
    BY <1>3, <1>4, <1>5, <1>6, <1>7, <2>1 DEF IsRun
  <2>3. QED
    BY <2>2 DEF q, r, s

\* The beginning of a run is a run.
LEMMA RunBegins ==
  ASSUME NEW t \in Tasks, NEW p, NEW path, IsRun(t, p, path), NEW n \in 0 .. Len(p)
  PROVE  IsRun(t, SubSeq(p, 1, n), SubSeq(path, 1, n + 1))
<1> DEFINE q == SubSeq(p, 1, n)
           r == SubSeq(path, 1, n + 1)
           ops == t.ops
           states == t.states
<1>1. p \in Seq(ops) /\ path \in Seq(states) /\ Len(p) \in Nat /\ Len(path) = Len(p) + 1
      /\ n \in Nat /\ n <= Len(p)
  BY DEF IsRun
<1>2. q \in Seq(ops) /\ Len(q) = n /\ \A i \in 1 .. n : q[i] = p[i]
  <2> HIDE DEF ops
  <2>1. QED
    BY <1>1, Beginning
<1>3. r \in Seq(states) /\ Len(r) = n + 1 /\ \A i \in 1 .. n + 1 : r[i] = path[i]
  <2> HIDE DEF states
  <2>1. n + 1 \in 0 .. Len(path)
    BY <1>1
  <2>2. QED
    BY <1>1, <2>1, Beginning
<1> HIDE DEF q, r
<1>4. r[1] = t.init
  BY <1>1, <1>3 DEF IsRun
<1>5. ASSUME NEW i \in 1 .. n
      PROVE  <<r[i], q[i]>> \in DOMAIN t.succ /\ r[i + 1] = t.succ[<<r[i], q[i]>>]
  <2>1. i \in 1 .. Len(p) /\ i \in 1 .. n + 1 /\ i + 1 \in 1 .. n + 1
    BY <1>1
  <2>2. r[i] = path[i] /\ r[i + 1] = path[i + 1] /\ q[i] = p[i]
    BY <1>2, <1>3, <2>1
  <2>3. QED
    BY <2>1, <2>2 DEF IsRun
<1>6. ASSUME NEW i \in 1 .. n + 1, NEW j \in 1 .. n + 1, r[i] = r[j]
      PROVE  i = j
  <2>1. i \in 1 .. Len(path) /\ j \in 1 .. Len(path) /\ path[i] = path[j]
    BY <1>1, <1>3, <1>6
  <2>2. QED
    BY <2>1 DEF IsRun
<1>7. IsRun(t, q, r)
  BY <1>1, <1>2, <1>3, <1>4, <1>5, <1>6 DEF IsRun
<1>8. QED
  BY <1>7 DEF q, r

\* A run passes no more states than there are.
LEMMA RunIsShort ==
  ASSUME NEW t \in Tasks, NEW p, NEW path, IsRun(t, p, path)
  PROVE  Len(p) \in 0 .. Cardinality(t.states) - 1
<1>1. /\ Len(p) \in Nat /\ Len(path) = Len(p) + 1 /\ path \in Seq(t.states)
      /\ \A i, j \in 1 .. Len(path) : path[i] = path[j] => i = j
  BY DEF IsRun
<1>2. IsFiniteSet(t.states) /\ Cardinality(t.states) \in Nat
  BY TaskAssumption, FS_CardinalityType
<1> DEFINE D == 1 .. Len(path)
<1>3. path \in Injection(D, t.states)
  <2>1. path \in [D -> t.states]
    BY <1>1
  <2>2. QED
    BY <1>1, <2>1 DEF Injection, IsInjective
<1>4. Cardinality(D) <= Cardinality(t.states)
  <2> HIDE DEF D
  <2>1. QED
    BY <1>2, <1>3, FS_Injection
<1>5. Cardinality(D) = Len(p) + 1
  <2>1. 1 \in Int /\ Len(path) \in Int /\ ~ (1 > Len(path)) /\ Len(path) - 1 + 1 = Len(p) + 1
    BY <1>1
  <2>2. QED
    BY <2>1, FS_Interval
<1>6. QED
  <2> HIDE DEF D
  <2>1. QED
    BY <1>1, <1>2, <1>4, <1>5

\* Its states are those of the trajectory.
LEMMA RunTrajectory ==
  ASSUME NEW t \in Tasks, NEW p, NEW path, IsRun(t, p, path)
  PROVE  /\ Len(p) \in Nat
         /\ \A i \in 0 .. Len(p) : Trajectory(t, p)[i] = path[i + 1]
<1> DEFINE f == [i \in 0 .. Len(p) |-> path[i + 1]]
<1>1. Len(p) \in Nat /\ Len(path) = Len(p) + 1
  BY DEF IsRun
<1>2. f[0] = t.init
  BY <1>1 DEF IsRun
<1>3. ASSUME NEW i \in 1 .. Len(p)
      PROVE  f[i] = t.succ[<<f[i - 1], p[i]>>]
  <2>1. i \in 0 .. Len(p) /\ i - 1 \in 0 .. Len(p)
    BY <1>1
  <2>2. f[i] = path[i + 1] /\ f[i - 1] = path[i]
    BY <1>1, <2>1
  <2> HIDE DEF f
  <2>3. QED
    BY <2>2 DEF IsRun
<1>4. AgreeUpTo(Len(p), Trajectory(t, p), f)
  <2> HIDE DEF f
  <2>1. QED
    BY <1>1, <1>2, <1>3, IsTrajectory
<1>5. QED
  BY <1>1, <1>4 DEF AgreeUpTo

\* The runs that go on after r, and the run that has not begun.
Extended(t, r) ==
  {[ops |-> Append(r.ops, o), path |-> Append(r.path, t.succ[<<Top(r.path), o>>])] :
     o \in {x \in t.ops : /\ <<Top(r.path), x>> \in DOMAIN t.succ
                          /\ t.succ[<<Top(r.path), x>>] \notin InRange(r.path)}}

Started(t) == {[ops |-> <<>>, path |-> <<t.init>>]}

\* f[n] are the runs of n operators.
RunsByLength(t, N, f) ==
  /\ f[0] = Started(t)
  /\ \A n \in 1 .. N : f[n] = UNION {Extended(t, r) : r \in f[n - 1]}

LEMMA ExtendedTyped ==
  ASSUME NEW t \in Tasks, NEW r \in [ops : Seq(t.ops), path : Seq(t.states)]
  PROVE  Extended(t, r) \subseteq [ops : Seq(t.ops), path : Seq(t.states)]
<1> SUFFICES ASSUME NEW o \in t.ops, <<Top(r.path), o>> \in DOMAIN t.succ
             PROVE  [ops |-> Append(r.ops, o),
                     path |-> Append(r.path, t.succ[<<Top(r.path), o>>])]
                    \in [ops : Seq(t.ops), path : Seq(t.states)]
  BY DEF Extended
<1> DEFINE s == t.succ[<<Top(r.path), o>>]
           a == r.ops
           b == r.path
           ops == t.ops
           states == t.states
<1>1. s \in states /\ a \in Seq(ops) /\ b \in Seq(states)
  BY TaskAssumption
<1>2. Append(a, o) \in Seq(ops)
  <2> HIDE DEF a, ops
  <2>1. o \in ops
    BY DEF ops
  <2>2. QED
    BY <1>1, <2>1, Longer
<1>3. Append(b, s) \in Seq(states)
  <2> HIDE DEF b, s, states
  <2>1. QED
    BY <1>1, Longer
<1>4. QED
  BY <1>2, <1>3

\* The definition of Runs has such a function.
LEMMA RunsDefined ==
  ASSUME NEW t \in Tasks, NEW N \in Nat, N = Cardinality(t.states) - 1
  PROVE  \E f : /\ RunsByLength(t, N, f)
                /\ Runs(t) = UNION {f[n] : n \in 0 .. N}
<1> DEFINE Body(f) == [n \in 0 .. N |->
                         IF n = 0 THEN Started(t)
                         ELSE UNION {Extended(t, r) : r \in f[n - 1]}]
           g == CHOOSE f : f = Body(f)
           U == [ops : Seq(t.ops), path : Seq(t.states)]
           step == [x \in (SUBSET U) \X (1 .. N) |-> UNION {Extended(t, r) : r \in x[1]}]
<1>1. step \in [(SUBSET U) \X (1 .. N) -> SUBSET U]
  <2> SUFFICES ASSUME NEW x \in (SUBSET U) \X (1 .. N)
               PROVE  UNION {Extended(t, r) : r \in x[1]} \subseteq U
    OBVIOUS
  <2>1. \A r \in x[1] : r \in U
    OBVIOUS
  <2>2. \A r \in x[1] : Extended(t, r) \subseteq U
    BY <2>1, ExtendedTyped
  <2> HIDE DEF U
  <2>3. QED
    BY <2>2
<1>2. Started(t) \subseteq U
  <2>1. <<t.init>> \in Seq(t.states)
    <3> DEFINE i == t.init
               states == t.states
    <3>1. i \in states
      BY TaskAssumption
    <3> HIDE DEF i, states
    <3>2. <<i>> \in Seq(states)
      BY <3>1
    <3>3. QED
      BY <3>2 DEF i, states
  <2>2. <<>> \in Seq(t.ops)
    OBVIOUS
  <2>3. QED
    BY <2>1, <2>2 DEF Started
<1>3. HasPrefixFunction(N, SUBSET U, Started(t), step)
  <2> HIDE DEF step, U
  <2>1. QED
    BY <1>1, <1>2, PrefixRecursion
<1>4. PICK f \in [0 .. N -> SUBSET U] :
        f[0] = Started(t) /\ \A i \in 1 .. N : f[i] = step[<<f[i - 1], i>>]
  <2> HIDE DEF step, U
  <2>1. QED
    BY <1>3 DEF HasPrefixFunction
<1>5. \A i \in 1 .. N : f[i] = UNION {Extended(t, r) : r \in f[i - 1]}
  <2> SUFFICES ASSUME NEW i \in 1 .. N
               PROVE  f[i] = UNION {Extended(t, r) : r \in f[i - 1]}
    OBVIOUS
  <2> DEFINE y == f[i - 1]
  <2>1. i - 1 \in 0 .. N
    OBVIOUS
  <2>2. y \in SUBSET U
    <3> HIDE DEF U
    <3>1. QED
      BY <2>1
  <2>3. f[i] = step[<<y, i>>]
    BY <1>4
  <2> HIDE DEF y
  <2>4. <<y, i>> \in (SUBSET U) \X (1 .. N)
    BY <2>2
  <2>5. step[<<y, i>>] = UNION {Extended(t, r) : r \in <<y, i>>[1]}
    <3> HIDE DEF U
    <3>1. QED
      BY <2>4
  <2>6. QED
    BY <2>3, <2>5 DEF y
<1>6. f = Body(f)
  <2> HIDE DEF U
  <2>1. f = [n \in 0 .. N |-> f[n]]
    OBVIOUS
  <2>2. \A n \in 0 .. N : f[n] = IF n = 0 THEN Started(t)
                                 ELSE UNION {Extended(t, r) : r \in f[n - 1]}
    <3> SUFFICES ASSUME NEW n \in 0 .. N
                 PROVE  f[n] = IF n = 0 THEN Started(t)
                               ELSE UNION {Extended(t, r) : r \in f[n - 1]}
      OBVIOUS
    <3>1. n # 0 => n \in 1 .. N
      OBVIOUS
    <3>2. QED
      BY <1>4, <1>5, <3>1
  <2>3. QED
    BY <2>1, <2>2
<1>7. g = Body(g)
  <2> HIDE DEF Body
  <2>1. QED
    BY <1>6
<1>8. Runs(t) = UNION {g[n] : n \in 0 .. N}
  BY DEF Runs, Extended, Started
<1>9. RunsByLength(t, N, g)
  <2> HIDE DEF g
  <2>1. g[0] = Started(t)
    <3>1. 0 \in 0 .. N
      OBVIOUS
    <3>2. QED
      BY <1>7, <3>1
  <2>2. ASSUME NEW n \in 1 .. N
        PROVE  g[n] = UNION {Extended(t, r) : r \in g[n - 1]}
    <3>1. n \in 0 .. N /\ n # 0
      OBVIOUS
    <3>2. QED
      BY <1>7, <3>1
  <2>3. QED
    BY <2>1, <2>2 DEF RunsByLength
<1>10. QED
  <2> HIDE DEF g
  <2>1. QED
    BY <1>8, <1>9

\* A run as the reference definition has it.
RunRecord(p, path) == [ops |-> p, path |-> path]

LEMMA EmptyRun ==
  ASSUME NEW t \in Tasks
  PROVE  /\ IsRun(t, <<>>, <<t.init>>)
         /\ \A p, path : IsRun(t, p, path) /\ Len(p) = 0 => p = <<>> /\ path = <<t.init>>
<1> DEFINE i == t.init
           states == t.states
           ops == t.ops
<1>1. i \in states
  BY TaskAssumption
<1>2. /\ <<>> \in Seq(ops) /\ <<i>> \in Seq(states) /\ Len(<<i>>) = 1 /\ Len(<<>>) = 0
      /\ <<i>>[1] = i
  <2> HIDE DEF i, ops, states
  <2>1. QED
    BY <1>1
<1>3. IsRun(t, <<>>, <<i>>)
  <2> HIDE DEF i
  <2>1. i = t.init
    BY DEF i
  <2>2. \A k \in 1 .. 0 : FALSE
    OBVIOUS
  <2>3. \A k \in 1 .. 1 : k = 1
    OBVIOUS
  <2> DEFINE q == <<i>>
             p == <<>>
  <2>4. p \in Seq(ops) /\ q \in Seq(states) /\ Len(q) = 1 /\ Len(p) = 0 /\ q[1] = i
    BY <1>2
  <2> HIDE DEF p, q
  <2>5. IsRun(t, p, q)
    BY <2>1, <2>2, <2>3, <2>4 DEF IsRun
  <2>6. QED
    BY <2>5 DEF p, q
<1>4. ASSUME NEW p, NEW path, IsRun(t, p, path), Len(p) = 0
      PROVE  p = <<>> /\ path = <<i>>
  <2>1. p \in Seq(ops) /\ path \in Seq(states) /\ Len(path) = 1 /\ path[1] = i
    BY <1>4 DEF IsRun
  <2> HIDE DEF i, ops, states
  <2>2. p = <<>>
    BY <1>4, <2>1
  <2>3. \A k \in 1 .. Len(path) : path[k] = <<i>>[k]
    BY <1>2, <2>1
  <2>4. path = <<i>>
    BY <1>2, <2>1, <2>3, SeqEqual
  <2>5. QED
    BY <2>2, <2>4
<1>5. QED
  BY <1>3, <1>4

\* A run is its beginning and its last operator.
LEMMA RunEnds ==
  ASSUME NEW t \in Tasks, NEW p, NEW path, IsRun(t, p, path), NEW n \in Nat, Len(p) = n + 1
  PROVE  LET q == SubSeq(p, 1, n)
             r == SubSeq(path, 1, n + 1)
         IN  /\ IsRun(t, q, r) /\ Len(q) = n
             /\ RunRecord(p, path) \in Extended(t, RunRecord(q, r))
<1> DEFINE q == SubSeq(p, 1, n)
           r == SubSeq(path, 1, n + 1)
           o == p[n + 1]
           s == path[n + 2]
           ops == t.ops
           states == t.states
<1>1. /\ p \in Seq(ops) /\ path \in Seq(states) /\ Len(path) = n + 2
      /\ n \in 0 .. Len(p) /\ n + 1 \in 1 .. Len(p)
      /\ n + 1 \in 1 .. Len(path) /\ n + 2 \in 1 .. Len(path) /\ n + 1 \in 0 .. Len(path)
  BY DEF IsRun
<1>2. IsRun(t, q, r)
  BY <1>1, RunBegins
<1>3. q \in Seq(ops) /\ Len(q) = n /\ \A i \in 1 .. n : q[i] = p[i]
  <2> HIDE DEF ops
  <2>1. QED
    BY <1>1, Beginning
<1>4. r \in Seq(states) /\ Len(r) = n + 1 /\ \A i \in 1 .. n + 1 : r[i] = path[i]
  <2> HIDE DEF states
  <2>1. QED
    BY <1>1, Beginning
<1>5. o \in ops /\ s \in states
  <2> HIDE DEF ops, states
  <2>1. QED
    BY <1>1
<1>6. Append(q, o) = p
  <2> HIDE DEF ops, q
  <2>1. /\ Append(q, o) \in Seq(ops) /\ Len(Append(q, o)) = n + 1
        /\ \A i \in 1 .. n : Append(q, o)[i] = q[i]
        /\ Append(q, o)[n + 1] = o
    BY <1>3, <1>5, AppendIs
  <2>2. \A i \in 1 .. n + 1 : Append(q, o)[i] = p[i]
    <3>1. \A i \in 1 .. n + 1 : i \in 1 .. n \/ i = n + 1
      OBVIOUS
    <3>2. QED
      BY <1>3, <2>1, <3>1
  <2>3. QED
    BY <1>1, <2>1, <2>2, SeqEqual
<1>7. Append(r, s) = path
  <2> HIDE DEF states, r
  <2>1. /\ Append(r, s) \in Seq(states) /\ Len(Append(r, s)) = n + 2
        /\ \A i \in 1 .. n + 1 : Append(r, s)[i] = r[i]
        /\ Append(r, s)[n + 2] = s
    BY <1>4, <1>5, AppendIs
  <2>2. \A i \in 1 .. n + 2 : Append(r, s)[i] = path[i]
    <3>1. \A i \in 1 .. n + 2 : i \in 1 .. n + 1 \/ i = n + 2
      OBVIOUS
    <3>2. QED
      BY <1>4, <2>1, <3>1
  <2>3. QED
    BY <1>1, <2>1, <2>2, SeqEqual
<1>8. Top(r) = path[n + 1]
  <2> HIDE DEF r
  <2>1. n + 1 \in 1 .. n + 1
    OBVIOUS
  <2>2. QED
    BY <1>4, <2>1 DEF Top
<1>9. <<Top(r), o>> \in DOMAIN t.succ /\ s = t.succ[<<Top(r), o>>]
  <2> HIDE DEF r
  <2>1. n + 1 + 1 = n + 2
    OBVIOUS
  <2>2. QED
    BY <1>1, <1>8, <2>1 DEF IsRun
<1>10. s \notin InRange(r)
  <2> HIDE DEF r, s, states
  <2>1. SUFFICES ASSUME NEW i \in 1 .. n + 1, r[i] = s PROVE FALSE
    BY <1>4, ElementsOf
  <2>2. path[i] = path[n + 2] /\ i \in 1 .. Len(path) /\ i # n + 2
    BY <1>1, <1>4, <2>1 DEF s
  <2>3. QED
    BY <1>1, <2>2 DEF IsRun
<1>11. RunRecord(p, path) \in Extended(t, RunRecord(q, r))
  <2> HIDE DEF q, r, s, o
  <2>1. o \in {x \in t.ops : /\ <<Top(r), x>> \in DOMAIN t.succ
                             /\ t.succ[<<Top(r), x>>] \notin InRange(r)}
    BY <1>5, <1>9, <1>10
  <2>2. RunRecord(p, path) = [ops |-> Append(q, o),
                              path |-> Append(r, t.succ[<<Top(r), o>>])]
    BY <1>6, <1>7, <1>9 DEF RunRecord
  <2>3. QED
    BY <2>1, <2>2 DEF Extended, RunRecord
<1>12. QED
  BY <1>2, <1>3, <1>11

\* What goes on after a run is a run.
LEMMA ExtendedRun ==
  ASSUME NEW t \in Tasks, NEW p, NEW path, IsRun(t, p, path),
         NEW x \in Extended(t, RunRecord(p, path))
  PROVE  \E q, r : x = RunRecord(q, r) /\ IsRun(t, q, r) /\ Len(q) = Len(p) + 1
<1>1. PICK o \in t.ops :
        /\ <<Top(path), o>> \in DOMAIN t.succ
        /\ t.succ[<<Top(path), o>>] \notin InRange(path)
        /\ x = RunRecord(Append(p, o), Append(path, t.succ[<<Top(path), o>>]))
  BY DEF Extended, RunRecord
<1>2. IsRun(t, Append(p, o), Append(path, t.succ[<<Top(path), o>>]))
  BY <1>1, RunGrows
<1>3. Len(Append(p, o)) = Len(p) + 1
  <2>1. p \in Seq(t.ops)
    BY DEF IsRun
  <2>2. QED
    BY <2>1, AppendIs
<1>4. QED
  BY <1>1, <1>2, <1>3

\* The runs of the reference definition are those without loops.
LEMMA RunsAre ==
  ASSUME NEW t \in Tasks
  PROVE  \A x : x \in Runs(t) <=> \E p, path : x = RunRecord(p, path) /\ IsRun(t, p, path)
<1> DEFINE N == Cardinality(t.states) - 1
<1>1. N \in Nat
  <2>1. IsRun(t, <<>>, <<t.init>>)
    BY EmptyRun
  <2>2. Len(<<>>) \in 0 .. N
    BY <2>1, RunIsShort
  <2>3. IsFiniteSet(t.states)
    BY TaskAssumption
  <2>4. Cardinality(t.states) \in Nat
    BY <2>3, FS_CardinalityType
  <2>5. QED
    BY <2>2, <2>4
<1>2. PICK f : RunsByLength(t, N, f) /\ Runs(t) = UNION {f[n] : n \in 0 .. N}
  <2> HIDE DEF N
  <2>1. N = Cardinality(t.states) - 1
    BY DEF N
  <2>2. QED
    BY <1>1, <2>1, RunsDefined
<1> HIDE DEF N
<1> DEFINE Sound(n) == \A x \in f[n] : \E p, path : /\ x = RunRecord(p, path)
                                                    /\ IsRun(t, p, path) /\ Len(p) = n
           Full(n) == \A p, path : IsRun(t, p, path) /\ Len(p) = n => RunRecord(p, path) \in f[n]
<1>3. \A n \in 0 .. N : Sound(n)
  <2> DEFINE S == {n \in 0 .. N : Sound(n)}
  <2>1. 0 \in S
    <3>1. f[0] = {RunRecord(<<>>, <<t.init>>)}
      BY <1>2 DEF RunsByLength, Started, RunRecord
    <3>2. IsRun(t, <<>>, <<t.init>>) /\ Len(<<>>) = 0
      BY EmptyRun
    <3>3. Sound(0)
      BY <3>1, <3>2
    <3> HIDE DEF Sound
    <3>4. QED
      BY <1>1, <3>3
  <2>2. ASSUME NEW n \in 0 .. N - 1, n \in S
        PROVE  n + 1 \in S
    <3>1. n + 1 \in 1 .. N /\ n + 1 \in 0 .. N /\ n + 1 - 1 = n /\ Sound(n)
      BY <1>1, <2>2
    <3>2. f[n + 1] = UNION {Extended(t, r) : r \in f[n]}
      BY <1>2, <3>1 DEF RunsByLength
    <3>3. ASSUME NEW x \in f[n + 1]
          PROVE  \E p, path : x = RunRecord(p, path) /\ IsRun(t, p, path) /\ Len(p) = n + 1
      <4>1. PICK r \in f[n] : x \in Extended(t, r)
        BY <3>2
      <4>2. PICK p, path : r = RunRecord(p, path) /\ IsRun(t, p, path) /\ Len(p) = n
        BY <3>1
      <4>3. QED
        BY <4>1, <4>2, ExtendedRun
    <3>4. QED
      BY <3>1, <3>3
  <2>3. \A n \in 0 .. N : n \in S
    <3> HIDE DEF S
    <3>1. QED
      BY <1>1, <2>1, <2>2, Upward
  <2>4. QED
    BY <2>3
<1>4. \A n \in 0 .. N : Full(n)
  <2> DEFINE S == {n \in 0 .. N : Full(n)}
  <2>1. 0 \in S
    <3>1. f[0] = {RunRecord(<<>>, <<t.init>>)}
      BY <1>2 DEF RunsByLength, Started, RunRecord
    <3>2. Full(0)
      BY <3>1, EmptyRun
    <3> HIDE DEF Full
    <3>3. QED
      BY <1>1, <3>2
  <2>2. ASSUME NEW n \in 0 .. N - 1, n \in S
        PROVE  n + 1 \in S
    <3>1. n + 1 \in 1 .. N /\ n + 1 \in 0 .. N /\ n + 1 - 1 = n /\ Full(n) /\ n \in Nat
      BY <1>1, <2>2
    <3>2. f[n + 1] = UNION {Extended(t, r) : r \in f[n]}
      BY <1>2, <3>1 DEF RunsByLength
    <3>3. ASSUME NEW p, NEW path, IsRun(t, p, path), Len(p) = n + 1
          PROVE  RunRecord(p, path) \in f[n + 1]
      <4> DEFINE q == SubSeq(p, 1, n)
                 r == SubSeq(path, 1, n + 1)
      <4>1. /\ IsRun(t, q, r) /\ Len(q) = n
            /\ RunRecord(p, path) \in Extended(t, RunRecord(q, r))
        BY <3>1, <3>3, RunEnds
      <4> HIDE DEF q, r
      <4>2. RunRecord(q, r) \in f[n]
        BY <3>1, <4>1
      <4>3. QED
        BY <3>2, <4>1, <4>2
    <3>4. QED
      BY <3>1, <3>3
  <2>3. \A n \in 0 .. N : n \in S
    <3> HIDE DEF S
    <3>1. QED
      BY <1>1, <2>1, <2>2, Upward
  <2>4. QED
    BY <2>3
<1>5. ASSUME NEW x \in Runs(t)
      PROVE  \E p, path : x = RunRecord(p, path) /\ IsRun(t, p, path)
  BY <1>2, <1>3
<1>6. ASSUME NEW p, NEW path, IsRun(t, p, path)
      PROVE  RunRecord(p, path) \in Runs(t)
  <2>1. Len(p) \in 0 .. N
    BY <1>6, RunIsShort DEF N
  <2>2. RunRecord(p, path) \in f[Len(p)]
    BY <1>4, <1>6, <2>1
  <2>3. QED
    BY <1>2, <2>1, <2>2
<1>7. QED
  BY <1>5, <1>6

\* Likewise the plans.
LEMMA PlansAre ==
  ASSUME NEW t \in Tasks
  PROVE  \A p : p \in LoopFreePlans(t) <=>
                  \E path : IsRun(t, p, path) /\ path[Len(path)] \in t.goal
<1>1. ASSUME NEW p \in LoopFreePlans(t)
      PROVE  \E path : IsRun(t, p, path) /\ path[Len(path)] \in t.goal
  <2>1. PICK r \in Runs(t) : p = r.ops /\ Top(r.path) \in t.goal
    BY DEF LoopFreePlans
  <2>2. PICK q, path : r = RunRecord(q, path) /\ IsRun(t, q, path)
    BY RunsAre
  <2>3. r.ops = q /\ r.path = path
    BY <2>2 DEF RunRecord
  <2>4. QED
    BY <2>1, <2>2, <2>3 DEF Top
<1>2. ASSUME NEW p, NEW path, IsRun(t, p, path), path[Len(path)] \in t.goal
      PROVE  p \in LoopFreePlans(t)
  <2>1. RunRecord(p, path) \in Runs(t)
    BY <1>2, RunsAre
  <2>2. RunRecord(p, path).ops = p /\ RunRecord(p, path).path = path
    BY DEF RunRecord
  <2>3. QED
    BY <1>2, <2>1, <2>2 DEF LoopFreePlans, Top
<1>3. QED
  BY <1>1, <1>2

-----------------------------------------------------------------------------
(* Costs, distances and edges along runs.                                  *)

LEMMA RunCost ==
  ASSUME NEW t \in Tasks, NEW p, NEW path, IsRun(t, p, path), NEW h \in [t.states -> Nat]
  PROVE  /\ PlanCost(t, p) \in Nat
         /\ (\A i \in 1 .. Len(p) : h[path[i]] = h[path[i + 1]] + t.cost[p[i]]) =>
              PlanCost(t, p) + h[path[Len(path)]] = h[t.init]
         /\ (\A i \in 1 .. Len(p) : h[path[i]] <= h[path[i + 1]] + t.cost[p[i]]) =>
              h[t.init] <= PlanCost(t, p) + h[path[Len(path)]]
<1> DEFINE n == Len(p)
           c == Costs(t, p)
           Equal == \A i \in 1 .. n : h[path[i]] = h[path[i + 1]] + t.cost[p[i]]
           Below == \A i \in 1 .. n : h[path[i]] <= h[path[i + 1]] + t.cost[p[i]]
<1>1. /\ p \in Seq(t.ops) /\ path \in Seq(t.states) /\ n \in Nat /\ Len(path) = n + 1
      /\ path[1] = t.init /\ t.cost \in [t.ops -> Nat]
  <2>1. t.cost \in [t.ops -> Nat]
    BY TaskAssumption
  <2>2. p \in Seq(t.ops) /\ path \in Seq(t.states) /\ Len(path) = n + 1 /\ path[1] = t.init
    BY DEF IsRun
  <2>3. n \in Nat
    BY <2>2
  <2>4. QED
    BY <2>1, <2>2, <2>3
<1>2. CostEquation(t, p)
  BY <1>1, CostSteps
<1>3. /\ c \in [0 .. n -> Nat] /\ c[0] = 0 /\ c[n] = PlanCost(t, p)
      /\ \A i \in 1 .. n : c[i] = c[i - 1] + t.cost[p[i]]
  BY <1>2 DEF CostEquation
<1>4. \A i \in 1 .. n + 1 : h[path[i]] \in Nat
  BY <1>1
<1>5. \A i \in 1 .. n : t.cost[p[i]] \in Nat
  BY <1>1
<1> HIDE DEF c, n
<1>6. ASSUME NEW i \in 0 .. n - 1
      PROVE  /\ i + 1 \in 1 .. n /\ i + 2 \in 1 .. n + 1 /\ i \in 0 .. n /\ i + 1 \in 0 .. n
             /\ c[i] \in Nat /\ h[path[i + 1]] \in Nat /\ h[path[i + 2]] \in Nat
             /\ t.cost[p[i + 1]] \in Nat /\ c[i + 1] = c[i] + t.cost[p[i + 1]]
             /\ Equal => h[path[i + 1]] = h[path[i + 2]] + t.cost[p[i + 1]]
             /\ Below => h[path[i + 1]] <= h[path[i + 2]] + t.cost[p[i + 1]]
  <2>1. i + 1 \in 1 .. n /\ i + 2 \in 1 .. n + 1 /\ i + 1 \in 1 .. n + 1 /\ i \in 0 .. n
        /\ i + 1 \in 0 .. n /\ i + 1 - 1 = i /\ i + 1 + 1 = i + 2
    <3>1. n \in Nat
      BY <1>1
    <3>2. QED
      BY <3>1
  <2>2. c[i + 1] = c[i] + t.cost[p[i + 1]]
    BY <1>3, <2>1
  <2>3. /\ Equal => h[path[i + 1]] = h[path[i + 2]] + t.cost[p[i + 1]]
        /\ Below => h[path[i + 1]] <= h[path[i + 2]] + t.cost[p[i + 1]]
    BY <2>1
  <2>4. QED
    BY <1>3, <1>4, <1>5, <2>1, <2>2, <2>3
<1> DEFINE S == {i \in 0 .. n : /\ Equal => c[i] + h[path[i + 1]] = h[t.init]
                                /\ Below => h[t.init] <= c[i] + h[path[i + 1]]}
<1>7. 0 \in S
  <2>1. 0 \in 0 .. n /\ 0 + 1 = 1 /\ c[0] = 0 /\ h[path[1]] \in Nat /\ path[1] = t.init
    BY <1>1, <1>3, <1>4
  <2> HIDE DEF Equal, Below
  <2>2. QED
    BY <2>1
<1>8. ASSUME NEW i \in 0 .. n - 1, i \in S
      PROVE  i + 1 \in S
  <2> DEFINE x == c[i]
             y == c[i + 1]
             u == h[path[i + 1]]
             v == h[path[i + 2]]
             w == t.cost[p[i + 1]]
             a == h[t.init]
  <2>1. /\ x \in Nat /\ u \in Nat /\ v \in Nat /\ w \in Nat /\ y = x + w
        /\ Equal => u = v + w
        /\ Below => u <= v + w
        /\ i + 1 \in 0 .. n /\ i + 1 + 1 = i + 2
    BY <1>6
  <2>2. /\ Equal => x + u = a
        /\ Below => a <= x + u
    BY <1>8
  <2>3. a \in Nat
    BY <1>1, <1>4
  <2> HIDE DEF x, y, u, v, w, a, Equal, Below
  <2>4. /\ Equal => y + v = a
        /\ Below => a <= y + v
    BY <2>1, <2>2, <2>3
  <2>5. QED
    BY <2>1, <2>4 DEF y, v, a
<1>9. \A i \in 0 .. n : i \in S
  <2> HIDE DEF S
  <2>1. QED
    BY <1>1, <1>7, <1>8, Upward
<1>10. n \in S
  BY <1>1, <1>9
<1>11. QED
  <2> HIDE DEF Equal, Below
  <2>1. /\ Equal => c[n] + h[path[n + 1]] = h[t.init]
        /\ Below => h[t.init] <= c[n] + h[path[n + 1]]
    BY <1>10
  <2>2. c[n] \in Nat
    BY <1>1, <1>3
  <2>3. QED
    BY <1>1, <1>3, <2>1, <2>2 DEF Equal, Below, n

\* What PlanSteps describes is a run.
LEMMA StepsAreRun ==
  ASSUME NEW t \in Tasks, NEW p, PlanSteps(t, p)
  PROVE  p \in LoopFreePlans(t)
<1> DEFINE f == Trajectory(t, p)
           n == Len(p)
           path == [i \in 1 .. n + 1 |-> f[i - 1]]
           states == t.states
<1>1. /\ p \in Seq(t.ops) /\ n \in Nat /\ f[0] = t.init
      /\ \A i \in 0 .. n : f[i] \in states
      /\ \A i \in 1 .. n : <<f[i - 1], p[i]>> \in DOMAIN t.succ
                           /\ t.succ[<<f[i - 1], p[i]>>] = f[i]
      /\ \A i, j \in 0 .. n : f[i] = f[j] => i = j
      /\ f[n] \in t.goal
  <2>1. n \in Nat
    BY DEF PlanSteps
  <2>2. n \in 0 .. n
    BY <2>1
  <2>3. QED
    BY <2>1, <2>2 DEF PlanSteps
<1> HIDE DEF f
<1>2. path \in Seq(states) /\ Len(path) = n + 1
  <2>1. \A i \in 1 .. n + 1 : i - 1 \in 0 .. n
    BY <1>1
  <2>2. path \in [1 .. n + 1 -> states]
    <3> HIDE DEF states, n
    <3>1. QED
      BY <1>1, <2>1
  <2>3. n + 1 \in Nat
    BY <1>1
  <2> HIDE DEF states, path, n
  <2>4. path \in Seq(states)
    BY <2>2, <2>3
  <2>5. QED
    BY <2>2, <2>3, <2>4
<1>3. \A i \in 1 .. n + 1 : path[i] = f[i - 1]
  OBVIOUS
<1> HIDE DEF path
<1>4. path[1] = t.init
  BY <1>1, <1>3
<1>5. ASSUME NEW i \in 1 .. n
      PROVE  <<path[i], p[i]>> \in DOMAIN t.succ /\ path[i + 1] = t.succ[<<path[i], p[i]>>]
  <2>1. i \in 1 .. n + 1 /\ i + 1 \in 1 .. n + 1 /\ i + 1 - 1 = i
    BY <1>1
  <2>2. path[i] = f[i - 1] /\ path[i + 1] = f[i]
    BY <1>3, <2>1
  <2>3. QED
    BY <1>1, <2>2
<1>6. ASSUME NEW i \in 1 .. n + 1, NEW j \in 1 .. n + 1, path[i] = path[j]
      PROVE  i = j
  <2>1. i - 1 \in 0 .. n /\ j - 1 \in 0 .. n /\ f[i - 1] = f[j - 1]
    BY <1>1, <1>3, <1>6
  <2>2. i - 1 = j - 1
    BY <1>1, <2>1
  <2>3. QED
    BY <2>2
<1>7. IsRun(t, p, path)
  BY <1>1, <1>2, <1>4, <1>5, <1>6 DEF IsRun
<1>8. path[Len(path)] = f[n]
  <2>1. n + 1 \in 1 .. n + 1 /\ n + 1 - 1 = n
    BY <1>1
  <2>2. QED
    BY <1>2, <1>3, <2>1
<1>9. QED
  BY <1>1, <1>7, <1>8, PlansAre

\* Runs that start alike pass the same states.
LEMMA SameStart ==
  ASSUME NEW t \in Tasks, NEW p, NEW path, IsRun(t, p, path),
         NEW q, NEW r, IsRun(t, q, r), Len(q) <= Len(p),
         \A i \in 1 .. Len(q) : q[i] = p[i]
  PROVE  \A i \in 1 .. Len(q) + 1 : r[i] = path[i]
<1>1. /\ Len(p) \in Nat /\ \A i \in 0 .. Len(p) : Trajectory(t, p)[i] = path[i + 1]
      /\ Len(q) \in Nat /\ \A i \in 0 .. Len(q) : Trajectory(t, q)[i] = r[i + 1]
  BY RunTrajectory
<1>2. AgreeUpTo(Len(q), Trajectory(t, q), Trajectory(t, p))
  BY <1>1, SameTrajectory
<1>3. ASSUME NEW i \in 1 .. Len(q) + 1
      PROVE  r[i] = path[i]
  <2>1. i - 1 \in 0 .. Len(q) /\ i - 1 \in 0 .. Len(p) /\ i - 1 + 1 = i
    BY <1>1
  <2>2. Trajectory(t, q)[i - 1] = Trajectory(t, p)[i - 1]
    BY <1>2, <2>1 DEF AgreeUpTo
  <2>3. QED
    BY <1>1, <2>1, <2>2
<1>4. QED
  BY <1>3

\* A run follows the graph if its steps are edges E.
LEMMA RunFollows ==
  ASSUME NEW t \in Tasks, NEW p, NEW path, IsRun(t, p, path), NEW E
  PROVE  (\A i \in 1 .. Len(p) : <<Trajectory(t, p)[i - 1], p[i]>> \in E)
           <=> \A i \in 1 .. Len(p) : <<path[i], p[i]>> \in E
<1>1. Len(p) \in Nat /\ \A i \in 0 .. Len(p) : Trajectory(t, p)[i] = path[i + 1]
  BY RunTrajectory
<1>2. \A i \in 1 .. Len(p) : Trajectory(t, p)[i - 1] = path[i]
  <2> SUFFICES ASSUME NEW i \in 1 .. Len(p) PROVE Trajectory(t, p)[i - 1] = path[i]
    OBVIOUS
  <2>1. i - 1 \in 0 .. Len(p) /\ i - 1 + 1 = i
    BY <1>1
  <2>2. QED
    BY <1>1, <2>1
<1>3. QED
  BY <1>2


-----------------------------------------------------------------------------
(* The search for plans.                                                   *)

\* An entry grows by an edge that closes no loop.
LEMMA EntryGrows ==
  ASSUME NEW t \in Tasks, NEW E \in SUBSET DOMAIN t.succ, NEW p, NEW path, NEW c,
         IsRun(t, p, path), c = PlanCost(t, p),
         \A i \in 1 .. Len(p) : <<path[i], p[i]>> \in E,
         NEW e \in E, e[1] = Top(path), t.succ[e] \notin InRange(path)
  PROVE  IsEntry(t, E, [path |-> Append(path, t.succ[e]), ops |-> Append(p, e[2]),
                        cost |-> c + t.cost[e[2]]])
<1> DEFINE s == t.succ[e]
           o == e[2]
           q == Append(p, o)
           r == Append(path, s)
           n == Len(p)
           ops == t.ops
           states == t.states
           x == [path |-> r, ops |-> q, cost |-> c + t.cost[o]]
<1>1. /\ DOMAIN t.succ \subseteq t.states \X t.ops
      /\ \A y \in DOMAIN t.succ : t.succ[y] \in t.states
      /\ t.cost \in [t.ops -> Nat]
  BY TaskAssumption
<1>2. o \in ops /\ s \in states /\ e = <<Top(path), o>> /\ e \in DOMAIN t.succ
  <2>1. e \in t.states \X t.ops
    BY <1>1
  <2>2. QED
    BY <1>1, <2>1
<1>3. p \in Seq(ops) /\ path \in Seq(states) /\ n \in Nat /\ Len(path) = n + 1
  BY DEF IsRun
<1>4. IsRun(t, q, r)
  <2> HIDE DEF s, o
  <2>1. s = t.succ[<<Top(path), o>>] /\ s \notin InRange(path)
    BY <1>2 DEF s
  <2>2. <<Top(path), o>> \in DOMAIN t.succ /\ o \in t.ops
    BY <1>2
  <2>3. IsRun(t, Append(p, o), Append(path, t.succ[<<Top(path), o>>]))
    BY <2>1, <2>2, RunGrows
  <2>4. QED
    BY <2>1, <2>3
<1>5. PlanCost(t, q) = c + t.cost[o]
  <2> HIDE DEF o
  <2>1. QED
    BY <1>1, <1>2, <1>3, CostOfAppend
<1>6. Len(q) = n + 1 /\ q[n + 1] = o /\ \A i \in 1 .. n : q[i] = p[i]
  <2> HIDE DEF ops, o
  <2>1. QED
    BY <1>2, <1>3, AppendIs
<1>7. \A i \in 1 .. n + 1 : r[i] = path[i]
  <2> HIDE DEF states, s
  <2>1. QED
    BY <1>2, <1>3, AppendIs
<1>8. ASSUME NEW i \in 1 .. n + 1
      PROVE  <<r[i], q[i]>> \in E
  <2> HIDE DEF q, r, o
  <2>1. CASE i = n + 1
    <3>1. r[i] = Top(path) /\ q[i] = o
      BY <1>3, <1>6, <1>7, <2>1 DEF Top
    <3>2. QED
      BY <1>2, <3>1
  <2>2. CASE i # n + 1
    <3>1. i \in 1 .. n /\ i \in 1 .. n + 1
      BY <1>3, <2>2
    <3>2. r[i] = path[i] /\ q[i] = p[i]
      BY <1>6, <1>7, <3>1
    <3>3. QED
      BY <3>1, <3>2
  <2>3. QED
    BY <2>1, <2>2
<1>9. x.path = r /\ x.ops = q /\ x.cost = c + t.cost[o]
  OBVIOUS
<1>10. IsEntry(t, E, x)
  <2> HIDE DEF x, q, r, o
  <2>1. QED
    BY <1>4, <1>5, <1>6, <1>8, <1>9 DEF IsEntry
<1>11. QED
  BY <1>10

\* The search starts with nothing done.
LEMMA RootIsEntry ==
  ASSUME NEW t \in Tasks, NEW E, NEW q,
         q = <<[path |-> <<t.init>>, ops |-> <<>>, cost |-> 0]>>
  PROVE  /\ \A k \in DOMAIN q : IsEntry(t, E, q[k])
         /\ \A p \in LoopFreePlans(t) : Pending(q, p)
<1> DEFINE e == [path |-> <<t.init>>, ops |-> <<>>, cost |-> 0]
<1>1. e.path = <<t.init>> /\ e.ops = <<>> /\ e.cost = 0 /\ Len(<<>>) = 0
  OBVIOUS
<1>2. IsRun(t, <<>>, <<t.init>>) /\ PlanCost(t, <<>>) = 0
  BY EmptyRun, CostOfEmpty, TaskAssumption
<1> HIDE DEF e
<1>3. IsEntry(t, E, e)
  BY <1>1, <1>2 DEF IsEntry
<1>4. q = <<e>>
  BY DEF e
<1>5. DOMAIN q = {1} /\ q[1] = e
  BY <1>4
<1>6. ASSUME NEW p \in LoopFreePlans(t)
      PROVE  Starts(e, p)
  <2>1. PICK path : IsRun(t, p, path)
    BY PlansAre
  <2>2. Len(p) \in Nat
    BY <2>1 DEF IsRun
  <2>3. QED
    BY <1>1, <2>2 DEF Starts
<1>7. QED
  BY <1>3, <1>5, <1>6 DEF Pending

\* Edges that lead towards the goal give plans of the best cost.
LEMMA GuidedCost ==
  ASSUME TypeOK, \A e \in edges : Tight(e) /\ Exact(e[1]) /\ Exact(task.succ[e]),
         NEW p, NEW path, IsRun(task, p, path),
         \A i \in 1 .. Len(p) : <<path[i], p[i]>> \in edges,
         path[Len(path)] \in task.goal
  PROVE  PlanCost(task, p) = best_plan_cost
<1>1. task \in Tasks
  BY DEF TypeOK
<1>2. PICK h \in Distances : TRUE
  BY DistancesExist
<1>3. /\ h \in [task.states -> 0 .. best_plan_cost] /\ h[task.init] = best_plan_cost
      /\ best_plan_cost \in Nat /\ h \in Potentials(task, best_plan_cost)
  BY DistancesExist
<1>4. h \in [task.states -> Nat] /\ \A s \in task.goal : h[s] = 0
  BY <1>3 DEF Potentials
<1>45. \A i \in 1 .. Len(p) : path[i + 1] = task.succ[<<path[i], p[i]>>]
  BY Zenon DEF IsRun
<1>5. ASSUME NEW i \in 1 .. Len(p)
      PROVE  h[path[i]] = h[path[i + 1]] + task.cost[p[i]]
  <2> DEFINE e == <<path[i], p[i]>>
  <2>1. e \in edges /\ e[1] = path[i] /\ e[2] = p[i] /\ task.succ[e] = path[i + 1]
    BY <1>45
  <2> HIDE DEF e
  <2>2. /\ goal_distance[path[i]] = goal_distance[path[i + 1]] + task.cost[p[i]]
        /\ Exact(path[i]) /\ Exact(path[i + 1])
    BY <2>1 DEF Tight
  <2>3. QED
    BY <2>2 DEF Exact
<1>6. PlanCost(task, p) \in Nat /\ PlanCost(task, p) + h[path[Len(path)]] = h[task.init]
  BY <1>1, <1>4, <1>5, RunCost
<1>7. h[path[Len(path)]] = 0
  BY <1>4
<1>8. QED
  BY <1>3, <1>6, <1>7

\* Along the edges of the plan there is no other one.
LEMMA OnlyThePlan ==
  ASSUME TypeOK, NEW p, NEW path, IsRun(task, p, path),
         \A i \in 1 .. Len(p) : <<path[i], p[i]>> \in PlanEdges,
         path[Len(path)] \in task.goal
  PROVE  p = plan
<1> DEFINE f == Trajectory(task, plan)
           n == Len(plan)
           m == Len(p)
           ops == task.ops
<1>1. /\ plan \in Seq(ops) /\ n \in Nat /\ f[0] = task.init
      /\ \A i \in 1 .. n : task.succ[<<f[i - 1], plan[i]>>] = f[i]
      /\ \A i, j \in 0 .. n : f[i] = f[j] => i = j
      /\ \A i \in 0 .. n : f[i] \in task.goal => i = n
  BY PlanIsSound DEF TypeOK, PlanSteps
<1>2. /\ p \in Seq(ops) /\ m \in Nat /\ Len(path) = m + 1 /\ path[1] = task.init
      /\ \A i \in 1 .. m : path[i + 1] = task.succ[<<path[i], p[i]>>]
  <2>1. p \in Seq(ops) /\ Len(path) = m + 1 /\ path[1] = task.init
    BY DEF IsRun
  <2>2. \A i \in 1 .. m : path[i + 1] = task.succ[<<path[i], p[i]>>]
    BY Zenon DEF IsRun
  <2>3. m \in Nat
    BY <2>1
  <2>4. QED
    BY <2>1, <2>2, <2>3
<1>3. \A x \in PlanEdges : \E k \in 1 .. n : x = <<f[k - 1], plan[k]>>
  BY DEF PlanEdges
<1> HIDE DEF f, n, m
<1> DEFINE S == {i \in 0 .. m : /\ i <= n /\ path[i + 1] = f[i]
                                /\ \A j \in 1 .. i : p[j] = plan[j]}
<1>4. 0 \in S
  BY <1>1, <1>2
<1>5. ASSUME NEW i \in 0 .. m - 1, i \in S
      PROVE  i + 1 \in S
  <2>1. i + 1 \in 1 .. m /\ i + 1 \in 0 .. m /\ i \in 0 .. n /\ i \in Nat
    BY <1>1, <1>2, <1>5
  <2>2. <<path[i + 1], p[i + 1]>> \in PlanEdges /\ path[i + 1] = f[i]
    BY <1>5, <2>1 DEF m
  <2>3. PICK k \in 1 .. n : <<path[i + 1], p[i + 1]>> = <<f[k - 1], plan[k]>>
    BY <1>3, <2>2
  <2>4. f[i] = f[k - 1] /\ p[i + 1] = plan[k] /\ k - 1 \in 0 .. n
    BY <1>1, <2>2, <2>3
  <2>5. k = i + 1
    <3>1. i = k - 1
      BY <1>1, <2>1, <2>4
    <3>2. QED
      BY <1>1, <2>1, <3>1
  <2>6. i + 1 <= n /\ p[i + 1] = plan[i + 1]
    BY <1>1, <2>4, <2>5
  <2>7. path[i + 1 + 1] = task.succ[<<path[i + 1], p[i + 1]>>]
    BY <1>2, <2>1
  <2>8. task.succ[<<f[k - 1], plan[k]>>] = f[k]
    BY <1>1
  <2>9. path[i + 1 + 1] = f[i + 1]
    BY <2>3, <2>5, <2>7, <2>8
  <2>10. \A j \in 1 .. i + 1 : p[j] = plan[j]
    <3>1. \A j \in 1 .. i + 1 : j \in 1 .. i \/ j = i + 1
      BY <2>1
    <3>2. QED
      BY <1>5, <2>6, <3>1
  <2>11. QED
    BY <2>1, <2>6, <2>9, <2>10
<1>6. m \in S
  <2>1. \A i \in 0 .. m : i \in S
    <3> HIDE DEF S
    <3>1. QED
      BY <1>2, <1>4, <1>5, Upward
  <2>2. m \in 0 .. m
    BY <1>2
  <2> HIDE DEF S
  <2>3. QED
    BY <2>1, <2>2
<1>7. f[m] \in task.goal /\ m \in 0 .. n /\ \A j \in 1 .. m : p[j] = plan[j]
  BY <1>1, <1>2, <1>6
<1>8. m = n
  BY <1>1, <1>7
<1>9. QED
  <2> HIDE DEF ops
  <2>1. QED
    BY <1>1, <1>2, <1>7, <1>8, SeqEqual DEF m, n

\* The stack r has what the stack q has, but the top of q replaced by f[1 .. n].
Replaced(q, n, f, r) ==
  /\ Len(q) \in DOMAIN q /\ Top(q) = q[Len(q)]
  /\ \A k \in DOMAIN r : \/ \E j \in DOMAIN q : r[k] = q[j]
                         \/ \E j \in 1 .. n : r[k] = f[j]
  /\ \A j \in DOMAIN q : j # Len(q) => \E k \in DOMAIN r : r[k] = q[j]
  /\ \A j \in 1 .. n : \E k \in DOMAIN r : r[k] = f[j]

LEMMA PushedIs ==
  ASSUME NEW S, NEW q \in Seq(S), q # <<>>, NEW n \in Nat, NEW f, f = [j \in 1 .. n |-> f[j]]
  PROVE  Replaced(q, n, f, Pop(q) \o f)
<1> DEFINE T == S \cup {f[j] : j \in 1 .. n}
           m == Len(q) - 1
           p == Pop(q)
           r == p \o f
<1>1. q \in Seq(T) /\ f \in [1 .. n -> T]
  <2>1. f \in [1 .. n -> T]
    OBVIOUS
  <2>2. q \in Seq(T)
    <3>1. S \subseteq T
      OBVIOUS
    <3> HIDE DEF T
    <3>2. QED
      BY <3>1
  <2>3. QED
    BY <2>1, <2>2
<1> HIDE DEF T
<1>2. /\ Len(q) \in Nat /\ Len(q) # 0 /\ DOMAIN q = 1 .. Len(q) /\ m \in Nat
      /\ Len(q) = m + 1 /\ m \in 0 .. Len(q)
  BY <1>1
<1>3. p \in Seq(T) /\ Len(p) = m /\ \A j \in 1 .. m : p[j] = q[j]
  BY <1>1, <1>2, Beginning DEF Pop
<1>4. f \in Seq(T) /\ Len(f) = n
  BY <1>1
<1> HIDE DEF p, m
<1>5. /\ r \in Seq(T) /\ Len(r) = m + n
      /\ \A k \in 1 .. m + n : r[k] = IF k <= m THEN p[k] ELSE f[k - m]
  BY <1>2, <1>3, <1>4
<1> HIDE DEF r
<1>6. DOMAIN r = 1 .. m + n
  BY <1>5
<1>7. ASSUME NEW k \in DOMAIN r
      PROVE  \/ \E j \in DOMAIN q : r[k] = q[j]
             \/ \E j \in 1 .. n : r[k] = f[j]
  <2>1. CASE k <= m
    <3>1. k \in 1 .. m /\ k \in DOMAIN q
      BY <1>2, <1>6, <2>1
    <3>2. QED
      BY <1>3, <1>5, <1>6, <2>1, <3>1
  <2>2. CASE ~ (k <= m)
    <3>1. k - m \in 1 .. n
      BY <1>2, <1>6, <2>2
    <3>2. QED
      BY <1>5, <1>6, <2>2, <3>1
  <2>3. QED
    BY <2>1, <2>2
<1>8. ASSUME NEW j \in DOMAIN q, j # Len(q)
      PROVE  \E k \in DOMAIN r : r[k] = q[j]
  <2>1. j \in 1 .. m /\ j \in 1 .. m + n /\ j <= m
    BY <1>2, <1>8
  <2>2. r[j] = q[j]
    BY <1>3, <1>5, <2>1
  <2>3. QED
    BY <1>6, <2>1, <2>2
<1>9. ASSUME NEW j \in 1 .. n
      PROVE  \E k \in DOMAIN r : r[k] = f[j]
  <2>1. m + j \in 1 .. m + n /\ ~ (m + j <= m) /\ (m + j) - m = j
    BY <1>2
  <2> DEFINE k == m + j
  <2>2. r[k] = f[k - m]
    <3>1. k \in 1 .. m + n /\ ~ (k <= m)
      BY <2>1
    <3> HIDE DEF k
    <3>2. r[k] = IF k <= m THEN p[k] ELSE f[k - m]
      BY <1>5, <3>1
    <3>3. QED
      BY <3>1, <3>2
  <2>3. k \in DOMAIN r /\ k - m = j
    BY <1>6, <2>1
  <2> HIDE DEF k
  <2>31. r[k] = f[j]
    BY <2>2, <2>3
  <2>4. QED
    BY <2>3, <2>31
<1>10. Len(q) \in DOMAIN q /\ Top(q) = q[Len(q)]
  <2>1. Len(q) \in 1 .. Len(q)
    BY <1>2
  <2>2. QED
    BY <1>2, <2>1 DEF Top
<1>11. Replaced(q, n, f, r)
  BY <1>7, <1>8, <1>9, <1>10 DEF Replaced
<1>12. QED
  BY <1>11 DEF r, p

\* The edges that the search goes along, and where it gets.
Outgoing(path) ==
  {e \in edges : /\ e[1] = Top(path)
                 /\ task.succ[e] \notin InRange(path)
                 /\ goal_distance[task.succ[e]] # -1}

Child(t, node, e) ==
  [path |-> Append(node.path, t.succ[e]), ops |-> Append(node.ops, e[2]),
   cost |-> node.cost + t.cost[e[2]]]

\* An entry on the way to a plan is the plan, or one of its children is on the way.
LEMMA GoesOn ==
  ASSUME TypeOK, NEW node, IsEntry(task, edges, node),
         \A e \in edges : goal_distance[task.succ[e]] # -1,
         NEW p \in LoopFreePlans(task), FollowsGraph(p), Starts(node, p)
  PROVE  \/ p = node.ops /\ Top(node.path) \in task.goal
         \/ \E e \in Outgoing(node.path) : Starts(Child(task, node, e), p)
<1> DEFINE q == node.ops
           r == node.path
           n == Len(q)
           m == Len(p)
           ops == task.ops
           states == task.states
<1>1. task \in Tasks
  BY DEF TypeOK
<1>2. PICK path : IsRun(task, p, path) /\ path[Len(path)] \in task.goal
  BY <1>1, PlansAre
<1>3. IsRun(task, q, r)
  BY DEF IsEntry
<1>4. n <= m /\ \A i \in 1 .. n : q[i] = p[i]
  BY DEF Starts
<1>5. \A i \in 1 .. n + 1 : r[i] = path[i]
  <2> HIDE DEF q, r
  <2>1. QED
    BY <1>1, <1>2, <1>3, <1>4, SameStart
<1>6. p \in Seq(ops) /\ m \in Nat /\ Len(path) = m + 1 /\ path \in Seq(states)
  BY <1>2 DEF IsRun
<1>7. q \in Seq(ops) /\ n \in Nat /\ Len(r) = n + 1 /\ r \in Seq(states)
  <2> HIDE DEF q, r
  <2>1. QED
    BY <1>3 DEF IsRun
<1>8. \A i \in 1 .. m : <<path[i], p[i]>> \in edges
  BY <1>1, <1>2, RunFollows DEF FollowsGraph
<1>9. Top(r) = path[n + 1]
  <2> HIDE DEF q, r
  <2>1. n + 1 \in 1 .. n + 1
    BY <1>7
  <2>2. QED
    BY <1>5, <1>7, <2>1 DEF Top
<1>10. CASE n = m
  <2> HIDE DEF q, r, ops
  <2>1. q = p
    BY <1>4, <1>6, <1>7, <1>10, SeqEqual
  <2>2. Top(r) \in task.goal
    BY <1>2, <1>6, <1>9, <1>10
  <2>3. QED
    BY <2>1, <2>2 DEF q, r
<1>11. CASE n # m
  <2> DEFINE o == p[n + 1]
             e == <<path[n + 1], o>>
             s == path[n + 2]
  <2>1. n + 1 \in 1 .. m /\ n + 2 \in 1 .. m + 1 /\ n + 1 + 1 = n + 2
    <3> HIDE DEF n, m
    <3>1. QED
      BY <1>4, <1>6, <1>7, <1>11
  <2>2. e \in edges /\ e[1] = Top(r) /\ e[2] = o /\ o \in ops
    <3>1. o \in ops
      BY <1>6, <2>1
    <3>2. QED
      BY <1>8, <1>9, <2>1, <3>1
  <2>3. task.succ[e] = s
    <3>1. \A i \in 1 .. m : path[i + 1] = task.succ[<<path[i], p[i]>>]
      BY <1>2, Zenon DEF IsRun
    <3> HIDE DEF n, m, q
    <3>2. QED
      BY <2>1, <3>1
  <2>4. s \notin InRange(r)
    <3> HIDE DEF r, s
    <3>1. SUFFICES ASSUME NEW i \in 1 .. n + 1, r[i] = s PROVE FALSE
      BY <1>7, ElementsOf
    <3>2. path[i] = path[n + 2] /\ i \in 1 .. Len(path) /\ n + 2 \in 1 .. Len(path) /\ i # n + 2
      BY <1>5, <1>6, <1>7, <2>1, <3>1 DEF s
    <3>3. QED
      BY <1>2, <3>2 DEF IsRun
  <2>5. goal_distance[task.succ[e]] # -1
    <3> HIDE DEF e
    <3>1. QED
      BY <2>2
  <2> HIDE DEF e, s, o, q, r
  <2>6. e \in Outgoing(r)
    BY <2>2, <2>3, <2>4, <2>5 DEF Outgoing
  <2>7. Len(Append(q, o)) = n + 1 /\ \A i \in 1 .. n + 1 : Append(q, o)[i] = p[i]
    <3> HIDE DEF ops
    <3>1. /\ Len(Append(q, o)) = n + 1 /\ Append(q, o)[n + 1] = o
          /\ \A i \in 1 .. n : Append(q, o)[i] = q[i]
      BY <1>7, <2>2, AppendIs
    <3>2. \A i \in 1 .. n + 1 : i \in 1 .. n \/ i = n + 1
      BY <1>7
    <3>3. QED
      BY <1>4, <3>1, <3>2 DEF o
  <2>8. Child(task, node, e).ops = Append(q, o)
    BY <2>2 DEF Child, q
  <2>9. Starts(Child(task, node, e), p)
    <3>1. n + 1 <= m
      BY <1>6, <1>7, <2>1
    <3>2. QED
      BY <2>7, <2>8, <3>1 DEF Starts
  <2>10. QED
    BY <2>6, <2>9 DEF r
<1>12. QED
  BY <1>10, <1>11

-----------------------------------------------------------------------------
(* Every action keeps what is known of the saved plans.                    *)

\* What depends on the graph and the distances only.
LEMMA SameGraph ==
  ASSUME UNCHANGED <<input, graph, goal_distance>>
  PROVE  /\ task' = task /\ plan' = plan /\ limit' = limit
         /\ nodes' = nodes /\ edges' = edges /\ goal_distance' = goal_distance
         /\ best_plan_cost' = best_plan_cost /\ PlanEdges' = PlanEdges
         /\ \A p : FollowsGraph(p)' <=> FollowsGraph(p)
         /\ \A e : Tight(e)' <=> Tight(e)
         /\ \A s : Exact(s)' <=> Exact(s)
         /\ \A i : ClosedUnder(i)' <=> ClosedUnder(i)
<1>1. /\ task' = task /\ plan' = plan /\ limit' = limit
      /\ nodes' = nodes /\ edges' = edges /\ goal_distance' = goal_distance
  BY DEF input, graph
<1>2. Distances' = Distances /\ best_plan_cost' = best_plan_cost
  BY SameDistances
<1>3. PlanEdges' = PlanEdges
  BY <1>1 DEF PlanEdges
<1>4. \A p : FollowsGraph(p)' <=> FollowsGraph(p)
  BY <1>1 DEF FollowsGraph
<1>5. \A e : Tight(e)' <=> Tight(e)
  BY <1>1 DEF Tight
<1>6. \A s : Exact(s)' <=> Exact(s)
  BY <1>1, <1>2 DEF Exact
<1>7. \A i : ClosedUnder(i)' <=> ClosedUnder(i)
  BY <1>1 DEF ClosedUnder
<1>8. QED
  BY <1>1, <1>2, <1>3, <1>4, <1>5, <1>6, <1>7

\* What a file more makes of the files.
LEMMA FileMore ==
  ASSUME NEW S, NEW q \in Seq(S), NEW x \in S
  PROVE  /\ InRange(Append(q, x)) = InRange(q) \cup {x}
         /\ q # <<>> => Append(q, x) # <<>> /\ Append(q, x)[1] = q[1]
         /\ x \notin InRange(q) /\ (\A i, j \in DOMAIN q : q[i] = q[j] => i = j) =>
              \A i, j \in DOMAIN Append(q, x) : Append(q, x)[i] = Append(q, x)[j] => i = j
<1> DEFINE r == Append(q, x)
           n == Len(q)
<1>1. /\ r \in Seq(S) /\ Len(r) = n + 1 /\ r[n + 1] = x
      /\ \A i \in 1 .. n : r[i] = q[i]
  BY AppendIs
<1>2. n \in Nat /\ DOMAIN q = 1 .. n
  OBVIOUS
<1> HIDE DEF r
<1>3. DOMAIN r = 1 .. n + 1
  BY <1>1
<1>4. \A i \in 1 .. n + 1 : i \in 1 .. n \/ i = n + 1
  BY <1>2
<1>5. \A i \in 1 .. n : i \in 1 .. n + 1
  BY <1>2
<1>6. n + 1 \in 1 .. n + 1
  BY <1>2
<1> HIDE DEF n
<1>7. InRange(r) = InRange(q) \cup {x}
  <2>1. \A y : y \in InRange(r) <=> \E i \in 1 .. n + 1 : r[i] = y
    BY <1>3 DEF InRange
  <2>2. \A y : y \in InRange(q) <=> \E i \in 1 .. n : q[i] = y
    BY <1>2 DEF InRange
  <2>3. ASSUME NEW y \in InRange(r)
        PROVE  y \in InRange(q) \cup {x}
    BY <1>1, <1>4, <2>1, <2>2
  <2>4. ASSUME NEW y \in InRange(q) \cup {x}
        PROVE  y \in InRange(r)
    BY <1>1, <1>5, <1>6, <2>1, <2>2
  <2>5. QED
    BY <2>3, <2>4
<1>8. ASSUME q # <<>>
      PROVE  r # <<>> /\ r[1] = q[1]
  <2>1. 1 \in 1 .. n
    BY <1>8 DEF n
  <2>2. r[1] = q[1] /\ 1 \in DOMAIN r
    BY <1>1, <1>3, <1>5, <2>1
  <2>3. QED
    BY <2>2
<1>9. ASSUME x \notin InRange(q), \A i, j \in DOMAIN q : q[i] = q[j] => i = j,
             NEW i \in DOMAIN r, NEW j \in DOMAIN r, r[i] = r[j]
      PROVE  i = j
  <2>1. \A k \in 1 .. n : r[k] # x
    BY <1>1, <1>2, <1>9 DEF InRange
  <2>2. CASE i \in 1 .. n /\ j \in 1 .. n
    BY <1>1, <1>2, <1>9, <2>2
  <2>3. CASE ~ (i \in 1 .. n /\ j \in 1 .. n)
    BY <1>1, <1>3, <1>4, <1>9, <2>1, <2>3
  <2>4. QED
    BY <2>2, <2>3
<1>10. QED
  BY <1>7, <1>8, <1>9 DEF r

\* What the search finds is a plan of the best cost.
LEMMA FoundIsBest ==
  ASSUME Inv, SavedInv, pc = "dump", NEW k \in DOMAIN dfs_queue,
         Top(dfs_queue[k].path) \in task.goal
  PROVE  LET p == dfs_queue[k].ops IN
         /\ p \in LoopFreePlans(task) /\ FollowsGraph(p)
         /\ PlanCost(task, p) = best_plan_cost /\ dfs_queue[k].cost = best_plan_cost
         /\ after = "start reorderings" => p = plan
<1> DEFINE p == dfs_queue[k].ops
           path == dfs_queue[k].path
<1>1. TypeOK /\ task \in Tasks
  BY DEF Inv, TypeInv, TypeOK
<1>2. /\ IsRun(task, p, path) /\ dfs_queue[k].cost = PlanCost(task, p)
      /\ \A i \in 1 .. Len(p) : <<path[i], p[i]>> \in edges
      /\ path[Len(path)] \in task.goal
  BY DEF SavedInv, Entries, IsEntry, Top
<1> HIDE DEF p, path
<1>3. p \in LoopFreePlans(task)
  BY <1>1, <1>2, PlansAre
<1>4. FollowsGraph(p)
  BY <1>1, <1>2, RunFollows DEF FollowsGraph
<1>5. PlanCost(task, p) = best_plan_cost
  <2>1. \A e \in edges : Tight(e) /\ Exact(e[1]) /\ Exact(task.succ[e])
    BY DEF SavedInv, Guided
  <2>2. QED
    BY <1>1, <1>2, <2>1, GuidedCost
<1>6. after = "start reorderings" => p = plan
  <2>1. after = "start reorderings" => edges = PlanEdges
    BY DEF SavedInv, Guided
  <2>2. QED
    BY <1>1, <1>2, <2>1, OnlyThePlan
<1>7. QED
  BY <1>2, <1>3, <1>4, <1>5, <1>6 DEF p

\* A sequence of one element.
LEMMA JustOne ==
  ASSUME NEW x
  PROVE  InRange(<<x>>) = {x} /\ Append(<<>>, x) = <<x>> /\ InRange(<<>>) = {}
<1> DEFINE q == <<x>>
<1>1. DOMAIN q = {1} /\ q[1] = x
  OBVIOUS
<1> HIDE DEF q
<1>2. InRange(q) = {x}
  BY <1>1 DEF InRange
<1>3. InRange(<<>>) = {}
  BY DEF InRange
<1>4. QED
  BY <1>2, <1>3 DEF q

LEMMA DumpNodeSaves ==
  ASSUME Inv, SavedInv, DumpNode
  PROVE  SavedInv'
<1> DEFINE node == Top(dfs_queue)
           p == node.ops
           s == Top(node.path)
           found == s \in task.goal
           best == node.cost = best_plan_cost
           out == Outgoing(node.path)
           n == Cardinality(out)
           S == [path : Seq(task.states), ops : Seq(task.ops), cost : Nat]
<1>1. /\ TypeInv /\ TypeOK /\ task \in Tasks /\ edges \subseteq DOMAIN task.succ
      /\ Entries /\ Guided /\ Searching /\ Saved /\ First /\ Follow /\ Rounds
  BY DEF Inv, SavedInv, TypeInv, TypeOK
<1>2. /\ pc = "dump" /\ dfs_queue # <<>>
      /\ optimal_plans' = IF found /\ best THEN optimal_plans \cup {p} ELSE optimal_plans
      /\ non_optimal_plans' = IF found /\ ~ best THEN non_optimal_plans \cup {p}
                              ELSE non_optimal_plans
      /\ files' = IF found /\ best /\ IsNew(p) THEN Append(files, p) ELSE files
      /\ UNCHANGED <<input, pc, graph, goal_distance, init_distance, open,
                     count_goal_states, wanted, after, symmetry>>
  BY DEF DumpNode
<1>3. PICK order \in [1 .. n -> out] :
        /\ InRange(order) = out
        /\ dfs_queue' = Pop(dfs_queue) \o [j \in 1 .. n |-> Child(task, node, order[j])]
  BY DEF DumpNode, Outgoing, Child
<1> DEFINE f == [j \in 1 .. n |-> Child(task, node, order[j])]
           top == Len(dfs_queue)
<1>4. /\ task' = task /\ plan' = plan /\ limit' = limit
      /\ nodes' = nodes /\ edges' = edges /\ goal_distance' = goal_distance
      /\ best_plan_cost' = best_plan_cost /\ PlanEdges' = PlanEdges
      /\ \A q : FollowsGraph(q)' <=> FollowsGraph(q)
      /\ \A e : Tight(e)' <=> Tight(e)
      /\ \A r : Exact(r)' <=> Exact(r)
      /\ \A i : ClosedUnder(i)' <=> ClosedUnder(i)
  BY <1>2, SameGraph
<1>5. /\ pc' = "dump" /\ wanted' = wanted /\ after' = after /\ gen' = gen
      /\ change' = change
  BY <1>2 DEF symmetry
<1>6. n \in Nat
  BY <1>1, EdgesFinite DEF Outgoing
<1>7. /\ top \in DOMAIN dfs_queue /\ node = dfs_queue[top]
      /\ \A k \in DOMAIN dfs_queue' : \/ \E j \in DOMAIN dfs_queue : dfs_queue'[k] = dfs_queue[j]
                                      \/ \E j \in 1 .. n : dfs_queue'[k] = f[j]
      /\ \A j \in DOMAIN dfs_queue : j # top =>
           \E k \in DOMAIN dfs_queue' : dfs_queue'[k] = dfs_queue[j]
      /\ \A j \in 1 .. n : \E k \in DOMAIN dfs_queue' : dfs_queue'[k] = f[j]
  <2>1. dfs_queue \in Seq(S)
    BY <1>1, <1>2 DEF TypeInv
  <2>2. f = [j \in 1 .. n |-> f[j]] /\ dfs_queue' = Pop(dfs_queue) \o f
    BY <1>3
  <2> DEFINE q == dfs_queue
             r == dfs_queue'
  <2>3. q \in Seq(S) /\ q # <<>> /\ r = Pop(q) \o f
    BY <1>2, <2>1, <2>2
  <2> HIDE DEF f, S, n, q, r
  <2>4. Replaced(q, n, f, r)
    BY <1>6, <2>2, <2>3, PushedIs
  <2>5. QED
    BY <2>4 DEF q, r, Replaced
<1>8. \A j \in 1 .. n : f[j] = Child(task, node, order[j]) /\ order[j] \in out
  OBVIOUS
<1>9. \A e \in out : \E j \in 1 .. n : order[j] = e
  BY <1>3 DEF InRange
<1>10. IsEntry(task, edges, node)
  <2> HIDE DEF node
  <2>1. QED
    BY <1>1, <1>2, <1>7 DEF Entries
<1>11. found => /\ p \in LoopFreePlans(task) /\ FollowsGraph(p)
                /\ PlanCost(task, p) = best_plan_cost /\ best
                /\ after = "start reorderings" => p = plan
  <2> DEFINE k == top
  <2>1. k \in DOMAIN dfs_queue /\ node = dfs_queue[k]
    BY <1>7
  <2> HIDE DEF k, node
  <2>2. QED
    BY <1>2, <2>1, FoundIsBest
<1> HIDE DEF f, n, node, out, top
<1>12. Entries'
  <2>1. ASSUME NEW k \in DOMAIN dfs_queue'
        PROVE  IsEntry(task, edges, dfs_queue'[k])
    <3>1. CASE \E j \in DOMAIN dfs_queue : dfs_queue'[k] = dfs_queue[j]
      BY <1>1, <1>2, <3>1 DEF Entries
    <3>2. CASE \E j \in 1 .. n : dfs_queue'[k] = f[j]
      <4>1. PICK j \in 1 .. n : dfs_queue'[k] = f[j]
        BY <3>2
      <4> DEFINE e == order[j]
      <4>2. e \in out /\ dfs_queue'[k] = Child(task, node, e)
        BY <1>8, <4>1
      <4>3. e \in edges /\ e[1] = Top(node.path) /\ task.succ[e] \notin InRange(node.path)
        BY <4>2 DEF out, Outgoing
      <4> HIDE DEF e
      <4>4. /\ IsRun(task, node.ops, node.path) /\ node.cost = PlanCost(task, node.ops)
            /\ \A i \in 1 .. Len(node.ops) : <<node.path[i], node.ops[i]>> \in edges
        BY <1>10 DEF IsEntry
      <4>5. IsEntry(task, edges, Child(task, node, e))
        BY <1>1, <4>3, <4>4, EntryGrows DEF Child
      <4>6. QED
        BY <4>2, <4>5
    <3>3. QED
      BY <1>7, <3>1, <3>2
  <2>2. QED
    BY <1>4, <2>1 DEF Entries
<1>13. Guided'
  BY <1>1, <1>2, <1>4, <1>5 DEF Guided
<1>14. (optimal_plans' = optimal_plans \/ (found /\ optimal_plans' = optimal_plans \cup {p}))
       /\ (found => p \in optimal_plans') /\ optimal_plans \subseteq optimal_plans'
  BY <1>2, <1>11
<1>15. Searching'
  <2>1. ASSUME NEW q \in LoopFreePlans(task), FollowsGraph(q)
        PROVE  q \in optimal_plans' \/ Pending(dfs_queue', q)
    <3>1. q \in optimal_plans \/ Pending(dfs_queue, q)
      BY <1>1, <1>2, <2>1 DEF Searching
    <3>2. CASE q \in optimal_plans
      BY <1>14, <3>2
    <3>3. ASSUME NEW k \in DOMAIN dfs_queue, Starts(dfs_queue[k], q)
          PROVE  q \in optimal_plans' \/ Pending(dfs_queue', q)
      <4>1. CASE k # top
        BY <1>7, <3>3, <4>1 DEF Pending
      <4>2. CASE k = top
        <5>1. Starts(node, q)
          BY <1>7, <3>3, <4>2
        <5>2. \A e \in edges : goal_distance[task.succ[e]] # -1
          BY <1>1, <1>2 DEF Guided, Exact
        <5>3. \/ q = node.ops /\ Top(node.path) \in task.goal
              \/ \E e \in Outgoing(node.path) : Starts(Child(task, node, e), q)
          BY <1>1, <1>10, <2>1, <5>1, <5>2, GoesOn
        <5>4. CASE q = node.ops /\ Top(node.path) \in task.goal
          BY <1>14, <5>4
        <5>5. ASSUME NEW e \in out, Starts(Child(task, node, e), q)
              PROVE  Pending(dfs_queue', q)
          <6>1. PICK j \in 1 .. n : order[j] = e
            BY <1>9
          <6>2. f[j] = Child(task, node, e)
            BY <1>8, <6>1
          <6>3. PICK i \in DOMAIN dfs_queue' : dfs_queue'[i] = f[j]
            BY <1>7
          <6>4. QED
            BY <5>5, <6>2, <6>3 DEF Pending
        <5>6. QED
          BY <5>3, <5>4, <5>5 DEF out
      <4>3. QED
        BY <4>1, <4>2
    <3>4. QED
      BY <3>1, <3>2, <3>3 DEF Pending
  <2>2. QED
    BY <1>4, <2>1 DEF Searching
<1>16. p \in Seq(task.ops) /\ files \in Seq(Seq(task.ops))
  BY <1>1, <1>10 DEF IsEntry, IsRun, TypeInv
<1>17. /\ InRange(Append(files, p)) = InRange(files) \cup {p}
       /\ files # <<>> => Append(files, p) # <<>> /\ Append(files, p)[1] = files[1]
       /\ p \notin InRange(files) /\ (\A i, j \in DOMAIN files : files[i] = files[j] => i = j) =>
            \A i, j \in DOMAIN Append(files, p) :
              Append(files, p)[i] = Append(files, p)[j] => i = j
  <2> DEFINE Q == Seq(task.ops)
  <2>1. p \in Q /\ files \in Seq(Q)
    BY <1>16
  <2> HIDE DEF Q, p
  <2>2. QED
    BY <2>1, FileMore
<1>18. \/ /\ files' = files /\ optimal_plans' = optimal_plans
       \/ /\ found /\ p \notin InRange(files)
          /\ files' = Append(files, p) /\ optimal_plans' = optimal_plans \cup {p}
  BY <1>1, <1>2, <1>11 DEF IsNew, Saved
<1>19. Saved'
  <2>1. non_optimal_plans' = {}
    BY <1>1, <1>2, <1>11 DEF Saved
  <2>2. CASE files' = files /\ optimal_plans' = optimal_plans
    BY <1>1, <1>4, <2>1, <2>2 DEF Saved
  <2>3. CASE /\ found /\ p \notin InRange(files)
             /\ files' = Append(files, p) /\ optimal_plans' = optimal_plans \cup {p}
    <3>1. optimal_plans' = InRange(files')
      BY <1>1, <1>17, <2>3 DEF Saved
    <3>2. \A i, j \in DOMAIN files' : files'[i] = files'[j] => i = j
      BY <1>1, <1>17, <2>3 DEF Saved
    <3>3. \A q \in optimal_plans' : /\ q \in LoopFreePlans(task)
                                    /\ PlanCost(task, q) = best_plan_cost
      BY <1>1, <1>11, <2>3 DEF Saved
    <3>4. QED
      BY <1>4, <2>1, <3>1, <3>2, <3>3 DEF Saved
  <2>4. QED
    BY <1>18, <2>2, <2>3
<1>20. First'
  <2>1. CASE files' = files /\ optimal_plans' = optimal_plans
    BY <1>1, <1>2, <1>4, <1>5, <2>1 DEF First, Pruned
  <2>2. CASE /\ found /\ p \notin InRange(files)
             /\ files' = Append(files, p) /\ optimal_plans' = optimal_plans \cup {p}
    <3>1. after = "start reorderings" => files' = <<plan>>
      <4> SUFFICES ASSUME after = "start reorderings" PROVE files' = <<plan>>
        OBVIOUS
      <4>1. p = plan /\ (files = <<>> \/ files = <<plan>>)
        BY <1>1, <1>2, <1>11, <2>2 DEF First
      <4>2. files # <<plan>>
        <5>1. InRange(<<plan>>) = {plan}
          BY JustOne
        <5>2. QED
          BY <2>2, <4>1, <5>1
      <4> HIDE DEF p
      <4>3. QED
        BY <2>2, <4>1, <4>2, JustOne
    <3>2. Pruned => files' # <<>> /\ files'[1] = plan
      BY <1>1, <1>17, <2>2 DEF First
    <3>3. Pruned' => Pruned
      BY <1>2, <1>5 DEF Pruned
    <3>4. QED
      BY <1>4, <1>5, <3>1, <3>2, <3>3 DEF First
  <2>3. QED
    BY <1>18, <2>1, <2>2
<1>21. Follow'
  <2>1. Pruned' => Pruned
    BY <1>2, <1>5 DEF Pruned
  <2>2. Pruned => \A q \in optimal_plans' : FollowsGraph(q)
    BY <1>1, <1>11, <1>14 DEF Follow
  <2>3. QED
    BY <1>4, <2>1, <2>2 DEF Follow
<1>22. enough_plans_found => enough_plans_found'
  <2>1. IsFiniteSet(optimal_plans) /\ IsFiniteSet(optimal_plans')
    <3>1. IsFiniteSet(optimal_plans)
      BY <1>1 DEF TypeInv
    <3>2. IsFiniteSet(optimal_plans \cup {p})
      BY <3>1, FS_AddElement
    <3>3. QED
      BY <1>14, <3>1, <3>2
  <2>2. Cardinality(optimal_plans) <= Cardinality(optimal_plans')
    BY <1>14, <2>1, FS_Subset
  <2>3. Cardinality(optimal_plans) \in Nat /\ Cardinality(optimal_plans') \in Nat
        /\ limit \in Nat
    BY <1>1, <2>1, FS_CardinalityType, LimitAssumption DEF TypeOK
  <2>4. QED
    BY <1>4, <2>2, <2>3 DEF enough_plans_found
<1>23. Rounds'
  <2>1. after = "next generator" => change
    BY <1>1, <1>2 DEF Rounds
  <2>2. after = "done" => enough_plans_found \/ \A i \in DOMAIN task.syms : ClosedUnder(i)
    BY <1>1, <1>2 DEF Rounds
  <2>3. QED
    BY <1>4, <1>5, <1>22, <2>1, <2>2 DEF Rounds
<1>24. Finished'
  BY <1>5 DEF Finished
<1>25. QED
  BY <1>12, <1>13, <1>15, <1>19, <1>20, <1>21, <1>23, <1>24 DEF SavedInv

\* What is saved stays what it is when nothing is saved.
LEMMA SavedUnchanged ==
  ASSUME SavedInv, UNCHANGED <<input, optimal_plans, non_optimal_plans, files>>
  PROVE  Saved'
<1>1. task' = task /\ best_plan_cost' = best_plan_cost
  BY SameDistances DEF input
<1>2. QED
  BY <1>1 DEF SavedInv, Saved

\* The phases between the first search and the next one save nothing.
Between == {"start reorderings", "reorder", "backward", "start forward", "forward"}

LEMMA BetweenKeeps ==
  ASSUME SavedInv, UNCHANGED <<input, optimal_plans, non_optimal_plans, files>>,
         pc \in Between, pc' \in Between
  PROVE  SavedInv'
<1>1. Saved'
  BY SavedUnchanged
<1>2. plan' = plan /\ files' = <<plan>>
  BY DEF SavedInv, First, Between, input
<1>3. /\ pc' # "add plan" /\ pc' # "dump" /\ ~ Pruned' /\ pc' # "symmetry"
      /\ pc' # "next generator" /\ pc' # "done"
  BY DEF Between, Pruned
<1>4. Entries' /\ Guided' /\ Searching' /\ Follow' /\ Rounds' /\ Finished'
  BY <1>3 DEF Entries, Guided, Searching, Follow, Rounds, Finished
<1>5. First'
  BY <1>2, <1>3 DEF First
<1>6. QED
  BY <1>1, <1>4, <1>5 DEF SavedInv

\* A search that starts.
LEMMA SearchStarts ==
  ASSUME NEW n, NEW label, StartDump(n, label), task' = task, task \in Tasks
  PROVE  Entries' /\ Searching'
<1>1. dfs_queue' = <<[path |-> <<task.init>>, ops |-> <<>>, cost |-> 0]>>
  BY DEF StartDump
<1> DEFINE q == dfs_queue'
           E == edges'
           t == task
<1>2. /\ \A k \in DOMAIN q : IsEntry(t, E, q[k])
      /\ \A p \in LoopFreePlans(t) : Pending(q, p)
  <2>1. q = <<[path |-> <<t.init>>, ops |-> <<>>, cost |-> 0]>> /\ t \in Tasks
    BY <1>1
  <2> HIDE DEF q, E, t
  <2>2. QED
    BY <2>1, RootIsEntry
<1>3. QED
  BY <1>2 DEF Entries, Searching

\* From the pruning on, the edges lead towards the goal.
LEMMA PrunedIsGuided ==
  ASSUME Inv', Pruned', after' # "start reorderings", wanted' = limit, limit' = limit
  PROVE  Guided'
<1>1. IndexesAgree' /\ ExactGraph'
  BY DEF Inv
<1>2. \A e \in edges' : Tight(e)' /\ Exact(e[1])' /\ Exact(task.succ[e])'
  BY <1>1 DEF IndexesAgree, ExactGraph
<1>3. QED
  BY <1>2 DEF Guided

LEMMA FirstPlanSaves ==
  ASSUME Inv, Inv', SavedInv, AddFirstPlan
  PROVE  SavedInv'
<1> DEFINE f == Trajectory(task, plan)
           c == Costs(task, plan)
           n == Len(plan)
<1>1. /\ TypeInv /\ TypeOK /\ Saved /\ First
      /\ task \in Tasks /\ plan \in PlansOf[task]
  BY DEF Inv, SavedInv, TypeInv, TypeOK
<1>2. /\ pc = "add plan" /\ AddEdges(PlanEdges) /\ StartDump(1, "start reorderings")
      /\ goal_distance' =
          [s \in task.states |->
             IF plan # <<>> /\ \E i \in 0 .. n : f[i] = s
             THEN best_plan_cost - PlanCost(task, SubSeq(plan, 1,
                    CHOOSE i \in 0 .. n : f[i] = s))
             ELSE -1]
      /\ UNCHANGED <<input, init_distance, open, count_goal_states, symmetry>>
  BY DEF AddFirstPlan, PlanEdges
<1>3. task' = task /\ plan' = plan /\ limit' = limit
  BY <1>2 DEF input
<1>4. /\ pc' = "dump" /\ after' = "start reorderings" /\ wanted' = 1
      /\ UNCHANGED <<optimal_plans, non_optimal_plans, files>>
  BY <1>2 DEF StartDump
<1>5. Entries' /\ Searching'
  BY <1>1, <1>2, <1>3, SearchStarts
<1>6. edges' = PlanEdges /\ files' = <<>>
  BY <1>1, <1>2, <1>4 DEF First, AddEdges
<1>7. PlanSteps(task, plan)
  BY <1>1, PlanIsSound
<1>8. /\ n \in Nat /\ c \in [0 .. n -> Nat]
      /\ \A i \in 1 .. n : c[i] = c[i - 1] + task.cost[plan[i]]
  <2>1. plan \in Seq(task.ops) /\ n \in Nat
    BY <1>7 DEF PlanSteps
  <2>2. CostEquation(task, plan)
    BY <1>1, <2>1, CostSteps, TaskAssumption
  <2>3. QED
    BY <2>1, <2>2 DEF CostEquation
<1> DEFINE Right(s) == goal_distance'[s] # -1 /\ \A h \in Distances : goal_distance'[s] = h[s]
<1>9. ASSUME plan # <<>>, NEW i \in 0 .. n
      PROVE  goal_distance'[f[i]] = best_plan_cost - c[i] /\ Right(f[i])
  <2>1. (CHOOSE j \in 0 .. n : f[j] = f[i]) = i
    BY <1>1, PlanPosition
  <2>2. f[i] \in task.states
    BY <1>7 DEF PlanSteps
  <2>3. goal_distance'[f[i]] = best_plan_cost - PlanCost(task, SubSeq(plan, 1, i))
    BY <1>2, <1>9, <2>1, <2>2
  <2>4. goal_distance'[f[i]] = best_plan_cost - c[i]
    BY <2>3 DEF Costs
  <2>5. ASSUME NEW h \in Distances
        PROVE  h[f[i]] = goal_distance'[f[i]] /\ h[f[i]] \in Nat
    <3>1. h \in Potentials(task, best_plan_cost) /\ h[task.init] = best_plan_cost
      BY DEF Distances
    <3>2. /\ h[f[i]] = best_plan_cost - c[i]
          /\ best_plan_cost - c[i] \in Nat
      BY <1>1, <3>1, PlanDistances DEF best_plan_cost
    <3>3. QED
      BY <2>4, <3>2
  <2>6. Distances # {}
    BY <1>1, DistancesExist
  <2>7. Right(f[i])
    BY <2>5, <2>6
  <2>8. QED
    BY <2>4, <2>7
<1>10. ASSUME NEW e \in PlanEdges
       PROVE  Tight(e)' /\ Right(e[1]) /\ Right(task.succ[e])
  <2>1. PICK i \in 1 .. n : e = <<f[i - 1], plan[i]>>
    BY DEF PlanEdges
  <2>2. e[1] = f[i - 1] /\ e[2] = plan[i] /\ task.succ[e] = f[i]
    <3>1. task.succ[<<f[i - 1], plan[i]>>] = f[i]
      BY <1>7 DEF PlanSteps
    <3>2. QED
      BY <2>1, <3>1
  <2>3. i \in 0 .. n /\ i - 1 \in 0 .. n /\ plan # <<>>
    BY <1>8
  <2> HIDE DEF f, c, n, Right
  <2>4. /\ goal_distance'[e[1]] = best_plan_cost - c[i - 1]
        /\ goal_distance'[task.succ[e]] = best_plan_cost - c[i]
        /\ Right(e[1]) /\ Right(task.succ[e])
    BY <1>9, <2>2, <2>3
  <2>5. goal_distance'[e[1]] = goal_distance'[task.succ[e]] + task.cost[e[2]]
    <3> DEFINE x == c[i - 1]
               y == c[i]
               w == task.cost[e[2]]
    <3>1. y = x + w /\ x \in Nat /\ y \in Nat
      BY <1>8, <2>2, <2>3
    <3>2. w \in Nat
      <4>1. plan \in Seq(task.ops)
        BY <1>7 DEF PlanSteps
      <4>2. plan[i] \in task.ops
        BY <4>1 DEF n
      <4>3. QED
        BY <1>1, <2>2, <4>2, TaskAssumption
    <3>3. best_plan_cost \in Nat
      BY <1>1, DistancesExist
    <3> HIDE DEF x, y, w
    <3>4. best_plan_cost - x = best_plan_cost - y + w
      BY <3>1, <3>2, <3>3
    <3>5. QED
      BY <2>4, <3>4 DEF x, y, w
  <2>6. QED
    BY <1>3, <2>4, <2>5 DEF Tight, Right
<1>11. Guided'
  <2>1. PlanEdges' = PlanEdges
    BY <1>3 DEF PlanEdges
  <2>2. \A e \in edges' : Tight(e)'
    BY <1>6, <1>10
  <2>3. Distances' = Distances
    BY <1>2, SameDistances
  <2>4. \A e \in edges' : Exact(e[1])' /\ Exact(task.succ[e])'
    BY <1>3, <1>6, <1>10, <2>3 DEF Exact
  <2>5. QED
    BY <1>3, <1>4, <1>6, <2>1, <2>2, <2>4 DEF Guided
<1>12. Saved'
  BY <1>2, <1>4, SavedUnchanged
<1>13. First' /\ Follow' /\ Rounds' /\ Finished'
  BY <1>4, <1>6 DEF First, Follow, Rounds, Finished, Pruned
<1>14. QED
  BY <1>5, <1>11, <1>12, <1>13 DEF SavedInv

\* A search that starts when the graph is pruned already.
LEMMA DumpBegins ==
  ASSUME Inv, Inv', SavedInv, UNCHANGED <<input, graph, goal_distance>>, Pruned,
         NEW label, StartDump(limit, label),
         label \in {"next generator", "done"},
         label = "next generator" => change',
         label = "done" => \/ enough_plans_found
                           \/ \A i \in DOMAIN task.syms : ClosedUnder(i)
  PROVE  SavedInv'
<1>1. task \in Tasks /\ limit' = limit /\ task' = task /\ plan' = plan
  BY DEF Inv, TypeInv, TypeOK, input
<1>2. /\ pc' = "dump" /\ after' = label /\ wanted' = limit
      /\ UNCHANGED <<optimal_plans, non_optimal_plans, files>>
  BY DEF StartDump
<1>3. Pruned'
  BY <1>2 DEF Pruned
<1>4. Entries' /\ Searching'
  BY <1>1, SearchStarts
<1>5. Guided'
  BY <1>1, <1>2, <1>3, PrunedIsGuided
<1>6. Saved'
  BY <1>2, SavedUnchanged
<1>7. /\ \A p : FollowsGraph(p)' <=> FollowsGraph(p)
      /\ \A i : ClosedUnder(i)' <=> ClosedUnder(i)
  BY SameGraph
<1>8. First'
  BY <1>1, <1>2 DEF SavedInv, First
<1>9. Follow'
  BY <1>2, <1>7 DEF SavedInv, Follow
<1>10. enough_plans_found' <=> enough_plans_found
  BY <1>1, <1>2 DEF enough_plans_found
<1>11. Rounds'
  BY <1>1, <1>2, <1>7, <1>10 DEF Rounds
<1>12. Finished'
  BY <1>2 DEF Finished
<1>13. QED
  BY <1>4, <1>5, <1>6, <1>8, <1>9, <1>11, <1>12 DEF SavedInv

LEMMA UnreachableSaves ==
  ASSUME Inv, Inv', SavedInv, RemoveInitUnreachable
  PROVE  SavedInv'
<1>1. /\ pc = "forward" /\ StartDump(limit, "start symmetries") /\ UNCHANGED input
  BY DEF RemoveInitUnreachable
<1>2. task \in Tasks /\ limit' = limit /\ task' = task /\ plan' = plan
  BY <1>1 DEF Inv, TypeInv, TypeOK, input
<1>3. /\ pc' = "dump" /\ after' = "start symmetries" /\ wanted' = limit
      /\ UNCHANGED <<optimal_plans, non_optimal_plans, files>>
  BY <1>1 DEF StartDump
<1>4. Entries' /\ Searching'
  BY <1>1, <1>2, SearchStarts
<1>5. Guided'
  <2>1. Pruned'
    BY <1>3 DEF Pruned
  <2>2. QED
    BY <1>2, <1>3, <2>1, PrunedIsGuided
<1>6. Saved'
  BY <1>1, <1>3, SavedUnchanged
<1>7. files = <<plan>>
  BY <1>1 DEF SavedInv, First
<1>8. First'
  <2>1. files' = <<plan>> /\ files' # <<>> /\ files'[1] = plan
    <3>1. <<plan>> # <<>> /\ <<plan>>[1] = plan
      OBVIOUS
    <3>2. QED
      BY <1>3, <1>7, <3>1
  <2>2. QED
    BY <1>2, <1>3, <2>1 DEF First
<1>9. Follow'
  <2>1. optimal_plans' = {plan}
    BY <1>3, <1>7, JustOne DEF SavedInv, Saved
  <2>2. FollowsGraph(plan)'
    BY <1>3 DEF Inv, PlanStays
  <2>3. QED
    BY <1>2, <2>1, <2>2 DEF Follow, FollowsGraph
<1>10. Rounds' /\ Finished'
  BY <1>3 DEF Rounds, Finished
<1>11. QED
  BY <1>4, <1>5, <1>6, <1>8, <1>9, <1>10 DEF SavedInv

LEMMA DumpEndSaves ==
  ASSUME Inv, Inv', SavedInv, DumpEnd
  PROVE  SavedInv'
<1>1. /\ TypeInv /\ TypeOK /\ task \in Tasks /\ plan \in PlansOf[task] /\ limit \in Nat
      /\ Guided /\ Searching /\ Saved /\ First /\ Follow /\ Rounds /\ PlanStays
      /\ after \in {"start reorderings", "start symmetries", "next generator", "done"}
  BY LimitAssumption DEF Inv, SavedInv, TypeInv, TypeOK, DumpEnd
<1>2. /\ pc = "dump" /\ (dfs_queue = <<>> \/ wanted <= Cardinality(optimal_plans))
      /\ pc' = after
      /\ UNCHANGED <<input, graph, goal_distance, init_distance, open, dfs_queue,
                     count_goal_states, wanted, after, optimal_plans,
                     non_optimal_plans, symmetry>>
  BY DEF DumpEnd
<1>3. files' = files
  <2>1. PICK q \in [1 .. Cardinality(non_optimal_plans) -> non_optimal_plans] :
          files' = files \o q
    BY DEF DumpEnd
  <2>2. Cardinality(non_optimal_plans) = 0
    BY <1>1, FS_EmptySet DEF Saved
  <2>3. q = <<>>
    <3>1. q \in [1 .. 0 -> {}]
      BY <1>1, <2>2 DEF Saved
    <3>2. QED
      BY <3>1
  <2> DEFINE Q == Seq(task.ops)
  <2>4. files \in Seq(Q)
    BY <1>1 DEF TypeInv
  <2> HIDE DEF Q
  <2>5. files \o <<>> = files
    BY <2>4
  <2>6. QED
    BY <2>1, <2>3, <2>5
<1>4. /\ task' = task /\ plan' = plan /\ limit' = limit /\ nodes' = nodes
      /\ \A p : FollowsGraph(p)' <=> FollowsGraph(p)
      /\ \A i : ClosedUnder(i)' <=> ClosedUnder(i)
  BY <1>2, SameGraph
<1>5. Saved'
  BY <1>2, <1>3, SavedUnchanged
<1>6. plan \in LoopFreePlans(task) /\ FollowsGraph(plan)
  BY <1>1, <1>2, PlanIsSound, StepsAreRun DEF PlanStays
<1>7. ASSUME dfs_queue = <<>>, NEW p \in LoopFreePlans(task), FollowsGraph(p)
      PROVE  p \in optimal_plans
  <2>1. p \in optimal_plans \/ Pending(dfs_queue, p)
    BY <1>1, <1>2, <1>7 DEF Searching
  <2>2. ~ Pending(dfs_queue, p)
    BY <1>7 DEF Pending
  <2>3. QED
    BY <2>1, <2>2
<1>8. ~ (1 <= 0)
  OBVIOUS
<1>9. after = "start reorderings" => files = <<plan>>
  <2> SUFFICES ASSUME after = "start reorderings", files = <<>>
               PROVE  FALSE
    BY <1>1, <1>2 DEF First
  <2>1. optimal_plans = {}
    BY <1>1, JustOne DEF Saved
  <2>2. wanted = 1 /\ Cardinality(optimal_plans) = 0
    BY <1>1, <1>2, <2>1, FS_EmptySet DEF Guided
  <2>3. dfs_queue = <<>>
    <3>1. ~ (wanted <= Cardinality(optimal_plans))
      BY <1>8, <2>2, Zenon
    <3>2. dfs_queue = <<>> \/ wanted <= Cardinality(optimal_plans)
      BY <1>2
    <3>3. QED
      BY <3>1, <3>2
  <2>4. plan \in optimal_plans
    BY <1>6, <1>7, <2>3
  <2>5. QED
    BY <2>1, <2>4
<1>10. First'
  BY <1>1, <1>2, <1>3, <1>4, <1>9 DEF First, Pruned
<1>11. Follow'
  BY <1>1, <1>2, <1>4 DEF Follow, Pruned
<1>12. enough_plans_found' <=> enough_plans_found
  BY <1>2, <1>4 DEF enough_plans_found
<1>13. Rounds'
  <2>1. pc' \in {"start reorderings", "start symmetries", "next generator", "done"}
    BY <1>1, <1>2
  <2>2. pc' = "next generator" => change
    BY <1>1, <1>2 DEF Rounds
  <2>3. pc' = "done" => enough_plans_found \/ \A i \in DOMAIN task.syms : ClosedUnder(i)
    BY <1>1, <1>2 DEF Rounds
  <2>4. change' = change
    BY <1>2 DEF symmetry
  <2>5. QED
    BY <1>4, <1>12, <2>1, <2>2, <2>3, <2>4 DEF Rounds
<1>14. Finished'
  <2>1. ASSUME after = "done", ~ enough_plans_found
        PROVE  dfs_queue = <<>>
    <3>1. wanted = limit
      BY <1>1, <1>2, <2>1 DEF Guided
    <3>2. Cardinality(optimal_plans) \in Nat
      BY <1>1, FS_CardinalityType DEF TypeInv
    <3>3. QED
      BY <1>1, <1>2, <2>1, <3>1, <3>2 DEF enough_plans_found
  <2>2. QED
    BY <1>2, <1>4, <1>7, <1>12, <2>1 DEF Finished
<1>15. Entries' /\ Guided' /\ Searching'
  BY <1>1, <1>2 DEF Entries, Guided, Searching
<1>16. QED
  BY <1>5, <1>10, <1>11, <1>13, <1>14, <1>15 DEF SavedInv

LEMMA CurrentGenerator ==
  ASSUME TypeOK
  PROVE  gen \in Nat
<1> DEFINE n == Len(task.syms)
<1>1. gen \in 0 .. n
  BY DEF TypeOK
<1> HIDE DEF n
<1>2. QED
  BY <1>1

\* Steps between two loops of the symmetries.
LEMMA LoopKeeps ==
  ASSUME Inv, SavedInv, UNCHANGED <<input, graph, goal_distance, dump>>, Pruned,
         pc' \in {"start symmetries", "symmetry", "next generator"}, Rounds'
  PROVE  SavedInv'
<1>1. task' = task /\ plan' = plan /\ limit' = limit /\ \A p : FollowsGraph(p)' <=> FollowsGraph(p)
  BY SameGraph
<1>2. /\ wanted' = wanted /\ after' = after /\ optimal_plans' = optimal_plans
      /\ non_optimal_plans' = non_optimal_plans /\ files' = files
  BY DEF dump
<1>3. Saved'
  BY <1>2, SavedUnchanged
<1>4. First' /\ Follow'
  BY <1>1, <1>2 DEF SavedInv, First, Follow
<1>5. Entries' /\ Guided' /\ Searching' /\ Finished'
  BY DEF Entries, Guided, Searching, Finished
<1>6. QED
  BY <1>3, <1>4, <1>5 DEF SavedInv

LEMMA RoundSaves ==
  ASSUME Inv, Inv', SavedInv, StartRound
  PROVE  SavedInv'
<1>1. /\ pc = "start symmetries" /\ Pruned
      /\ UNCHANGED <<input, graph, goal_distance, init_distance, open, count_goal_states>>
  BY DEF StartRound, Pruned
<1>2. nodes' = nodes
  BY <1>1 DEF graph
<1>3. CASE (task.syms = <<>> \/ enough_plans_found) /\ StartDump(limit, "done")
  <2>1. task.syms = <<>> => \A i \in DOMAIN task.syms : ClosedUnder(i)
    OBVIOUS
  <2>2. QED
    BY <1>1, <1>3, <2>1, DumpBegins
<1>4. CASE /\ pc' = "symmetry" /\ gen' = 1 /\ change' = FALSE
           /\ todo' = nodes /\ visited' = {} /\ curr_change' = FALSE
           /\ UNCHANGED <<dfs_queue, dump>>
  <2>1. \A i \in 1 .. gen' - 1 : FALSE
    BY <1>4
  <2>2. Rounds'
    BY <1>2, <1>4, <2>1 DEF Rounds
  <2>3. QED
    BY <1>1, <1>4, <2>2, LoopKeeps
<1>5. QED
  BY <1>3, <1>4 DEF StartRound

LEMMA PassSaves ==
  ASSUME Inv, Inv', SavedInv, EndOfPass
  PROVE  SavedInv'
<1>1. /\ pc = "symmetry" /\ Pruned /\ change' = (change \/ curr_change)
      /\ todo \subseteq visited \/ curr_change
      /\ UNCHANGED <<input, graph, goal_distance, init_distance, open,
                     count_goal_states, gen, todo, visited, curr_change>>
  BY DEF EndOfPass, Pruned
<1>2. CASE curr_change /\ StartDump(limit, "next generator")
  <2>1. change'
    BY <1>1, <1>2
  <2>2. QED
    BY <1>1, <1>2, <2>1, DumpBegins
<1>3. CASE ~ curr_change /\ pc' = "next generator" /\ UNCHANGED <<dfs_queue, dump>>
  <2>1. \A i : ClosedUnder(i)' <=> ClosedUnder(i)
    BY <1>1, SameGraph
  <2>2. ASSUME ~ change
        PROVE  \A i \in 1 .. gen : ClosedUnder(i)
    <3>1. /\ nodes = todo /\ \A i \in 1 .. gen - 1 : ClosedUnder(i)
          /\ \A e \in edges : e[1] \in visited => Permuted(task.syms[gen], e) \in edges
      BY <1>1, <1>3, <2>2 DEF SavedInv, Rounds
    <3>2. \A e \in edges : e[1] \in nodes
      BY DEF Inv, IndexesAgree
    <3>3. ClosedUnder(gen)
      BY <1>1, <1>3, <3>1, <3>2 DEF ClosedUnder
    <3>4. gen \in Nat
      BY CurrentGenerator DEF Inv, TypeInv
    <3>5. \A i \in 1 .. gen : i \in 1 .. gen - 1 \/ i = gen
      BY <3>4
    <3>6. QED
      BY <3>1, <3>3, <3>5
  <2>3. change' => change
    BY <1>1, <1>3
  <2>4. Rounds'
    BY <1>1, <1>3, <2>1, <2>2, <2>3 DEF Rounds
  <2>5. QED
    BY <1>1, <1>3, <2>4, LoopKeeps
<1>4. QED
  BY <1>2, <1>3 DEF EndOfPass

LEMMA GeneratorSaves ==
  ASSUME Inv, Inv', SavedInv, NextGenerator
  PROVE  SavedInv'
<1>1. /\ pc = "next generator" /\ Pruned
      /\ gen' = IF pc' = "symmetry" THEN gen + 1 ELSE gen
      /\ todo' = nodes /\ visited' = {} /\ curr_change' = FALSE
      /\ UNCHANGED <<input, graph, goal_distance, init_distance, open,
                     count_goal_states, change>>
  BY DEF NextGenerator, Pruned
<1>2. /\ nodes' = nodes /\ \A i : ClosedUnder(i)' <=> ClosedUnder(i)
  BY <1>1, SameGraph
<1>3. ~ change => \A i \in 1 .. gen : ClosedUnder(i)
  BY <1>1 DEF SavedInv, Rounds
<1>4. CASE /\ enough_plans_found \/ gen = Len(task.syms)
           /\ ~ change /\ StartDump(limit, "done")
  <2>1. gen = Len(task.syms) => \A i \in DOMAIN task.syms : ClosedUnder(i)
    <3> DEFINE syms == task.syms
               S == [state : [task.states -> task.states], op : [task.ops -> task.ops]]
    <3>1. syms \in Seq(S)
      BY TaskAssumption DEF Inv, TypeInv, TypeOK
    <3> HIDE DEF syms, S
    <3>2. DOMAIN syms = 1 .. Len(syms)
      BY <3>1
    <3>3. QED
      BY <1>3, <1>4, <3>2 DEF syms
  <2>2. QED
    BY <1>1, <1>4, <2>1, DumpBegins
<1>5. CASE change /\ pc' = "start symmetries" /\ UNCHANGED <<dfs_queue, dump>>
  <2>1. Rounds'
    BY <1>5 DEF Rounds
  <2>2. QED
    BY <1>1, <1>5, <2>1, LoopKeeps
<1>6. CASE pc' = "symmetry" /\ UNCHANGED <<dfs_queue, dump>>
  <2>1. gen \in Nat /\ gen' = gen + 1
    BY <1>1, <1>6, CurrentGenerator DEF Inv, TypeInv
  <2>2. gen' - 1 = gen
    BY <2>1
  <2>3. Rounds'
    BY <1>1, <1>2, <1>3, <1>6, <2>2 DEF Rounds
  <2>4. QED
    BY <1>1, <1>6, <2>3, LoopKeeps
<1>7. QED
  BY <1>4, <1>5, <1>6 DEF NextGenerator

LEMMA PermuteSaves ==
  ASSUME Inv, SavedInv, PermuteNode \/ PermuteInserted
  PROVE  SavedInv'
<1> DEFINE sym == task.syms[gen]
<1>1. PICK from \in nodes, out \in SUBSET edges :
        /\ PermuteEdges(from, out) /\ (\A e \in out : e[1] = from) /\ pc = "symmetry"
        /\ \/ out = {e \in edges : e[1] = from} /\ visited' = visited \cup {from}
           \/ visited' = visited /\ {Permuted(sym, e) : e \in out} \ edges # {}
  BY PermutedAre DEF Inv
<1>2. /\ pc = "symmetry" /\ Pruned /\ IndexesAgree /\ task \in Tasks
      /\ UNCHANGED <<input, pc, init_distance, open, dfs_queue,
                     count_goal_states, dump, gen, todo, change>>
  BY <1>1 DEF PermuteEdges, Pruned, Inv, TypeInv, TypeOK
<1> DEFINE to == sym.state[from]
           new == {Permuted(sym, e) : e \in out} \ edges
<1>3. /\ nodes' = nodes \cup {x \in {to} : out # {}} \cup {task.succ[e] : e \in new}
      /\ edges' = edges \cup new
      /\ new = {} => out = {e \in edges : e[1] = from} /\ visited' = visited \cup {from}
      /\ curr_change' = (curr_change \/ new # {})
  BY <1>1 DEF PermuteEdges
<1>4. /\ task' = task /\ plan' = plan /\ pc' = pc /\ gen' = gen /\ todo' = todo
      /\ change' = change
      /\ optimal_plans' = optimal_plans /\ non_optimal_plans' = non_optimal_plans
      /\ files' = files
  BY <1>2 DEF input, dump
<1>5. Saved'
  BY <1>2, <1>4, SavedUnchanged
<1>6. Pruned' /\ pc' = "symmetry"
  BY <1>2, <1>4 DEF Pruned
<1>7. First'
  BY <1>2, <1>4, <1>6 DEF SavedInv, First
<1>8. Follow'
  <2>1. \A p \in optimal_plans : FollowsGraph(p)
    BY <1>2 DEF SavedInv, Follow
  <2>2. edges \subseteq edges'
    BY <1>3
  <2>3. \A p : FollowsGraph(p) => FollowsGraph(p)'
    BY <1>4, <2>2 DEF FollowsGraph
  <2>4. QED
    BY <1>4, <2>1, <2>3 DEF Follow
<1>9. ASSUME ~ change', ~ curr_change'
      PROVE  /\ nodes' = todo'
             /\ \A i \in 1 .. gen' - 1 : ClosedUnder(i)'
             /\ \A e \in edges' : e[1] \in visited' => Permuted(task'.syms[gen'], e) \in edges'
  <2>1. ~ change /\ ~ curr_change /\ new = {}
    BY <1>3, <1>4, <1>9
  <2> HIDE DEF new
  <2>2. edges' = edges
    BY <1>3, <2>1
  <2>3. /\ nodes = todo /\ \A i \in 1 .. gen - 1 : ClosedUnder(i)
        /\ \A e \in edges : e[1] \in visited => Permuted(sym, e) \in edges
    BY <1>2, <2>1 DEF SavedInv, Rounds
  <2>4. \A e \in out : Permuted(sym, e) \in edges
    BY <2>1 DEF new
  <2>5. out # {} => to \in nodes
    <3> SUFFICES ASSUME out # {} PROVE to \in nodes
      OBVIOUS
    <3>1. PICK e \in out : TRUE
      OBVIOUS
    <3>2. Permuted(sym, e) \in edges /\ e[1] = from
      BY <1>1, <2>4
    <3>3. Permuted(sym, e)[1] = to
      BY <3>2 DEF Permuted
    <3>4. QED
      BY <1>2, <3>2, <3>3 DEF IndexesAgree
  <2>6. nodes' = nodes
    <3>1. {task.succ[e] : e \in new} = {}
      BY <2>1
    <3>2. {x \in {to} : out # {}} \subseteq nodes
      BY <2>5
    <3> HIDE DEF to
    <3>3. QED
      BY <1>3, <3>1, <3>2
  <2>7. \A i : ClosedUnder(i)' <=> ClosedUnder(i)
    BY <1>4, <2>2 DEF ClosedUnder
  <2>8. ASSUME NEW e \in edges, e[1] \in visited'
        PROVE  Permuted(sym, e) \in edges
    <3>1. e[1] \in visited \/ e \in out
      BY <1>3, <2>1, <2>8
    <3>2. QED
      BY <2>3, <2>4, <3>1
  <2>9. QED
    BY <1>4, <2>2, <2>3, <2>6, <2>7, <2>8
<1>10. Rounds'
  BY <1>6, <1>9 DEF Rounds
<1>11. Entries' /\ Guided' /\ Searching' /\ Finished'
  BY <1>6 DEF Entries, Guided, Searching, Finished
<1>12. QED
  BY <1>5, <1>7, <1>8, <1>10, <1>11 DEF SavedInv

-----------------------------------------------------------------------------
(* The plans that are saved.                                               *)

LEMMA FilesBegin ==
  ASSUME Init
  PROVE  SavedInv
<1>1. /\ pc = "add plan" /\ edges = {} /\ files = <<>>
      /\ optimal_plans = {} /\ non_optimal_plans = {} /\ ~ Pruned
  BY DEF Init, Pruned
<1>2. Saved
  <2>1. InRange(files) = {} /\ DOMAIN files = {}
    <3>1. InRange(files) = {}
      BY <1>1, JustOne
    <3>2. QED
      BY <3>1 DEF InRange
  <2>2. QED
    BY <1>1, <2>1 DEF Saved
<1>3. First /\ Follow
  BY <1>1 DEF First, Follow
<1>4. Entries /\ Guided /\ Searching /\ Rounds /\ Finished
  BY <1>1 DEF Entries, Guided, Searching, Rounds, Finished
<1>5. QED
  BY <1>2, <1>3, <1>4 DEF SavedInv

LEMMA NothingSaved ==
  ASSUME SavedInv, UNCHANGED vars
  PROVE  SavedInv'
<1>1. /\ task' = task /\ plan' = plan /\ limit' = limit /\ pc' = pc
      /\ nodes' = nodes /\ edges' = edges /\ goal_distance' = goal_distance
      /\ dfs_queue' = dfs_queue /\ wanted' = wanted /\ after' = after
      /\ optimal_plans' = optimal_plans /\ non_optimal_plans' = non_optimal_plans
      /\ files' = files /\ gen' = gen /\ todo' = todo /\ visited' = visited
      /\ curr_change' = curr_change /\ change' = change
  BY DEF vars, input, graph, dump, symmetry
<1>2. /\ \A p : FollowsGraph(p)' <=> FollowsGraph(p)
      /\ \A e : Tight(e)' <=> Tight(e)
      /\ \A s : Exact(s)' <=> Exact(s)
      /\ \A i : ClosedUnder(i)' <=> ClosedUnder(i)
      /\ PlanEdges' = PlanEdges /\ best_plan_cost' = best_plan_cost
      /\ (enough_plans_found' <=> enough_plans_found)
      /\ (Pruned' <=> Pruned)
  <2>1. UNCHANGED <<input, graph, goal_distance>>
    BY DEF vars
  <2>2. (enough_plans_found' <=> enough_plans_found) /\ (Pruned' <=> Pruned)
    BY <1>1 DEF enough_plans_found, Pruned
  <2>3. QED
    BY <2>1, <2>2, SameGraph
<1>3. Entries' /\ Guided' /\ Searching'
  BY <1>1, <1>2 DEF SavedInv, Entries, Guided, Searching
<1>4. Saved' /\ First' /\ Follow'
  BY <1>1, <1>2 DEF SavedInv, Saved, First, Follow
<1>5. Rounds' /\ Finished'
  BY <1>1, <1>2 DEF SavedInv, Rounds, Finished
<1>6. QED
  BY <1>3, <1>4, <1>5 DEF SavedInv

\* What is saved are plans, found once, and the search for more goes on along
\* the graph until it has all of them.
THEOREM SavedHolds == Spec => []SavedInv
<1>1. Init => SavedInv
  BY FilesBegin
<1>2. ASSUME Inv, Inv', SavedInv, [Next]_vars
      PROVE  SavedInv'
  <2>1. CASE AddFirstPlan
    BY <1>2, <2>1, FirstPlanSaves
  <2>2. CASE StartReorderings \/ Reorder \/ StartBackward \/ Backward \/ RemoveNonPlans
             \/ StartForward \/ Forward
    <3>1. /\ pc \in Between /\ pc' \in Between
          /\ UNCHANGED <<input, optimal_plans, non_optimal_plans, files>>
      BY <2>2 DEF StartReorderings, Reorder, StartBackward, Backward, RemoveNonPlans,
                  StartForward, Forward, Between, dump
    <3>2. QED
      BY <1>2, <3>1, BetweenKeeps
  <2>3. CASE RemoveInitUnreachable
    BY <1>2, <2>3, UnreachableSaves
  <2>4. CASE DumpNode
    BY <1>2, <2>4, DumpNodeSaves
  <2>5. CASE DumpEnd
    BY <1>2, <2>5, DumpEndSaves
  <2>6. CASE StartRound
    BY <1>2, <2>6, RoundSaves
  <2>7. CASE PermuteNode \/ PermuteInserted
    BY <1>2, <2>7, PermuteSaves
  <2>8. CASE EndOfPass
    BY <1>2, <2>8, PassSaves
  <2>9. CASE NextGenerator
    BY <1>2, <2>9, GeneratorSaves
  <2>10. CASE UNCHANGED vars
    BY <1>2, <2>10, NothingSaved
  <2>11. QED
    BY <1>2, <2>1, <2>2, <2>3, <2>4, <2>5, <2>6, <2>7, <2>8, <2>9, <2>10 DEF Next
<1>3. QED
  BY <1>1, <1>2, InvariantHolds, PTL DEF Spec

\* The plan that was handed over stays in the graph, and what the finished
\* graph forbids has been saved unless enough plans were.
THEOREM ForbiddenCorrect == Spec => []ForbiddenIsSaved
<1>1. Inv /\ SavedInv => ForbiddenIsSaved
  <2> SUFFICES ASSUME Inv, SavedInv, pc = "done"
               PROVE  /\ FollowsGraph(plan)
                      /\ ~ enough_plans_found => \A p \in LoopFreePlans(task) :
                           FollowsGraph(p) => p \in InRange(files)
    BY DEF ForbiddenIsSaved
  <2>1. FollowsGraph(plan)
    BY DEF Inv, PlanStays
  <2>2. ~ enough_plans_found =>
          \A p \in LoopFreePlans(task) : FollowsGraph(p) => p \in InRange(files)
    BY DEF SavedInv, Finished, Saved
  <2>3. QED
    BY <2>1, <2>2
<1>2. QED
  BY <1>1, InvariantHolds, SavedHolds, PTL

\* The image of a run under a symmetry.
ImageOps(sym, p) == [j \in DOMAIN p |-> sym.op[p[j]]]

ImageStates(sym, path) == [j \in DOMAIN path |-> sym.state[path[j]]]

IsImage(t, sym, p, path, q, r) ==
  /\ IsRun(t, q, r) /\ Len(q) = Len(p)
  /\ \A i \in 1 .. Len(p) : <<r[i], q[i]>> = Permuted(sym, <<path[i], p[i]>>)
  /\ path[Len(path)] \in t.goal => r[Len(r)] \in t.goal

LEMMA ImageOfRun ==
  ASSUME NEW t \in Tasks, NEW k \in 1 .. Len(t.syms), NEW p, NEW path, IsRun(t, p, path)
  PROVE  IsImage(t, t.syms[k], p, path, ImageOps(t.syms[k], p), ImageStates(t.syms[k], path))
<1> DEFINE f == t.syms[k].state
           g == t.syms[k].op
           n == Len(p)
           ops == t.ops
           states == t.states
           q == [j \in DOMAIN p |-> g[p[j]]]
           r == [j \in DOMAIN path |-> f[path[j]]]
<1>1. /\ f \in [states -> states] /\ g \in [ops -> ops]
      /\ \A u, v \in states : f[u] = f[v] => u = v
      /\ f[t.init] = t.init
      /\ \A s \in states : s \in t.goal <=> f[s] \in t.goal
      /\ \A x \in DOMAIN t.succ : /\ Permuted(t.syms[k], x) \in DOMAIN t.succ
                                  /\ t.succ[Permuted(t.syms[k], x)] = f[t.succ[x]]
  BY SymmetryFacts
<1>2. p \in Seq(ops) /\ path \in Seq(states) /\ Len(path) = n + 1 /\ path[1] = t.init
  BY DEF IsRun
<1>3. /\ n \in Nat /\ DOMAIN p = 1 .. n /\ DOMAIN path = 1 .. n + 1
      /\ \A i \in 1 .. n : p[i] \in ops
      /\ \A i \in 1 .. n + 1 : path[i] \in states
  BY <1>2
<1>4. \A i \in 1 .. n : <<path[i], p[i]>> \in DOMAIN t.succ
  BY Zenon DEF IsRun
<1>5. \A i \in 1 .. n : path[i + 1] = t.succ[<<path[i], p[i]>>]
  BY Zenon DEF IsRun
<1>6. \A i, j \in 1 .. n + 1 : path[i] = path[j] => i = j
  BY <1>2, Zenon DEF IsRun
<1> HIDE DEF f, g, n, ops, states
<1>7. q \in Seq(ops) /\ Len(q) = n /\ \A i \in 1 .. n : q[i] = g[p[i]]
  <2>1. q \in [1 .. n -> ops]
    BY <1>1, <1>3
  <2>2. \A i \in 1 .. n : q[i] = g[p[i]]
    BY <1>3
  <2> HIDE DEF q
  <2>3. q \in Seq(ops) /\ Len(q) = n
    BY <1>3, <2>1
  <2>4. QED
    BY <2>2, <2>3
<1>8. r \in Seq(states) /\ Len(r) = n + 1 /\ \A i \in 1 .. n + 1 : r[i] = f[path[i]]
  <2>1. r \in [1 .. n + 1 -> states]
    BY <1>1, <1>3
  <2>2. \A i \in 1 .. n + 1 : r[i] = f[path[i]]
    BY <1>3
  <2>3. n + 1 \in Nat
    BY <1>3
  <2> HIDE DEF r
  <2>4. r \in Seq(states) /\ Len(r) = n + 1
    BY <2>1, <2>3
  <2>5. QED
    BY <2>2, <2>4
<1> HIDE DEF q, r
<1>9. ASSUME NEW i \in 1 .. n
      PROVE  /\ <<r[i], q[i]>> = Permuted(t.syms[k], <<path[i], p[i]>>)
             /\ <<r[i], q[i]>> \in DOMAIN t.succ
             /\ r[i + 1] = t.succ[<<r[i], q[i]>>]
  <2> DEFINE x == <<path[i], p[i]>>
  <2>1. i \in 1 .. n + 1 /\ i + 1 \in 1 .. n + 1
    BY <1>3
  <2>2. r[i] = f[path[i]] /\ q[i] = g[p[i]] /\ r[i + 1] = f[path[i + 1]]
    BY <1>7, <1>8, <2>1
  <2>3. Permuted(t.syms[k], x) = <<f[path[i]], g[p[i]]>>
    BY DEF Permuted, f, g
  <2>4. x \in DOMAIN t.succ /\ path[i + 1] = t.succ[x]
    BY <1>4, <1>5
  <2> HIDE DEF x
  <2>5. /\ Permuted(t.syms[k], x) \in DOMAIN t.succ
        /\ t.succ[Permuted(t.syms[k], x)] = f[t.succ[x]]
    BY <1>1, <2>4
  <2>6. <<r[i], q[i]>> = Permuted(t.syms[k], x)
    BY <2>2, <2>3
  <2>7. QED
    BY <2>2, <2>4, <2>5, <2>6 DEF x
<1>10. ASSUME NEW i \in 1 .. n + 1, NEW j \in 1 .. n + 1, r[i] = r[j]
       PROVE  i = j
  <2>1. path[i] = path[j]
    BY <1>1, <1>3, <1>8, <1>10
  <2>2. QED
    BY <1>6, <2>1
<1>11. r[1] = t.init
  <2>1. 1 \in 1 .. n + 1
    BY <1>3
  <2>2. QED
    BY <1>1, <1>2, <1>8, <2>1
<1>12. IsRun(t, q, r)
  BY <1>7, <1>8, <1>9, <1>10, <1>11 DEF IsRun, ops, states
<1>13. path[Len(path)] \in t.goal => r[Len(r)] \in t.goal
  <2>1. n + 1 \in 1 .. n + 1
    BY <1>3
  <2>2. QED
    BY <1>1, <1>2, <1>3, <1>8, <2>1
<1>14. IsImage(t, t.syms[k], p, path, q, r)
  BY <1>7, <1>9, <1>12, <1>13 DEF IsImage, n
<1>15. q = ImageOps(t.syms[k], p) /\ r = ImageStates(t.syms[k], path)
  BY DEF q, r, f, g, ImageOps, ImageStates
<1>16. QED
  BY <1>14, <1>15

\* Unless enough plans were saved, the saved ones are closed under the symmetries.
THEOREM ClosedCorrect == Spec => []ClosedUnderSymmetry
<1>1. Inv /\ SavedInv => ClosedUnderSymmetry
  <2> SUFFICES ASSUME Inv, SavedInv, pc = "done", ~ enough_plans_found,
                      NEW p \in InRange(files), NEW k \in DOMAIN task.syms
               PROVE  [j \in DOMAIN p |-> task.syms[k].op[p[j]]] \in InRange(files)
    BY DEF ClosedUnderSymmetry
  <2>1. /\ task \in Tasks /\ p \in optimal_plans /\ p \in LoopFreePlans(task)
        /\ optimal_plans = InRange(files)
    BY DEF Inv, TypeInv, TypeOK, SavedInv, Saved
  <2>2. FollowsGraph(p) /\ ClosedUnder(k)
    BY <2>1 DEF SavedInv, Follow, Pruned, Rounds
  <2>3. k \in 1 .. Len(task.syms)
    <3> DEFINE syms == task.syms
               S == [state : [task.states -> task.states], op : [task.ops -> task.ops]]
    <3>1. syms \in Seq(S)
      BY <2>1, TaskAssumption
    <3> HIDE DEF syms, S
    <3>2. DOMAIN syms = 1 .. Len(syms)
      BY <3>1
    <3>3. QED
      BY <3>2 DEF syms
  <2>4. PICK path : IsRun(task, p, path) /\ path[Len(path)] \in task.goal
    BY <2>1, PlansAre
  <2> DEFINE q == ImageOps(task.syms[k], p)
             r == ImageStates(task.syms[k], path)
  <2> HIDE DEF q, r
  <2>5. /\ IsRun(task, q, r) /\ Len(q) = Len(p)
        /\ \A i \in 1 .. Len(p) : <<r[i], q[i]>> = Permuted(task.syms[k], <<path[i], p[i]>>)
        /\ r[Len(r)] \in task.goal
    <3>1. IsImage(task, task.syms[k], p, path, q, r)
      BY <2>1, <2>3, <2>4, ImageOfRun DEF q, r
    <3>2. QED
      BY <2>4, <3>1 DEF IsImage
  <2>6. q \in LoopFreePlans(task)
    BY <2>1, <2>5, PlansAre
  <2>7. \A i \in 1 .. Len(p) : <<path[i], p[i]>> \in edges
    BY <2>1, <2>2, <2>4, RunFollows DEF FollowsGraph
  <2>8. \A i \in 1 .. Len(q) : <<r[i], q[i]>> \in edges
    BY <2>2, <2>5, <2>7 DEF ClosedUnder
  <2>9. FollowsGraph(q)
    BY <2>1, <2>5, <2>8, RunFollows DEF FollowsGraph
  <2>10. q \in optimal_plans
    BY <2>6, <2>9 DEF SavedInv, Finished
  <2>11. QED
    BY <2>1, <2>10 DEF q, ImageOps
<1>2. QED
  BY <1>1, InvariantHolds, SavedHolds, PTL

-----------------------------------------------------------------------------
(* The orders of the plan that the search for reorderings finds.           *)

\* The operators of p after the first m are among those of q.
Fits(t, p, m, q) ==
  \A o \in t.ops : Cardinality({i \in m + 1 .. Len(p) : p[i] = o})
                     <= Cardinality({i \in 1 .. Len(q) : q[i] = o})

Begins(l, p) == Len(l) <= Len(p) /\ \A i \in 1 .. Len(l) : l[i] = p[i]

\* A plan of operators of q that ends with the first goal it meets.
AnOrder(t, q, p) ==
  /\ p # <<>> /\ Fits(t, p, 0, q)
  /\ \E path : /\ IsRun(t, p, path)
               /\ \A i \in 1 .. Len(path) : path[i] \in t.goal <=> i = Len(path)

\* It begins with l, and the operators that are left suffice for the rest.
Comes(t, l, left, p) == Begins(l, p) /\ Len(l) < Len(p) /\ Fits(t, p, Len(l), left)

\* A plan of cost b along edges E.
Follows(t, b, E, p) ==
  /\ PlanCost(t, p) = b
  /\ \E path : /\ IsRun(t, p, path) /\ path[Len(path)] \in t.goal
               /\ \A i \in 1 .. Len(p) : <<path[i], p[i]>> \in E

\* The entry e of the stack stands for the operators l; with what is left they
\* cost b.
Stands(t, b, E, l, e) ==
  /\ IsRun(t, l, e.path) /\ e.rest \in Seq(t.ops)
  /\ PlanCost(t, l) + PlanCost(t, e.rest) = b
  /\ \A i \in 1 .. Len(l) : <<e.path[i], l[i]>> \in E

\* No two entries, and no entry and plan that was found, begin alike.
Apart(L, P) ==
  /\ \A k, j \in DOMAIN L : Begins(L[k], L[j]) => k = j
  /\ \A k \in DOMAIN L, p \in P : ~ Begins(L[k], p) /\ ~ Begins(p, L[k])

\* The entries of the stack q stand for the operators L.
Labelled(t, b, E, q, L) ==
  DOMAIN L = DOMAIN q /\ \A k \in DOMAIN q : Stands(t, b, E, L[k], q[k])

\* Every order of the plan p0 has been found or comes from an entry.
Remaining(t, p0, q, L, P) ==
  \A p : AnOrder(t, p0, p) =>
    p \in P \/ \E k \in DOMAIN q : Comes(t, L[k], q[k].rest, p)

\* The plans in P were found, as many as were counted.
Counted(t, b, E, n, P) ==
  /\ IsFiniteSet(P) /\ Cardinality(P) = n
  /\ \A p \in P : Follows(t, b, E, p)

\* The stack q has all orders that are not in P still to come.
Ahead(t, b, E, p0, q, P) ==
  \E L : Labelled(t, b, E, q, L) /\ Apart(L, P) /\ Remaining(t, p0, q, L, P)

\* All orders of the plan p0 have been found, unless as many as asked for.
OrdersFound(t, b, E, p0, n, N) ==
  \E P : /\ Counted(t, b, E, n, P)
         /\ n >= N \/ \A p : AnOrder(t, p0, p) => p \in P

\* The search goes on.
OrdersAhead(t, b, E, p0, n, q) ==
  \E P : Counted(t, b, E, n, P) /\ Ahead(t, b, E, p0, q, P)

BeforeSearch ==
  pc \in {"add plan", "start reorderings"} \/ (pc = "dump" /\ after = "start reorderings")

OrdersInv ==
  /\ BeforeSearch => count_goal_states = 0
  /\ pc = "reorder" =>
       OrdersAhead(task, best_plan_cost, edges, plan, count_goal_states, dfs_queue)
  /\ ~ BeforeSearch /\ pc # "reorder" =>
       OrdersFound(task, best_plan_cost, edges, plan, count_goal_states, limit)

-----------------------------------------------------------------------------
(* Operators that are left.                                                *)

\* The sequence without its i-th element.
IsRemoved(q, i, r) ==
  /\ Len(r) = Len(q) - 1
  /\ \A j \in 1 .. Len(q) - 1 : r[j] = IF j < i THEN q[j] ELSE q[j + 1]

LEMMA RemoveIs ==
  ASSUME NEW S, NEW q \in Seq(S), NEW i \in 1 .. Len(q)
  PROVE  Remove(q, i) \in Seq(S) /\ IsRemoved(q, i, Remove(q, i))
<1> DEFINE n == Len(q)
           a == SubSeq(q, 1, i - 1)
           b == SubSeq(q, i + 1, n)
           r == a \o b
<1>1. n \in Nat /\ i \in 1 .. n /\ i - 1 \in 0 .. n
  OBVIOUS
<1>2. a \in Seq(S) /\ Len(a) = i - 1 /\ \A j \in 1 .. i - 1 : a[j] = q[j]
  BY <1>1, Beginning
<1>3. b \in Seq(S) /\ Len(b) = n - i /\ \A j \in 1 .. n - i : b[j] = q[i + j]
  <2>1. i + 1 \in Int /\ n \in Int /\ \A j \in i + 1 .. n : q[j] \in S
    BY <1>1
  <2>2. /\ b \in Seq(S)
        /\ Len(b) = IF i + 1 <= n THEN n - (i + 1) + 1 ELSE 0
        /\ \A j \in 1 .. n - (i + 1) + 1 : b[j] = q[i + 1 + j - 1]
    BY <2>1, SubSeqProperties
  <2>3. (IF i + 1 <= n THEN n - (i + 1) + 1 ELSE 0) = n - i
    BY <1>1
  <2>4. ASSUME NEW j \in 1 .. n - i
        PROVE  b[j] = q[i + j]
    <3>1. j \in 1 .. n - (i + 1) + 1 /\ i + 1 + j - 1 = i + j
      BY <1>1
    <3> HIDE DEF b
    <3>2. QED
      BY <2>2, <3>1
  <2>5. QED
    BY <2>2, <2>3, <2>4
<1> HIDE DEF a, b, n
<1>4. /\ r \in Seq(S) /\ Len(r) = (i - 1) + (n - i)
      /\ \A j \in 1 .. (i - 1) + (n - i) : r[j] = IF j <= i - 1 THEN a[j] ELSE b[j - (i - 1)]
  <2>1. a \in Seq(S) /\ b \in Seq(S)
    BY <1>2, <1>3
  <2>2. /\ r \in Seq(S) /\ Len(r) = Len(a) + Len(b)
        /\ \A j \in 1 .. Len(a) + Len(b) : r[j] = IF j <= Len(a) THEN a[j] ELSE b[j - Len(a)]
    BY <2>1
  <2> HIDE DEF r
  <2>3. QED
    BY <1>2, <1>3, <2>2
<1> HIDE DEF r
<1>5. Len(r) = n - 1
  BY <1>1, <1>4
<1>6. ASSUME NEW j \in 1 .. n - 1
      PROVE  r[j] = IF j < i THEN q[j] ELSE q[j + 1]
  <2>1. j \in 1 .. (i - 1) + (n - i)
    BY <1>1
  <2>2. CASE j < i
    <3>1. j <= i - 1 /\ j \in 1 .. i - 1
      BY <1>1, <2>2
    <3>2. QED
      BY <1>2, <1>4, <2>1, <2>2, <3>1
  <2>3. CASE ~ (j < i)
    <3>1. ~ (j <= i - 1) /\ j - (i - 1) \in 1 .. n - i /\ i + (j - (i - 1)) = j + 1
      BY <1>1, <2>3
    <3>2. r[j] = b[j - (i - 1)]
      BY <1>4, <2>1, <3>1
    <3>3. b[j - (i - 1)] = q[j + 1]
      BY <1>3, <3>1
    <3>4. QED
      BY <2>3, <3>2, <3>3
  <2>4. QED
    BY <2>2, <2>3
<1>7. Remove(q, i) = r
  BY DEF Remove, r, a, b, n
<1>8. QED
  BY <1>4, <1>5, <1>6, <1>7 DEF IsRemoved, n

LEMMA CostOfRemove ==
  ASSUME NEW t \in Tasks, NEW q \in Seq(t.ops), NEW i \in 1 .. Len(q)
  PROVE  /\ PlanCost(t, Remove(q, i)) \in Nat /\ t.cost[q[i]] \in Nat
         /\ PlanCost(t, Remove(q, i)) + t.cost[q[i]] = PlanCost(t, q)
<1> DEFINE n == Len(q)
           r == Remove(q, i)
           v == t.cost[q[i]]
<1>1. t.cost \in [t.ops -> Nat]
  BY TaskAssumption
<1>2. r \in Seq(t.ops) /\ IsRemoved(q, i, r)
  BY RemoveIs
<1>3. v \in Nat /\ n \in Nat /\ i \in 1 .. n /\ q[i] \in t.ops
  BY <1>1
<1> HIDE DEF r
<1>4. PICK c : IsSum(t, q, c)
  BY <1>1, SumExists
<1>5. /\ c \in [0 .. n -> Nat] /\ c[0] = 0 /\ PlanCost(t, q) = c[n]
      /\ \A j \in 1 .. n : c[j] = c[j - 1] + t.cost[q[j]]
  BY <1>1, <1>4, SumIsCost DEF IsSum
<1>6. \A j \in 1 .. n : t.cost[q[j]] \in Nat
  <2>1. \A j \in 1 .. n : q[j] \in t.ops
    OBVIOUS
  <2>2. QED
    BY <1>1, <2>1
<1>7. \A j \in i .. n : v <= c[j]
  <2> DEFINE G == {j \in 0 .. n : j < i \/ v <= c[j]}
  <2>1. 0 \in G
    BY <1>3
  <2>2. ASSUME NEW j \in 0 .. n - 1, j \in G
        PROVE  j + 1 \in G
    <3>1. j + 1 \in 1 .. n /\ j \in 0 .. n /\ j + 1 - 1 = j
      BY <1>3
    <3>2. c[j + 1] = c[j] + t.cost[q[j + 1]] /\ c[j] \in Nat /\ t.cost[q[j + 1]] \in Nat
      BY <1>5, <1>6, <3>1
    <3>3. CASE j + 1 = i
      <4>1. t.cost[q[j + 1]] = v
        BY <3>3
      <4> DEFINE w == t.cost[q[j + 1]]
                 x == c[j]
                 y == c[j + 1]
      <4>2. y = x + w /\ x \in Nat /\ w = v
        BY <3>2, <4>1
      <4>3. v <= y
        <5> HIDE DEF v, w, x, y
        <5>1. QED
          BY <1>3, <4>2
      <4>4. QED
        BY <3>1, <4>3
    <3>4. CASE j + 1 < i
      BY <1>3, <3>1, <3>4
    <3>5. CASE ~ (j + 1 = i) /\ ~ (j + 1 < i)
      <4>1. ~ (j < i)
        BY <1>3, <3>5
      <4>2. v <= c[j]
        BY <2>2, <4>1
      <4> DEFINE w == t.cost[q[j + 1]]
                 x == c[j]
                 y == c[j + 1]
      <4>3. y = x + w /\ x \in Nat /\ w \in Nat /\ v <= x
        BY <3>2, <4>2
      <4>4. v <= y
        <5> HIDE DEF v, w, x, y
        <5>1. QED
          BY <1>3, <4>3
      <4>5. QED
        BY <3>1, <4>4
    <3>6. QED
      BY <3>3, <3>4, <3>5
  <2>3. \A j \in 0 .. n : j \in G
    <3>1. \A j \in 0 .. n - 1 : j \in G => j + 1 \in G
      BY <2>2
    <3> HIDE DEF G
    <3>2. QED
      BY <1>3, <2>1, <3>1, Upward
  <2>4. ASSUME NEW j \in i .. n
        PROVE  v <= c[j]
    <3>1. j \in 0 .. n /\ ~ (j < i)
      BY <1>3
    <3>2. QED
      BY <2>3, <3>1
  <2>5. QED
    BY <2>4
<1> DEFINE d == [j \in 0 .. n - 1 |-> IF j < i THEN c[j] ELSE c[j + 1] - v]
<1> HIDE DEF v
<1>8. ASSUME NEW j \in 0 .. n - 1
      PROVE  d[j] \in Nat
  <2>1. CASE j < i
    <3>1. j \in 0 .. n
      BY <1>3
    <3>2. QED
      BY <1>5, <2>1, <3>1
  <2>2. CASE ~ (j < i)
    <3>1. j + 1 \in i .. n /\ j + 1 \in 0 .. n
      BY <1>3, <2>2
    <3>2. v <= c[j + 1] /\ c[j + 1] \in Nat
      BY <1>5, <1>7, <3>1
    <3>3. d[j] = c[j + 1] - v
      BY <2>2
    <3> HIDE DEF d
    <3>4. QED
      BY <1>3, <3>2, <3>3
  <2>3. QED
    BY <2>1, <2>2
<1>9. ASSUME NEW j \in 1 .. n - 1
      PROVE  d[j] = d[j - 1] + t.cost[r[j]]
  <2>1. /\ j \in 1 .. n /\ j + 1 \in 1 .. n /\ j - 1 \in 0 .. n - 1 /\ j \in 0 .. n - 1
        /\ j + 1 - 1 = j /\ j - 1 + 1 = j
    BY <1>3
  <2>2. r[j] = IF j < i THEN q[j] ELSE q[j + 1]
    BY <1>2 DEF IsRemoved
  <2>3. CASE j < i
    <3>1. j - 1 < i
      BY <1>3, <2>3
    <3>2. d[j] = c[j] /\ d[j - 1] = c[j - 1]
      BY <2>1, <2>3, <3>1
    <3>3. QED
      BY <1>5, <2>1, <2>2, <2>3, <3>2
  <2>4. CASE j = i
    <3>1. d[j] = c[j + 1] - v /\ d[j - 1] = c[j - 1]
      BY <1>3, <2>1, <2>4
    <3>2. c[j + 1] = c[j] + t.cost[q[j + 1]] /\ c[j] = c[j - 1] + v
      <4>1. c[j + 1] = c[j] + t.cost[q[j + 1]]
        BY <1>5, <2>1
      <4>2. c[j] = c[j - 1] + t.cost[q[i]]
        BY <1>5, <2>1, <2>4
      <4>3. QED
        BY <4>1, <4>2 DEF v
    <3>3. c[j - 1] \in Nat /\ t.cost[q[j + 1]] \in Nat
      <4>1. j - 1 \in 0 .. n
        BY <2>1
      <4>2. QED
        BY <1>5, <1>6, <2>1, <4>1
    <3>4. r[j] = q[j + 1]
      BY <1>3, <2>2, <2>4
    <3> DEFINE w == t.cost[q[j + 1]]
               x == c[j - 1]
               y == c[j]
               z == c[j + 1]
    <3>5. z = y + w /\ y = x + v /\ x \in Nat /\ w \in Nat
      BY <3>2, <3>3
    <3>6. z - v = x + w
      <4> HIDE DEF w, x, y, z
      <4>1. QED
        BY <1>3, <3>5
    <3>7. QED
      BY <3>1, <3>4, <3>6
  <2>5. CASE ~ (j < i) /\ j # i
    <3>1. ~ (j - 1 < i)
      BY <1>3, <2>1, <2>5
    <3>2. d[j] = c[j + 1] - v /\ d[j - 1] = c[j] - v
      BY <2>1, <2>5, <3>1
    <3>3. c[j + 1] = c[j] + t.cost[q[j + 1]] /\ r[j] = q[j + 1]
      BY <1>5, <2>1, <2>2, <2>5
    <3>4. c[j] \in Nat /\ t.cost[q[j + 1]] \in Nat
      <4>1. j \in 0 .. n
        BY <2>1
      <4>2. QED
        BY <1>5, <1>6, <2>1, <4>1
    <3> DEFINE w == t.cost[q[j + 1]]
               y == c[j]
               z == c[j + 1]
    <3>5. z = y + w /\ y \in Nat /\ w \in Nat
      BY <3>3, <3>4
    <3>6. z - v = y - v + w
      <4> HIDE DEF w, y, z
      <4>1. QED
        BY <1>3, <3>5
    <3>7. QED
      BY <3>2, <3>3, <3>6
  <2>6. QED
    BY <2>3, <2>4, <2>5
<1>10. n - 1 \in 0 .. n - 1 /\ Len(r) = n - 1 /\ n \in i .. n /\ n \in 0 .. n
  BY <1>2, <1>3 DEF IsRemoved
<1>11. IsSum(t, r, d)
  <2>1. d \in [0 .. n - 1 -> Nat]
    BY <1>8
  <2>2. d[0] = 0
    <3>1. 0 \in 0 .. n - 1 /\ 0 < i
      BY <1>3
    <3>2. QED
      BY <1>5, <3>1
  <2> HIDE DEF d
  <2>3. QED
    BY <1>9, <1>10, <2>1, <2>2 DEF IsSum
<1>12. PlanCost(t, r) = d[n - 1] /\ d[n - 1] \in Nat
  <2>1. d[n - 1] \in Nat
    BY <1>8, <1>10
  <2> HIDE DEF d
  <2>2. QED
    BY <1>1, <1>2, <1>10, <1>11, <2>1, SumIsCost
<1>13. d[n - 1] + v = c[n]
  <2>1. c[n] \in Nat /\ n - 1 + 1 = n
    BY <1>5, <1>10
  <2>2. CASE n - 1 < i
    <3>1. n = i /\ n \in 1 .. n /\ d[n - 1] = c[n - 1]
      BY <1>3, <1>10, <2>2
    <3>2. c[n] = c[n - 1] + t.cost[q[n]]
      BY <1>5, <3>1
    <3>3. QED
      BY <3>1, <3>2 DEF v
  <2>3. CASE ~ (n - 1 < i)
    <3>1. d[n - 1] = c[n] - v
      BY <1>10, <2>1, <2>3
    <3> DEFINE x == c[n]
               y == d[n - 1]
    <3>2. x \in Nat /\ y = x - v
      BY <2>1, <3>1
    <3>3. y + v = x
      <4> HIDE DEF x, y
      <4>1. QED
        BY <1>3, <3>2
    <3>4. QED
      BY <3>3
  <2>4. QED
    BY <2>2, <2>3
<1>14. QED
  BY <1>3, <1>5, <1>12, <1>13 DEF v, r

\* Where q has the operator o from m + 1 on.
Places(q, m, o) == {i \in m + 1 .. Len(q) : q[i] = o}

LEMMA PlacesFinite ==
  ASSUME NEW q, NEW m \in Nat, Len(q) \in Nat, NEW o
  PROVE  /\ IsFiniteSet(Places(q, m, o)) /\ Cardinality(Places(q, m, o)) \in Nat
         /\ \A i : IsFiniteSet(Places(q, m, o) \ {i})
                   /\ Cardinality(Places(q, m, o) \ {i})
                        = IF i \in Places(q, m, o) THEN Cardinality(Places(q, m, o)) - 1
                          ELSE Cardinality(Places(q, m, o))
<1>1. IsFiniteSet(m + 1 .. Len(q))
  <2>1. m + 1 \in Int /\ Len(q) \in Int
    OBVIOUS
  <2>2. QED
    BY <2>1, FS_Interval
<1>2. Places(q, m, o) \in SUBSET (m + 1 .. Len(q))
  BY DEF Places
<1>3. IsFiniteSet(Places(q, m, o))
  BY <1>1, <1>2, FS_Subset
<1>4. QED
  BY <1>3, FS_CardinalityType, FS_RemoveElement

LEMMA FitsIs ==
  ASSUME NEW t, NEW p, NEW m \in Nat, NEW q
  PROVE  Fits(t, p, m, q) <=>
           \A o \in t.ops : Cardinality(Places(p, m, o)) <= Cardinality(Places(q, 0, o))
<1>1. 0 + 1 = 1
  OBVIOUS
<1>2. QED
  BY <1>1 DEF Fits, Places

LEMMA OthersLeft ==
  ASSUME NEW S, NEW q \in Seq(S), NEW i \in 1 .. Len(q), NEW r, IsRemoved(q, i, r), NEW o
  PROVE  Cardinality(Places(q, 0, o) \ {i}) <= Cardinality(Places(r, 0, o))
<1> DEFINE A == Places(q, 0, o) \ {i}
           B == Places(r, 0, o)
           n == Len(q)
           f == [j \in A |-> IF j < i THEN j ELSE j - 1]
<1>1. n \in Nat /\ i \in 1 .. n /\ Len(r) = n - 1 /\ n - 1 \in Nat
  BY DEF IsRemoved
<1>2. \A j \in A : j \in 1 .. n /\ q[j] = o /\ j # i
  BY DEF Places
<1>3. ASSUME NEW j \in A
      PROVE  f[j] \in B
  <2>1. j \in 1 .. n /\ q[j] = o /\ j # i
    BY <1>2
  <2>2. CASE j < i
    <3>1. j \in 1 .. n - 1 /\ f[j] = j
      BY <1>1, <2>1, <2>2
    <3>2. r[j] = q[j]
      BY <2>2, <3>1 DEF IsRemoved
    <3>3. QED
      BY <1>1, <2>1, <3>1, <3>2 DEF Places
  <2>3. CASE ~ (j < i)
    <3>1. j - 1 \in 1 .. n - 1 /\ f[j] = j - 1 /\ ~ (j - 1 < i) /\ j - 1 + 1 = j
      BY <1>1, <2>1, <2>3
    <3>2. r[j - 1] = q[j - 1 + 1]
      BY <3>1 DEF IsRemoved
    <3>3. r[j - 1] = o
      BY <2>1, <3>1, <3>2
    <3>4. QED
      BY <1>1, <3>1, <3>3 DEF Places
  <2>4. QED
    BY <2>2, <2>3
<1>4. ASSUME NEW j \in A, NEW k \in A, f[j] = f[k]
      PROVE  j = k
  <2>1. j \in 1 .. n /\ k \in 1 .. n /\ j # i /\ k # i
    BY <1>2
  <2>2. f[j] = (IF j < i THEN j ELSE j - 1) /\ f[k] = (IF k < i THEN k ELSE k - 1)
    OBVIOUS
  <2> DEFINE x == f[j]
             y == f[k]
  <2>3. x = (IF j < i THEN j ELSE j - 1) /\ y = (IF k < i THEN k ELSE k - 1) /\ x = y
    BY <1>4, <2>2
  <2> HIDE DEF f, A, B, n, x, y
  <2>4. j \in Int /\ k \in Int /\ i \in Int
    BY <1>1, <2>1
  <2>5. CASE j < i
    BY <2>1, <2>3, <2>4, <2>5
  <2>6. CASE ~ (j < i)
    BY <2>1, <2>3, <2>4, <2>6
  <2>7. QED
    BY <2>5, <2>6
<1>5. f \in Injection(A, B)
  <2>1. f \in [A -> B]
    BY <1>3
  <2> HIDE DEF f, A, B
  <2>2. QED
    BY <1>4, <2>1, Zenon DEF Injection, IsInjective
<1>6. IsFiniteSet(B)
  BY <1>1, PlacesFinite
<1>7. QED
  <2> HIDE DEF f, A, B
  <2>1. Cardinality(A) <= Cardinality(B)
    BY <1>5, <1>6, FS_Injection
  <2>2. QED
    BY <2>1 DEF A, B

\* One more operator is taken from those that are left.
LEMMA FitsOn ==
  ASSUME NEW t \in Tasks, NEW p \in Seq(t.ops), NEW m \in Nat, m < Len(p),
         NEW q \in Seq(t.ops), NEW i \in 1 .. Len(q), q[i] = p[m + 1],
         Fits(t, p, m, q)
  PROVE  Fits(t, p, m + 1, Remove(q, i))
<1> DEFINE r == Remove(q, i)
           n == Len(p)
<1>1. n \in Nat /\ Len(q) \in Nat /\ m + 1 \in Nat /\ 0 \in Nat /\ Len(r) \in Nat
  <2>1. r \in Seq(t.ops)
    BY RemoveIs
  <2>2. QED
    BY <2>1
<1>2. IsRemoved(q, i, r)
  BY RemoveIs
<1> HIDE DEF r
<1>3. ASSUME NEW o \in t.ops
      PROVE  Cardinality(Places(p, m + 1, o)) <= Cardinality(Places(r, 0, o))
  <2> DEFINE A == Places(p, m, o)
             B == Places(q, 0, o)
             C == Places(p, m + 1, o)
             D == Places(r, 0, o)
  <2>1. Cardinality(A) <= Cardinality(B)
    BY FitsIs
  <2>2. Cardinality(B \ {i}) <= Cardinality(D)
    BY <1>2, OthersLeft
  <2>3. /\ Cardinality(A) \in Nat /\ Cardinality(B) \in Nat /\ Cardinality(D) \in Nat
        /\ Cardinality(A \ {m + 1}) = IF m + 1 \in A THEN Cardinality(A) - 1 ELSE Cardinality(A)
        /\ Cardinality(B \ {i}) = IF i \in B THEN Cardinality(B) - 1 ELSE Cardinality(B)
    BY <1>1, PlacesFinite
  <2>4. C = A \ {m + 1}
    <3>1. \A j : j \in m + 1 + 1 .. n <=> j \in m + 1 .. n /\ j # m + 1
      BY <1>1
    <3>2. QED
      BY <3>1 DEF Places
  <2>5. m + 1 \in A <=> p[m + 1] = o
    <3>1. m + 1 \in m + 1 .. n
      BY <1>1
    <3>2. QED
      BY <3>1 DEF Places
  <2>6. i \in B <=> q[i] = o
    <3>1. i \in 0 + 1 .. Len(q)
      OBVIOUS
    <3>2. QED
      BY <3>1 DEF Places
  <2>7. i \in B <=> m + 1 \in A
    BY <2>5, <2>6
  <2> DEFINE a == Cardinality(A)
             b == Cardinality(B)
             d == Cardinality(D)
             x == Cardinality(A \ {m + 1})
             y == Cardinality(B \ {i})
  <2>8. x <= d
    <3> HIDE DEF A, B, D
    <3>1. /\ a <= b /\ y <= d /\ a \in Nat /\ b \in Nat /\ d \in Nat
          /\ x = (IF m + 1 \in A THEN a - 1 ELSE a)
          /\ y = (IF m + 1 \in A THEN b - 1 ELSE b)
      BY <2>1, <2>2, <2>3, <2>7
    <3> HIDE DEF a, b, d, x, y
    <3>2. QED
      BY <3>1
  <2>9. QED
    BY <2>4, <2>8
<1>4. QED
  BY <1>1, <1>3, FitsIs DEF r

\* The first of the operators that are left which is the next one.
LEMMA FitsHere ==
  ASSUME NEW t \in Tasks, NEW p \in Seq(t.ops), NEW m \in Nat, m < Len(p),
         NEW q \in Seq(t.ops), Fits(t, p, m, q)
  PROVE  \E i \in 1 .. Len(q) : q[i] = p[m + 1] /\ \A j \in 1 .. i - 1 : q[j] # q[i]
<1> DEFINE o == p[m + 1]
           A == Places(p, m, o)
           B == Places(q, 0, o)
<1>1. Len(p) \in Nat /\ Len(q) \in Nat /\ m + 1 \in 1 .. Len(p) /\ m + 1 \in m + 1 .. Len(p)
  OBVIOUS
<1>2. o \in t.ops
  BY <1>1
<1>3. Cardinality(A) <= Cardinality(B)
  BY <1>2, FitsIs
<1>4. m + 1 \in A
  BY <1>1 DEF Places
<1>5. B # {}
  <2>1. /\ Cardinality(A \ {m + 1}) = Cardinality(A) - 1 /\ Cardinality(A) \in Nat
        /\ Cardinality(A \ {m + 1}) \in Nat
    <3>1. IsFiniteSet(A \ {m + 1})
      BY <1>1, PlacesFinite
    <3>2. Cardinality(A \ {m + 1}) \in Nat
      BY <3>1, FS_CardinalityType
    <3>3. QED
      BY <1>1, <1>4, <3>2, PlacesFinite
  <2>2. Cardinality(A) # 0
    BY <2>1
  <2>3. Cardinality({}) = 0
    BY FS_EmptySet
  <2>4. Cardinality(B) \in Nat
    BY <1>1, PlacesFinite
  <2> HIDE DEF A, B
  <2>5. Cardinality(B) # 0
    BY <1>3, <2>1, <2>2, <2>4
  <2>6. QED
    BY <2>3, <2>5
<1>6. B \in SUBSET Nat /\ \A i : i \in B <=> i \in 1 .. Len(q) /\ q[i] = o
  BY <1>1 DEF Places
<1>7. PICK i \in B : \A j \in B : i <= j
  <2> HIDE DEF B
  <2>1. QED
    BY <1>5, <1>6, LeastNatural
<1>8. ASSUME NEW j \in 1 .. i - 1
      PROVE  q[j] # q[i]
  <2>1. i \in 1 .. Len(q) /\ q[i] = o
    BY <1>6
  <2>2. j \in 1 .. Len(q) /\ ~ (i <= j)
    BY <1>1, <2>1
  <2>3. j \notin B
    BY <1>7, <2>2
  <2>4. QED
    BY <1>6, <2>1, <2>2, <2>3
<1>9. QED
  BY <1>6, <1>8

-----------------------------------------------------------------------------
(* One step of the search for reorderings.                                 *)

\* The entry after the i-th operator that is left.
After(t, e, i) ==
  [path |-> Append(e.path, t.succ[<<Top(e.path), e.rest[i]>>]),
   rest |-> Remove(e.rest, i)]

\* The i-th operator that is left leads to a state that was not passed.
CanTake(t, e, i) ==
  /\ i \in 1 .. Len(e.rest)
  /\ <<Top(e.path), e.rest[i]>> \in DOMAIN t.succ
  /\ t.succ[<<Top(e.path), e.rest[i]>>] \notin InRange(e.path)

LEMMA LeadsToState ==
  ASSUME NEW t \in Tasks
  PROVE  \A x \in DOMAIN t.succ : t.succ[x] \in t.states
BY TaskAssumption

LEMMA StandsOn ==
  ASSUME NEW t \in Tasks, NEW b, NEW E, NEW F, E \subseteq F, NEW l, NEW e,
         Stands(t, b, E, l, e), NEW i, CanTake(t, e, i),
         <<Top(e.path), e.rest[i]>> \in F
  PROVE  Stands(t, b, F, Append(l, e.rest[i]), After(t, e, i))
<1> DEFINE p == e.path
           q == e.rest
           o == q[i]
           s == t.succ[<<Top(p), o>>]
           x == Append(p, s)
           m == Append(l, o)
           r == Remove(q, i)
           ops == t.ops
           states == t.states
<1>1. /\ IsRun(t, l, p) /\ q \in Seq(ops) /\ PlanCost(t, l) + PlanCost(t, q) = b
      /\ \A j \in 1 .. Len(l) : <<p[j], l[j]>> \in E
  BY DEF Stands
<1>2. i \in 1 .. Len(q) /\ <<Top(p), o>> \in DOMAIN t.succ /\ s \notin InRange(p)
  BY DEF CanTake
<1>3. o \in ops
  <2> HIDE DEF q, ops
  <2>1. QED
    BY <1>1, <1>2
<1>4. s \in states
  <2> DEFINE y == <<Top(p), o>>
  <2>1. y \in DOMAIN t.succ
    BY <1>2
  <2> HIDE DEF y
  <2>2. t.succ[y] \in t.states
    BY <2>1, LeadsToState
  <2>3. QED
    BY <2>2 DEF y
<1>5. IsRun(t, m, x)
  <2> HIDE DEF p, q
  <2>1. QED
    BY <1>1, <1>2, <1>3, RunGrows
<1>6. l \in Seq(ops) /\ p \in Seq(states) /\ Len(p) = Len(l) + 1 /\ Len(l) \in Nat
  BY <1>1 DEF IsRun
<1>7. Len(m) = Len(l) + 1 /\ m[Len(l) + 1] = o /\ \A j \in 1 .. Len(l) : m[j] = l[j]
  <2> HIDE DEF o, ops
  <2>1. QED
    BY <1>3, <1>6, AppendIs
<1>8. \A j \in 1 .. Len(l) + 1 : x[j] = p[j]
  <2> HIDE DEF s, p, states
  <2>1. QED
    BY <1>4, <1>6, AppendIs
<1>9. ASSUME NEW j \in 1 .. Len(m)
      PROVE  <<x[j], m[j]>> \in F
  <2>1. j \in 1 .. Len(l) + 1
    BY <1>7
  <2>2. x[j] = p[j]
    BY <1>8, <2>1
  <2> HIDE DEF x, m
  <2>3. CASE j = Len(l) + 1
    <3>1. p[j] = Top(p) /\ m[j] = o
      BY <1>6, <1>7, <2>3 DEF Top
    <3>2. QED
      BY <2>2, <3>1
  <2>4. CASE j # Len(l) + 1
    <3>1. j \in 1 .. Len(l)
      BY <1>6, <2>1, <2>4
    <3>2. QED
      BY <1>1, <1>7, <2>2, <3>1
  <2>5. QED
    BY <2>3, <2>4
<1>10. r \in Seq(ops)
  <2> HIDE DEF q, ops
  <2>1. QED
    BY <1>1, <1>2, RemoveTyped
<1>11. PlanCost(t, m) + PlanCost(t, r) = b
  <2>1. t.cost \in [t.ops -> Nat]
    BY TaskAssumption
  <2>2. PlanCost(t, m) = PlanCost(t, l) + t.cost[o] /\ PlanCost(t, l) \in Nat
    <3> HIDE DEF o
    <3>1. QED
      BY <1>3, <1>6, <2>1, CostOfAppend
  <2>3. /\ PlanCost(t, r) \in Nat /\ t.cost[o] \in Nat
        /\ PlanCost(t, r) + t.cost[o] = PlanCost(t, q)
    <3> HIDE DEF q
    <3>1. QED
      BY <1>1, <1>2, CostOfRemove DEF ops
  <2> DEFINE A == PlanCost(t, m)
             B == PlanCost(t, l)
             C == PlanCost(t, r)
             D == PlanCost(t, q)
             v == t.cost[o]
  <2>4. A = B + v /\ B \in Nat /\ C \in Nat /\ v \in Nat /\ C + v = D /\ B + D = b
    BY <1>1, <2>2, <2>3
  <2>5. A + C = b
    <3> HIDE DEF A, B, C, D, v
    <3>1. QED
      BY <2>4
  <2>6. QED
    BY <2>5
<1>12. After(t, e, i).path = x /\ After(t, e, i).rest = r
  BY DEF After
<1>13. QED
  <2> HIDE DEF x, m, r
  <2>1. Stands(t, b, F, m, After(t, e, i))
    BY <1>5, <1>9, <1>10, <1>11, <1>12 DEF Stands
  <2>2. QED
    BY <2>1 DEF m

\* At a goal all operators are spent that cost something.
LEMMA GoalReached ==
  ASSUME NEW t \in Tasks, NEW b \in Nat, NEW E, NEW F, E \subseteq F, NEW l, NEW e,
         Stands(t, b, E, l, e), NEW i, CanTake(t, e, i),
         <<Top(e.path), e.rest[i]>> \in F,
         t.succ[<<Top(e.path), e.rest[i]>>] \in t.goal,
         NEW h \in Potentials(t, b), h[t.init] = b
  PROVE  Follows(t, b, F, Append(l, e.rest[i]))
<1> DEFINE m == Append(l, e.rest[i])
           a == After(t, e, i)
           x == a.path
           n == Len(m)
<1>1. Stands(t, b, F, m, a)
  BY StandsOn
<1>2. x = Append(e.path, t.succ[<<Top(e.path), e.rest[i]>>])
  BY DEF After
<1> HIDE DEF m, a
<1>3. /\ IsRun(t, m, x) /\ a.rest \in Seq(t.ops) /\ PlanCost(t, m) + PlanCost(t, a.rest) = b
      /\ \A j \in 1 .. Len(m) : <<x[j], m[j]>> \in F
  BY <1>1 DEF Stands
<1>4. x[Len(x)] = t.succ[<<Top(e.path), e.rest[i]>>]
  <2> DEFINE p == e.path
             s == t.succ[<<Top(e.path), e.rest[i]>>]
             states == t.states
  <2>1. p \in Seq(states)
    BY DEF Stands, IsRun
  <2>2. s \in states
    BY LeadsToState DEF CanTake
  <2>3. Append(p, s)[Len(Append(p, s))] = s
    <3> HIDE DEF p, s, states
    <3>1. QED
      BY <2>1, <2>2
  <2>4. QED
    BY <1>2, <2>3
<1> HIDE DEF x
<1>5. /\ h \in [t.states -> Nat] /\ h[x[Len(x)]] = 0
      /\ \A e2 \in DOMAIN t.succ : h[e2[1]] <= h[t.succ[e2]] + t.cost[e2[2]]
  <2>1. h \in [t.states -> 0 .. b] /\ \A s \in t.goal : h[s] = 0
    BY DEF Potentials
  <2>2. \A e2 \in DOMAIN t.succ : h[e2[1]] <= h[t.succ[e2]] + t.cost[e2[2]]
    BY DEF Potentials
  <2>3. h \in [t.states -> Nat]
    <3>1. \A s \in t.states : h[s] \in Nat
      BY <2>1
    <3>2. QED
      BY <2>1, <3>1
  <2>4. QED
    BY <1>4, <2>1, <2>2, <2>3
<1>6. \A j \in 1 .. n : h[x[j]] <= h[x[j + 1]] + t.cost[m[j]]
  <2> SUFFICES ASSUME NEW j \in 1 .. n
               PROVE  h[x[j]] <= h[x[j + 1]] + t.cost[m[j]]
    OBVIOUS
  <2> DEFINE y == <<x[j], m[j]>>
  <2>1. y \in DOMAIN t.succ /\ x[j + 1] = t.succ[y]
    BY <1>3 DEF IsRun
  <2>2. y[1] = x[j] /\ y[2] = m[j]
    OBVIOUS
  <2> HIDE DEF y
  <2>3. QED
    BY <1>5, <2>1, <2>2
<1>7. PlanCost(t, m) \in Nat /\ b <= PlanCost(t, m) + 0
  <2>1. PlanCost(t, m) \in Nat
    BY <1>3, <1>5, RunCost
  <2>2. h[t.init] <= PlanCost(t, m) + h[x[Len(x)]]
    BY <1>3, <1>5, <1>6, RunCost
  <2>3. QED
    BY <1>5, <2>1, <2>2
<1>8. PlanCost(t, a.rest) \in Nat
  <2>1. t.cost \in [t.ops -> Nat]
    BY TaskAssumption
  <2>2. PICK c : IsSum(t, a.rest, c)
    BY <1>3, <2>1, SumExists
  <2>3. PlanCost(t, a.rest) = c[Len(a.rest)] /\ c[Len(a.rest)] \in Nat
    <3>1. PlanCost(t, a.rest) = c[Len(a.rest)]
      BY <1>3, <2>1, <2>2, SumIsCost
    <3>2. c \in [0 .. Len(a.rest) -> Nat] /\ Len(a.rest) \in 0 .. Len(a.rest)
      BY <1>3, <2>2 DEF IsSum
    <3>3. QED
      BY <3>1, <3>2
  <2>4. QED
    BY <2>3
<1>9. PlanCost(t, m) = b
  <2> DEFINE A == PlanCost(t, m)
             B == PlanCost(t, a.rest)
  <2>1. A \in Nat /\ B \in Nat /\ b <= A + 0 /\ A + B = b
    BY <1>3, <1>7, <1>8
  <2>2. A = b
    <3> HIDE DEF A, B
    <3>1. QED
      BY <2>1
  <2>3. QED
    BY <2>2
<1>10. x[Len(x)] \in t.goal
  BY <1>4
<1>11. Follows(t, b, F, m)
  BY <1>3, <1>9, <1>10 DEF Follows
<1>12. QED
  BY <1>11 DEF m
\* Of equal operators the first one is taken.
TakesFirst(t, e, i) == CanTake(t, e, i) /\ \A j \in 1 .. i - 1 : e.rest[j] # e.rest[i]

\* The order p ends with the i-th operator that is left, or goes on after it.
GoesVia(t, l, e, i, p) ==
  IF t.succ[<<Top(e.path), e.rest[i]>>] \in t.goal
  THEN p = Append(l, e.rest[i])
  ELSE Comes(t, Append(l, e.rest[i]), Remove(e.rest, i), p)

LEMMA ComesOn ==
  ASSUME NEW t \in Tasks, NEW b, NEW E, NEW l, NEW e, Stands(t, b, E, l, e),
         NEW q, NEW p, AnOrder(t, q, p), Comes(t, l, e.rest, p)
  PROVE  \E i \in 1 .. Len(e.rest) : TakesFirst(t, e, i) /\ GoesVia(t, l, e, i, p)
<1> DEFINE m == Len(l)
           n == Len(p)
           r == e.rest
           x == e.path
           ops == t.ops
           states == t.states
<1>1. IsRun(t, l, x) /\ r \in Seq(ops)
  BY DEF Stands
<1>2. PICK path : /\ IsRun(t, p, path)
                  /\ \A i \in 1 .. Len(path) : path[i] \in t.goal <=> i = Len(path)
  BY DEF AnOrder
<1>3. /\ l \in Seq(ops) /\ m \in Nat /\ x \in Seq(states) /\ Len(x) = m + 1
      /\ p \in Seq(ops) /\ n \in Nat /\ Len(path) = n + 1
  BY <1>1, <1>2 DEF IsRun
<1>4. /\ \A i \in 1 .. m : l[i] = p[i]
      /\ m < n /\ Fits(t, p, m, r)
  BY DEF Comes, Begins
<1>5. \A i \in 1 .. m + 1 : x[i] = path[i]
  <2> HIDE DEF x
  <2>1. m <= n
    BY <1>3, <1>4
  <2>2. QED
    BY <1>1, <1>2, <1>4, <2>1, SameStart
<1>6. PICK i \in 1 .. Len(r) : r[i] = p[m + 1] /\ \A j \in 1 .. i - 1 : r[j] # r[i]
  <2> HIDE DEF r, m, n
  <2>1. m < Len(p)
    BY <1>4 DEF n
  <2>2. QED
    BY <1>1, <1>3, <1>4, <2>1, FitsHere DEF ops
<1> DEFINE y == <<Top(x), r[i]>>
           s == t.succ[y]
<1>7. Top(x) = path[m + 1]
  BY <1>3, <1>5 DEF Top
<1>8. y \in DOMAIN t.succ /\ s = path[m + 1 + 1]
  <2>1. m + 1 \in 1 .. n
    BY <1>3, <1>4
  <2>2. <<path[m + 1], p[m + 1]>> \in DOMAIN t.succ
        /\ path[m + 1 + 1] = t.succ[<<path[m + 1], p[m + 1]>>]
    BY <1>2, <2>1 DEF IsRun, n
  <2>3. y = <<path[m + 1], p[m + 1]>>
    BY <1>6, <1>7
  <2> HIDE DEF y
  <2>4. QED
    BY <2>2, <2>3
<1> HIDE DEF y
<1>9. s \notin InRange(x)
  <2> SUFFICES ASSUME NEW k \in 1 .. Len(x), x[k] = s
               PROVE  FALSE
    <3> HIDE DEF s, x, states
    <3>1. QED
      BY <1>3, ElementsOf
  <2>1. k \in 1 .. m + 1 /\ k \in 1 .. n + 1 /\ m + 1 + 1 \in 1 .. n + 1
    BY <1>3, <1>4
  <2>2. path[k] = path[m + 1 + 1]
    BY <1>5, <1>8, <2>1
  <2>3. k = m + 1 + 1
    BY <1>2, <1>3, <2>1, <2>2 DEF IsRun
  <2>4. QED
    BY <1>3, <2>1, <2>3
<1>10. s \in t.goal <=> m + 1 = n
  <2>1. m + 1 + 1 \in 1 .. Len(path)
    BY <1>3, <1>4
  <2>2. s \in t.goal <=> m + 1 + 1 = Len(path)
    BY <1>2, <1>8, <2>1
  <2>3. m + 1 + 1 = Len(path) <=> m + 1 = n
    BY <1>3
  <2>4. QED
    BY <2>2, <2>3
<1> DEFINE o == r[i]
           a == Append(l, o)
<1>11. /\ a \in Seq(ops) /\ Len(a) = m + 1
       /\ \A j \in 1 .. m + 1 : a[j] = p[j]
  <2>1. o \in ops
    <3> HIDE DEF r, ops
    <3>1. QED
      BY <1>1, <1>6
  <2> HIDE DEF o, ops
  <2>2. /\ a \in Seq(ops) /\ Len(a) = m + 1
        /\ \A j \in 1 .. m : a[j] = l[j]
        /\ a[m + 1] = o
    BY <1>3, <2>1, AppendIs
  <2>3. \A j \in 1 .. m + 1 : j \in 1 .. m \/ j = m + 1
    BY <1>3
  <2>4. o = p[m + 1]
    BY <1>6 DEF o
  <2> HIDE DEF a
  <2>5. QED
    BY <1>4, <2>2, <2>3, <2>4
<1>12. TakesFirst(t, e, i)
  BY <1>6, <1>8, <1>9 DEF TakesFirst, CanTake, y
<1>13. CASE s \in t.goal
  <2>1. m + 1 = n
    BY <1>10, <1>13
  <2>2. p = a
    <3> HIDE DEF a, ops
    <3>1. QED
      BY <1>3, <1>11, <2>1, SeqEqual
  <2>3. GoesVia(t, l, e, i, p)
    BY <1>13, <2>2 DEF GoesVia, y
  <2>4. QED
    BY <1>12, <2>3
<1>14. CASE s \notin t.goal
  <2>1. m + 1 < n
    BY <1>3, <1>4, <1>10, <1>14
  <2>2. Fits(t, p, m + 1, Remove(r, i))
    <3>1. m < Len(p) /\ r[i] = p[m + 1]
      BY <1>4, <1>6
    <3> HIDE DEF r, m
    <3>2. QED
      BY <1>1, <1>3, <1>4, <3>1, FitsOn DEF ops
  <2>3. Begins(a, p)
    <3> HIDE DEF a
    <3>1. QED
      BY <1>11, <2>1, <1>3 DEF Begins
  <2>4. Comes(t, a, Remove(r, i), p)
    <3> HIDE DEF a
    <3>1. QED
      BY <1>11, <2>1, <2>2, <2>3 DEF Comes
  <2>5. GoesVia(t, l, e, i, p)
    BY <1>14, <2>4 DEF GoesVia, y
  <2>6. QED
    BY <1>12, <2>5
<1>15. QED
  BY <1>13, <1>14

\* Which sequences begin with which.
LEMMA LongerBegins ==
  ASSUME NEW S, NEW l \in Seq(S), NEW o \in S
  PROVE  /\ \A x : Begins(Append(l, o), x) => Begins(l, x)
         /\ \A x \in Seq(S) : Begins(x, Append(l, o)) => Begins(x, l) \/ x = Append(l, o)
         /\ \A m \in S : Begins(Append(l, o), Append(l, m)) => o = m
         /\ Begins(l, Append(l, o)) /\ Begins(l, l)
<1> DEFINE a == Append(l, o)
           n == Len(l)
<1>1. /\ a \in Seq(S) /\ Len(a) = n + 1 /\ a[n + 1] = o /\ \A i \in 1 .. n : a[i] = l[i]
      /\ n \in Nat
  BY AppendIs
<1> HIDE DEF a
<1>2. ASSUME NEW x, Begins(a, x)
      PROVE  Begins(l, x)
  <2>1. n + 1 <= Len(x) /\ \A i \in 1 .. n + 1 : a[i] = x[i]
    BY <1>1, <1>2 DEF Begins
  <2>2. CASE n <= Len(x)
    <3>1. \A i \in 1 .. n : i \in 1 .. n + 1
      BY <1>1
    <3>2. QED
      BY <1>1, <2>1, <2>2, <3>1 DEF Begins
  <2>3. QED
    BY <1>1, <2>1, <2>2
<1>3. ASSUME NEW x \in Seq(S), Begins(x, a)
      PROVE  Begins(x, l) \/ x = a
  <2>1. Len(x) \in Nat /\ Len(x) <= n + 1 /\ \A i \in 1 .. Len(x) : x[i] = a[i]
    BY <1>1, <1>3 DEF Begins
  <2>2. CASE Len(x) = n + 1
    BY <1>1, <2>1, <2>2, SeqEqual
  <2>3. CASE Len(x) # n + 1
    <3>1. Len(x) <= n /\ \A i \in 1 .. Len(x) : i \in 1 .. n
      BY <1>1, <2>1, <2>3
    <3>2. QED
      BY <1>1, <2>1, <3>1 DEF Begins
  <2>4. QED
    BY <2>2, <2>3
<1>4. ASSUME NEW m \in S, Begins(a, Append(l, m))
      PROVE  o = m
  <2> DEFINE c == Append(l, m)
  <2>1. c[n + 1] = m
    BY AppendIs
  <2> HIDE DEF c
  <2>2. n + 1 \in 1 .. Len(a)
    BY <1>1
  <2>3. a[n + 1] = c[n + 1]
    BY <1>4, <2>2 DEF Begins, c
  <2>4. QED
    BY <1>1, <2>1, <2>3
<1>5. Begins(l, a) /\ Begins(l, l)
  BY <1>1 DEF Begins
<1>6. QED
  BY <1>2, <1>3, <1>4, <1>5 DEF a

\* What a stack holds after its top has been replaced.
PushedOn(q, n, f, r) ==
  /\ DOMAIN q = 1 .. Len(q) /\ Len(q) - 1 \in Nat
  /\ DOMAIN r = 1 .. (Len(q) - 1) + n
  /\ \A k \in 1 .. Len(q) - 1 : r[k] = q[k]
  /\ \A j \in 1 .. n : r[(Len(q) - 1) + j] = f[j]

LEMMA PushedAt ==
  ASSUME NEW S, NEW q \in Seq(S), q # <<>>, NEW n \in Nat, NEW f, f = [j \in 1 .. n |-> f[j]]
  PROVE  PushedOn(q, n, f, Pop(q) \o f)
<1> DEFINE T == S \cup {f[j] : j \in 1 .. n}
           m == Len(q) - 1
           p == Pop(q)
           r == p \o f
<1>1. q \in Seq(T) /\ f \in [1 .. n -> T]
  <2>1. f \in [1 .. n -> T]
    OBVIOUS
  <2>2. q \in Seq(T)
    <3>1. S \subseteq T
      OBVIOUS
    <3> HIDE DEF T
    <3>2. QED
      BY <3>1
  <2>3. QED
    BY <2>1, <2>2
<1> HIDE DEF T
<1>2. /\ Len(q) \in Nat /\ Len(q) # 0 /\ DOMAIN q = 1 .. Len(q) /\ m \in Nat
      /\ Len(q) = m + 1 /\ m \in 0 .. Len(q)
  BY <1>1
<1>3. p \in Seq(T) /\ Len(p) = m /\ \A j \in 1 .. m : p[j] = q[j]
  BY <1>1, <1>2, Beginning DEF Pop
<1>4. f \in Seq(T) /\ Len(f) = n
  BY <1>1
<1> HIDE DEF p, m
<1>5. /\ r \in Seq(T) /\ Len(r) = m + n
      /\ \A k \in 1 .. m + n : r[k] = IF k <= m THEN p[k] ELSE f[k - m]
  BY <1>2, <1>3, <1>4
<1> HIDE DEF r
<1>6. DOMAIN r = 1 .. m + n
  BY <1>5
<1>7. ASSUME NEW k \in 1 .. m
      PROVE  r[k] = q[k]
  <2>1. k \in 1 .. m + n /\ k <= m
    BY <1>2
  <2>2. QED
    BY <1>3, <1>5, <2>1
<1>8. ASSUME NEW j \in 1 .. n
      PROVE  r[m + j] = f[j]
  <2>1. m + j \in 1 .. m + n /\ ~ (m + j <= m) /\ (m + j) - m = j
    BY <1>2
  <2> DEFINE k == m + j
  <2>2. k \in 1 .. m + n /\ ~ (k <= m) /\ k - m = j
    BY <2>1
  <2>3. r[k] = f[j]
    <3> HIDE DEF k
    <3>1. r[k] = IF k <= m THEN p[k] ELSE f[k - m]
      BY <1>5, <2>2
    <3>2. r[k] = f[k - m]
      BY <2>2, <3>1
    <3>3. QED
      BY <2>2, <3>2
  <2>4. QED
    BY <2>3
<1>9. PushedOn(q, n, f, r)
  BY <1>2, <1>6, <1>7, <1>8 DEF PushedOn, m
<1>10. QED
  BY <1>9 DEF r, p

\* The operators of a child.
Onward(l, e, i) == Append(l, e.rest[i])

\* The moves M of the top of the stack q; r has its children instead.
Expanded(t, F, q, m, M, c, order, r) ==
  /\ m \in Nat /\ DOMAIN q = 1 .. m + 1 /\ c \in Nat /\ IsFiniteSet(M)
  /\ \A i \in M : /\ i \in Nat /\ TakesFirst(t, q[m + 1], i)
                  /\ <<Top(q[m + 1].path), q[m + 1].rest[i]>> \in F
  /\ \A i \in 1 .. Len(q[m + 1].rest) : TakesFirst(t, q[m + 1], i) => i \in M
  /\ \A j \in 1 .. c : order[j] \in M
  /\ \A j, k \in 1 .. c : order[j] = order[k] => j = k
  /\ \A i \in M : (\E j \in 1 .. c : order[j] = i)
                    <=> t.succ[<<Top(q[m + 1].path), q[m + 1].rest[i]>>] \notin t.goal
  /\ DOMAIN r = 1 .. m + c
  /\ \A k \in 1 .. m : r[k] = q[k]
  /\ \A j \in 1 .. c : r[m + j] = After(t, q[m + 1], order[j])

\* The moves that reach a goal.
Final(t, e, M) == {i \in M : t.succ[<<Top(e.path), e.rest[i]>>] \in t.goal}

\* The labels of r, and the plans found with those that reach a goal.
Labels2(L, m, c, order, e) ==
  [k \in 1 .. m + c |-> IF k <= m THEN L[k] ELSE Onward(L[m + 1], e, order[k - m])]

Found2(P, l, e, G) == P \cup {Onward(l, e, i) : i \in G}

\* The children by the moves M begin unlike each other, the entries and the plans.
BeginApart(L, P, m, M, l, e) ==
  /\ \A i \in M : /\ \A k \in 1 .. m : /\ ~ Begins(L[k], Onward(l, e, i))
                                       /\ ~ Begins(Onward(l, e, i), L[k])
                  /\ \A p \in P : ~ Begins(p, Onward(l, e, i)) /\ ~ Begins(Onward(l, e, i), p)
                  /\ Begins(Onward(l, e, i), Onward(l, e, i))
  /\ \A i, j \in M : Begins(Onward(l, e, i), Onward(l, e, j)) => i = j

LEMMA ChildrenApart ==
  ASSUME NEW t \in Tasks, NEW b, NEW E, NEW q, NEW m \in Nat, DOMAIN q = 1 .. m + 1,
         NEW L, NEW P, Labelled(t, b, E, q, L), Apart(L, P),
         \A p \in P : p \in Seq(t.ops),
         NEW M, \A i \in M : i \in Nat /\ TakesFirst(t, q[m + 1], i)
  PROVE  BeginApart(L, P, m, M, L[m + 1], q[m + 1])
<1> DEFINE l == L[m + 1]
           e == q[m + 1]
           r == e.rest
           ops == t.ops
           N(i) == Onward(l, e, i)
<1>1. m + 1 \in DOMAIN q /\ DOMAIN L = DOMAIN q /\ \A k \in 1 .. m : k \in DOMAIN q /\ k # m + 1
  BY DEF Labelled
<1>2. \A k \in DOMAIN q : L[k] \in Seq(ops)
  BY DEF Labelled, Stands, IsRun
<1>3. l \in Seq(ops) /\ r \in Seq(ops)
  <2>1. Stands(t, b, E, l, e)
    BY <1>1 DEF Labelled
  <2>2. QED
    BY <2>1 DEF Stands, IsRun
<1>4. ASSUME NEW i \in M
      PROVE  r[i] \in ops /\ N(i) = Append(l, r[i]) /\ \A j \in 1 .. i - 1 : r[j] # r[i]
  <2>1. i \in 1 .. Len(r) /\ \A j \in 1 .. i - 1 : r[j] # r[i]
    BY DEF TakesFirst, CanTake
  <2>2. r[i] \in ops
    <3> HIDE DEF r, ops
    <3>1. QED
      BY <1>3, <2>1
  <2>3. QED
    BY <2>1, <2>2 DEF Onward
<1>5. /\ \A k, j \in DOMAIN q : Begins(L[k], L[j]) => k = j
      /\ \A k \in DOMAIN q, p \in P : ~ Begins(L[k], p) /\ ~ Begins(p, L[k])
  BY <1>1 DEF Apart
<1> HIDE DEF N
<1>6. ASSUME NEW i \in M
      PROVE  /\ \A x : Begins(N(i), x) => Begins(l, x)
             /\ \A x \in Seq(ops) : Begins(x, N(i)) => Begins(x, l) \/ x = N(i)
             /\ \A o \in ops : Begins(N(i), Append(l, o)) => r[i] = o
             /\ Begins(l, N(i)) /\ Begins(N(i), N(i))
  <2> DEFINE o == r[i]
             a == Append(l, o)
  <2>1. N(i) = a /\ o \in ops
    BY <1>4
  <2> HIDE DEF o, l, r, ops
  <2>2. /\ \A x : Begins(a, x) => Begins(l, x)
        /\ \A x \in Seq(ops) : Begins(x, a) => Begins(x, l) \/ x = a
        /\ \A y \in ops : Begins(a, Append(l, y)) => o = y
        /\ Begins(l, a)
    BY <1>3, <2>1, LongerBegins
  <2>3. a \in Seq(ops)
    BY <1>3, <2>1, AppendIs
  <2>4. Begins(a, a)
    <3> HIDE DEF a
    <3>1. QED
      BY <2>3 DEF Begins
  <2>5. QED
    BY <2>1, <2>2, <2>4 DEF o
<1>7. ASSUME NEW i \in M, NEW k \in 1 .. m
      PROVE  ~ Begins(L[k], N(i)) /\ ~ Begins(N(i), L[k])
  <2>1. L[k] \in Seq(ops) /\ k \in DOMAIN q /\ k # m + 1
    BY <1>1, <1>2
  <2>2. ~ Begins(L[k], l) /\ ~ Begins(l, L[k])
    BY <1>1, <1>5, <2>1
  <2>3. QED
    BY <1>6, <2>1, <2>2
<1>8. ASSUME NEW i \in M, NEW p \in P
      PROVE  ~ Begins(p, N(i)) /\ ~ Begins(N(i), p)
  <2>1. ~ Begins(p, l) /\ ~ Begins(l, p) /\ p \in Seq(ops)
    BY <1>1, <1>5
  <2>2. QED
    BY <1>6, <2>1
<1>9. ASSUME NEW i \in M, NEW j \in M, Begins(N(i), N(j))
      PROVE  i = j
  <2>1. r[i] = r[j]
    <3> DEFINE o == r[j]
    <3>1. o \in ops /\ N(j) = Append(l, o)
      BY <1>4
    <3> HIDE DEF o
    <3>2. r[i] = o
      BY <1>6, <1>9, <3>1
    <3>3. QED
      BY <3>2 DEF o
  <2>2. i \in 1 .. Len(r) /\ j \in 1 .. Len(r) /\ i \in Nat /\ j \in Nat
    BY DEF TakesFirst, CanTake
  <2>3. ~ (j \in 1 .. i - 1) /\ ~ (i \in 1 .. j - 1)
    BY <1>4, <2>1
  <2> HIDE DEF r
  <2>4. 1 <= i /\ 1 <= j
    BY <2>2
  <2>5. QED
    BY <2>2, <2>3, <2>4
<1>10. BeginApart(L, P, m, M, l, e)
  BY <1>6, <1>7, <1>8, <1>9 DEF N, BeginApart
<1>11. QED
  BY <1>10

\* The children of the top are labelled, apart and cover what it covered.
LEMMA TopExpanded ==
  ASSUME NEW t \in Tasks, NEW b \in Nat, NEW E, NEW F, E \subseteq F, NEW p0,
         NEW h \in Potentials(t, b), h[t.init] = b,
         NEW q, NEW m, NEW M, NEW c, NEW order, NEW r,
         Expanded(t, F, q, m, M, c, order, r),
         NEW L, NEW P, NEW n \in Nat, Labelled(t, b, E, q, L), Apart(L, P),
         Remaining(t, p0, q, L, P), Counted(t, b, E, n, P)
  PROVE  LET G == Final(t, q[m + 1], M)
             K == Labels2(L, m, c, order, q[m + 1])
             N == Found2(P, L[m + 1], q[m + 1], G)
         IN  /\ Labelled(t, b, F, r, K) /\ Apart(K, N) /\ Remaining(t, p0, r, K, N)
             /\ Counted(t, b, F, n + Cardinality(G), N)
<1> DEFINE l == L[m + 1]
           e == q[m + 1]
           G == Final(t, e, M)
           K == Labels2(L, m, c, order, e)
           New(i) == Onward(l, e, i)
           N == P \cup {New(i) : i \in G}
<1>1. /\ m \in Nat /\ DOMAIN q = 1 .. m + 1 /\ c \in Nat /\ IsFiniteSet(M)
      /\ m + 1 \in DOMAIN q /\ DOMAIN L = DOMAIN q
      /\ \A k \in 1 .. m : k \in DOMAIN q
  BY DEF Expanded, Labelled
<1>2. ASSUME NEW i \in M
      PROVE  /\ i \in Nat /\ TakesFirst(t, e, i) /\ CanTake(t, e, i)
             /\ <<Top(e.path), e.rest[i]>> \in F
  BY DEF Expanded, TakesFirst
<1>3. /\ \A j \in 1 .. c : order[j] \in M
      /\ \A j, k \in 1 .. c : order[j] = order[k] => j = k
  BY DEF Expanded
<1>4. /\ \A i \in M : (\E j \in 1 .. c : order[j] = i) <=> i \notin G
      /\ \A i \in G : i \in M /\ t.succ[<<Top(e.path), e.rest[i]>>] \in t.goal
  BY DEF Expanded, Final
<1>5. /\ DOMAIN r = 1 .. m + c /\ \A k \in 1 .. m : r[k] = q[k]
      /\ \A j \in 1 .. c : r[m + j] = After(t, e, order[j])
  BY DEF Expanded
<1>6. /\ DOMAIN K = 1 .. m + c /\ \A k \in 1 .. m : K[k] = L[k]
      /\ \A j \in 1 .. c : K[m + j] = New(order[j])
  <2>1. \A k \in 1 .. m + c : K[k] = IF k <= m THEN L[k] ELSE New(order[k - m])
    BY DEF Labels2
  <2>2. DOMAIN K = 1 .. m + c
    BY DEF Labels2
  <2> HIDE DEF K, New
  <2>3. ASSUME NEW k \in 1 .. m
        PROVE  K[k] = L[k]
    <3>1. k \in 1 .. m + c /\ k <= m
      BY <1>1
    <3>2. QED
      BY <2>1, <3>1
  <2>4. ASSUME NEW j \in 1 .. c
        PROVE  K[m + j] = New(order[j])
    <3> DEFINE k == m + j
    <3>1. k \in 1 .. m + c /\ ~ (k <= m) /\ k - m = j
      BY <1>1
    <3>2. K[k] = New(order[j])
      <4> HIDE DEF k
      <4>1. K[k] = New(order[k - m])
        BY <2>1, <3>1
      <4>2. QED
        BY <3>1, <4>1
    <3>3. QED
      BY <3>2
  <2>5. QED
    BY <2>2, <2>3, <2>4
<1>7. /\ IsFiniteSet(P) /\ Cardinality(P) = n
      /\ \A p \in P : Follows(t, b, E, p)
  BY DEF Counted
<1>8. \A p \in P : p \in Seq(t.ops)
  BY <1>7 DEF Follows, IsRun
<1>9. /\ \A i \in M : /\ \A k \in 1 .. m : ~ Begins(L[k], New(i)) /\ ~ Begins(New(i), L[k])
                      /\ \A p \in P : ~ Begins(p, New(i)) /\ ~ Begins(New(i), p)
                      /\ Begins(New(i), New(i))
      /\ \A i, j \in M : Begins(New(i), New(j)) => i = j
  <2>1. \A i \in M : i \in Nat /\ TakesFirst(t, q[m + 1], i)
    BY <1>2
  <2>2. BeginApart(L, P, m, M, L[m + 1], q[m + 1])
    <3> HIDE DEF e, l, New, K, N, G
    <3>1. QED
      BY <1>1, <1>8, <2>1, ChildrenApart
  <2>3. BeginApart(L, P, m, M, l, e)
    BY <2>2
  <2> HIDE DEF e, l
  <2>4. QED
    BY <2>3 DEF BeginApart
<1>10. /\ \A k, j \in DOMAIN q : Begins(L[k], L[j]) => k = j
       /\ \A k \in DOMAIN q, p \in P : ~ Begins(L[k], p) /\ ~ Begins(p, L[k])
  BY <1>1 DEF Apart
\* An entry of the new stack is an old one or a child.
<1>11. ASSUME NEW k \in 1 .. m + c
       PROVE  k \in 1 .. m \/ \E j \in 1 .. c : k = m + j
  <2>1. CASE k <= m
    BY <1>1, <2>1
  <2>2. CASE ~ (k <= m)
    <3>1. k - m \in 1 .. c /\ k = m + (k - m)
      BY <1>1, <2>2
    <3>2. QED
      BY <3>1
  <2>3. QED
    BY <2>1, <2>2
<1> HIDE DEF l, e, G, K, New
<1>12. Labelled(t, b, F, r, K)
  <2>1. ASSUME NEW k \in 1 .. m
        PROVE  Stands(t, b, F, K[k], r[k])
    <3>1. Stands(t, b, E, L[k], q[k])
      BY <1>1 DEF Labelled
    <3>2. K[k] = L[k] /\ r[k] = q[k]
      BY <1>5, <1>6
    <3>3. QED
      BY <3>1, <3>2 DEF Stands
  <2>2. ASSUME NEW j \in 1 .. c
        PROVE  Stands(t, b, F, K[m + j], r[m + j])
    <3> DEFINE i == order[j]
    <3>1. i \in M
      BY <1>3
    <3>2. CanTake(t, e, i) /\ <<Top(e.path), e.rest[i]>> \in F
      BY <1>2, <3>1
    <3>3. Stands(t, b, E, l, e)
      BY <1>1 DEF Labelled, l, e
    <3>4. K[m + j] = Append(l, e.rest[i]) /\ r[m + j] = After(t, e, i)
      BY <1>5, <1>6 DEF New, Onward
    <3> HIDE DEF i
    <3>5. QED
      BY <3>2, <3>3, <3>4, StandsOn
  <2>3. ASSUME NEW k \in DOMAIN r
        PROVE  Stands(t, b, F, K[k], r[k])
    <3>1. k \in 1 .. m \/ \E j \in 1 .. c : k = m + j
      BY <1>5, <1>11
    <3>2. QED
      BY <2>1, <2>2, <3>1
  <2>4. QED
    BY <1>5, <1>6, <2>3 DEF Labelled
<1>13. Apart(K, N)
  <2>1. ASSUME NEW k \in 1 .. m + c, NEW j \in 1 .. m + c, Begins(K[k], K[j])
        PROVE  k = j
    <3>1. CASE k \in 1 .. m /\ j \in 1 .. m
      BY <1>1, <1>6, <1>10, <2>1, <3>1
    <3>2. CASE k \in 1 .. m /\ \E x \in 1 .. c : j = m + x
      <4>1. PICK x \in 1 .. c : j = m + x
        BY <3>2
      <4>2. K[k] = L[k] /\ K[j] = New(order[x]) /\ order[x] \in M
        BY <1>3, <1>6, <3>2, <4>1
      <4>3. QED
        BY <1>9, <2>1, <3>2, <4>2
    <3>3. CASE j \in 1 .. m /\ \E x \in 1 .. c : k = m + x
      <4>1. PICK x \in 1 .. c : k = m + x
        BY <3>3
      <4>2. K[j] = L[j] /\ K[k] = New(order[x]) /\ order[x] \in M
        BY <1>3, <1>6, <3>3, <4>1
      <4>3. QED
        BY <1>9, <2>1, <3>3, <4>2
    <3>4. CASE (\E x \in 1 .. c : k = m + x) /\ (\E x \in 1 .. c : j = m + x)
      <4>1. PICK x \in 1 .. c : k = m + x
        BY <3>4
      <4>2. PICK y \in 1 .. c : j = m + y
        BY <3>4
      <4>3. /\ K[k] = New(order[x]) /\ order[x] \in M
            /\ K[j] = New(order[y]) /\ order[y] \in M
        BY <1>3, <1>6, <4>1, <4>2
      <4>4. order[x] = order[y]
        BY <1>9, <2>1, <4>3
      <4>5. x = y
        BY <1>3, <4>4
      <4>6. QED
        BY <4>1, <4>2, <4>5
    <3>5. QED
      BY <1>11, <3>1, <3>2, <3>3, <3>4
  <2>2. ASSUME NEW k \in 1 .. m + c, NEW p \in N
        PROVE  ~ Begins(K[k], p) /\ ~ Begins(p, K[k])
    <3>1. CASE k \in 1 .. m /\ p \in P
      BY <1>1, <1>6, <1>10, <3>1
    <3>2. CASE k \in 1 .. m /\ p \notin P
      <4>1. PICK i \in G : p = New(i)
        BY <3>2
      <4>2. QED
        BY <1>4, <1>6, <1>9, <3>2, <4>1
    <3>3. CASE (\E x \in 1 .. c : k = m + x) /\ p \in P
      <4>1. PICK x \in 1 .. c : k = m + x
        BY <3>3
      <4>2. K[k] = New(order[x]) /\ order[x] \in M
        BY <1>3, <1>6, <4>1
      <4>3. QED
        BY <1>9, <3>3, <4>2
    <3>4. CASE (\E x \in 1 .. c : k = m + x) /\ p \notin P
      <4>1. PICK x \in 1 .. c : k = m + x
        BY <3>4
      <4>2. K[k] = New(order[x]) /\ order[x] \in M
        BY <1>3, <1>6, <4>1
      <4>3. PICK i \in G : p = New(i)
        BY <3>4
      <4>4. i \in M /\ order[x] # i
        BY <1>4, <4>2
      <4>5. QED
        BY <1>9, <4>2, <4>3, <4>4
    <3>5. QED
      BY <1>11, <3>1, <3>2, <3>3, <3>4
  <2> HIDE DEF N
  <2>3. QED
    BY <1>6, <2>1, <2>2 DEF Apart
<1>14. Remaining(t, p0, r, K, N)
  <2> SUFFICES ASSUME NEW p, AnOrder(t, p0, p), p \notin N
               PROVE  \E k \in DOMAIN r : Comes(t, K[k], r[k].rest, p)
    <3> HIDE DEF N
    <3>1. QED
      BY DEF Remaining
  <2>1. p \notin P
    OBVIOUS
  <2>2. PICK k \in DOMAIN q : Comes(t, L[k], q[k].rest, p)
    BY <2>1 DEF Remaining
  <2>3. CASE k \in 1 .. m
    <3>1. k \in DOMAIN r /\ K[k] = L[k] /\ r[k] = q[k]
      BY <1>1, <1>5, <1>6, <2>3
    <3>2. QED
      BY <2>2, <3>1
  <2>4. CASE k \notin 1 .. m
    <3>1. k = m + 1
      BY <1>1, <2>4
    <3>2. Stands(t, b, E, l, e) /\ Comes(t, l, e.rest, p)
      BY <1>1, <2>2, <3>1 DEF Labelled, l, e
    <3>3. PICK i \in 1 .. Len(e.rest) : TakesFirst(t, e, i) /\ GoesVia(t, l, e, i, p)
      BY <3>2, ComesOn
    <3>4. i \in M
      BY <3>3 DEF Expanded, e
    <3>5. i \notin G
      <4> SUFFICES ASSUME i \in G PROVE FALSE
        OBVIOUS
      <4>1. p = New(i)
        BY <1>4, <3>3 DEF GoesVia, New, Onward
      <4>2. QED
        BY <4>1
    <3>6. PICK j \in 1 .. c : order[j] = i
      BY <1>4, <3>4, <3>5
    <3>7. Comes(t, New(i), Remove(e.rest, i), p)
      <4>1. t.succ[<<Top(e.path), e.rest[i]>>] \notin t.goal
        BY <3>4, <3>5 DEF G, Final
      <4>2. QED
        BY <3>3, <4>1 DEF GoesVia, New, Onward
    <3>8. K[m + j] = New(i) /\ r[m + j].rest = Remove(e.rest, i) /\ m + j \in DOMAIN r
      <4>1. K[m + j] = New(i) /\ r[m + j] = After(t, e, i)
        BY <1>5, <1>6, <3>6
      <4>2. After(t, e, i).rest = Remove(e.rest, i)
        BY DEF After
      <4>3. m + j \in DOMAIN r
        BY <1>1, <1>5
      <4>4. QED
        BY <4>1, <4>2, <4>3
    <3> DEFINE x == m + j
    <3>9. x \in DOMAIN r /\ Comes(t, K[x], r[x].rest, p)
      BY <3>7, <3>8
    <3> HIDE DEF x
    <3>10. QED
      BY <3>9
  <2>5. QED
    BY <2>3, <2>4
<1>15. Counted(t, b, F, n + Cardinality(G), N)
  <2> DEFINE H == {New(i) : i \in G}
             f == [i \in G |-> New(i)]
  <2>1. G \in SUBSET M
    BY DEF G, Final
  <2>2. IsFiniteSet(G)
    BY <1>1, <2>1, FS_Subset
  <2>3. f \in Bijection(G, H)
    <3>1. f \in [G -> H]
      OBVIOUS
    <3>2. \A i, j \in G : f[i] = f[j] => i = j
      <4> SUFFICES ASSUME NEW i \in G, NEW j \in G, f[i] = f[j] PROVE i = j
        OBVIOUS
      <4>1. New(i) = New(j) /\ i \in M /\ j \in M
        BY <1>4
      <4>2. Begins(New(i), New(j))
        BY <1>9, <4>1
      <4>3. QED
        BY <1>9, <4>1, <4>2
    <3>3. \A x \in H : \E i \in G : f[i] = x
      OBVIOUS
    <3> HIDE DEF f, H
    <3>4. QED
      BY <3>1, <3>2, <3>3, Zenon DEF Bijection, Injection, Surjection, IsInjective
  <2>4. IsFiniteSet(H) /\ Cardinality(H) = Cardinality(G)
    <3> HIDE DEF f, H
    <3>1. ExistsBijection(G, H)
      BY <2>3 DEF ExistsBijection
    <3>2. QED
      BY <2>2, <3>1, FS_Bijection
  <2>5. P \cap H = {}
    <3> SUFFICES ASSUME NEW i \in G, New(i) \in P PROVE FALSE
      OBVIOUS
    <3>1. i \in M
      BY <1>4
    <3>2. QED
      BY <1>9, <3>1
  <2>6. IsFiniteSet(N) /\ Cardinality(N) = n + Cardinality(G)
    <3> DEFINE U == P \cup H
    <3>1. N = U
      OBVIOUS
    <3> HIDE DEF H
    <3>2. /\ IsFiniteSet(U)
          /\ Cardinality(U) = Cardinality(P) + Cardinality(H) - Cardinality(P \cap H)
      BY <1>7, <2>4, FS_Union
    <3>3. Cardinality(P \cap H) = 0
      BY <2>5, FS_EmptySet
    <3>4. Cardinality(G) \in Nat
      BY <2>2, FS_CardinalityType
    <3> HIDE DEF U, N
    <3>5. QED
      BY <1>7, <2>4, <3>1, <3>2, <3>3, <3>4
  <2>7. ASSUME NEW p \in N
        PROVE  Follows(t, b, F, p)
    <3>1. CASE p \in P
      <4>1. Follows(t, b, E, p)
        BY <1>7, <3>1
      <4>2. QED
        BY <4>1 DEF Follows
    <3>2. CASE p \notin P
      <4>1. PICK i \in G : p = New(i)
        BY <3>2
      <4>2. i \in M /\ t.succ[<<Top(e.path), e.rest[i]>>] \in t.goal
        BY <1>4
      <4>3. CanTake(t, e, i) /\ <<Top(e.path), e.rest[i]>> \in F
        BY <1>2, <4>2
      <4>4. Stands(t, b, E, l, e)
        BY <1>1 DEF Labelled, l, e
      <4>5. Follows(t, b, F, Append(l, e.rest[i]))
        BY <4>2, <4>3, <4>4, GoalReached
      <4>6. QED
        BY <4>1, <4>5 DEF New, Onward
    <3>3. QED
      BY <3>1, <3>2
  <2> HIDE DEF N
  <2>8. QED
    BY <2>6, <2>7 DEF Counted
<1>16. N = Found2(P, l, e, G)
  BY DEF Found2, New
<1>17. QED
  BY <1>12, <1>13, <1>14, <1>15, <1>16 DEF G, K, l, e

-----------------------------------------------------------------------------
(* The steps of the call.                                                  *)

\* Distances gd, where they are known, obey the edges along a path, or are tight.
Obeys(t, gd, p, path) ==
  \A i \in 1 .. Len(p) : gd[path[i + 1]] # -1 =>
    gd[path[i]] # -1 /\ gd[path[i]] <= gd[path[i + 1]] + t.cost[p[i]]

TightAlong(t, gd, p, path) ==
  \A i \in 1 .. Len(p) : /\ gd[path[i]] # -1 /\ gd[path[i + 1]] # -1
                         /\ gd[path[i]] = gd[path[i + 1]] + t.cost[p[i]]

\* Distances that are not below those of h.
Bounded(t, h, gd) == \A s \in t.states : gd[s] # -1 => h[s] <= gd[s]

\* A cheapest plan is tight along distances that obey its edges.
LEMMA RunIsTight ==
  ASSUME NEW t \in Tasks, NEW b \in Nat, NEW h \in Potentials(t, b), h[t.init] = b,
         NEW gd \in [t.states -> Nat \cup {-1}], Bounded(t, h, gd),
         NEW p, NEW path, IsRun(t, p, path), PlanCost(t, p) = b,
         gd[path[Len(path)]] = 0, Obeys(t, gd, p, path)
  PROVE  TightAlong(t, gd, p, path)
<1> DEFINE n == Len(p)
           x(i) == path[i + 1]
<1>0. /\ \A s \in t.states : gd[s] # -1 => h[s] <= gd[s]
      /\ \A i \in 1 .. Len(p) : gd[path[i + 1]] # -1 =>
           gd[path[i]] # -1 /\ gd[path[i]] <= gd[path[i + 1]] + t.cost[p[i]]
  BY DEF Bounded, Obeys
<1>1. /\ p \in Seq(t.ops) /\ n \in Nat /\ path \in Seq(t.states) /\ Len(path) = n + 1
      /\ path[1] = t.init
      /\ \A i \in 1 .. n : /\ <<path[i], p[i]>> \in DOMAIN t.succ
                           /\ path[i + 1] = t.succ[<<path[i], p[i]>>]
  BY DEF IsRun
<1>2. t.cost \in [t.ops -> Nat]
  BY TaskAssumption
<1>3. PICK c : IsSum(t, p, c)
  BY <1>1, <1>2, SumExists
<1>4. /\ c \in [0 .. n -> Nat] /\ c[0] = 0 /\ c[n] = b
      /\ \A i \in 1 .. n : c[i] = c[i - 1] + t.cost[p[i]]
  <2>1. /\ c \in [0 .. n -> Nat] /\ c[0] = 0
        /\ \A i \in 1 .. n : c[i] = c[i - 1] + t.cost[p[i]]
    BY <1>3 DEF IsSum
  <2>2. PlanCost(t, p) = c[n]
    BY <1>1, <1>2, <1>3, SumIsCost
  <2>3. QED
    BY <2>1, <2>2
<1>5. \A i \in 1 .. n : t.cost[p[i]] \in Nat
  <2>1. \A i \in 1 .. n : p[i] \in t.ops
    BY <1>1
  <2>2. QED
    BY <1>2, <2>1
<1>6. \A i \in 0 .. n : x(i) \in t.states
  <2> SUFFICES ASSUME NEW i \in 0 .. n PROVE path[i + 1] \in t.states
    OBVIOUS
  <2>1. i + 1 \in 1 .. Len(path)
    BY <1>1
  <2>2. QED
    BY <1>1, <2>1
<1>7. /\ h \in [t.states -> Nat]
      /\ \A e \in DOMAIN t.succ : h[e[1]] <= h[t.succ[e]] + t.cost[e[2]]
  <2>1. h \in [t.states -> 0 .. b]
    BY DEF Potentials
  <2>2. \A s \in t.states : h[s] \in Nat
    BY <2>1
  <2>3. h \in [t.states -> Nat]
    BY <2>1, <2>2
  <2>4. \A e \in DOMAIN t.succ : h[e[1]] <= h[t.succ[e]] + t.cost[e[2]]
    BY DEF Potentials
  <2>5. QED
    BY <2>3, <2>4
<1>8. ASSUME NEW i \in 1 .. n
      PROVE  h[x(i - 1)] <= h[x(i)] + t.cost[p[i]]
  <2> DEFINE y == <<path[i], p[i]>>
  <2>1. y \in DOMAIN t.succ /\ path[i + 1] = t.succ[y] /\ y[1] = path[i] /\ y[2] = p[i]
    BY <1>1
  <2> HIDE DEF y
  <2>2. h[path[i]] <= h[path[i + 1]] + t.cost[p[i]]
    BY <1>7, <2>1
  <2>3. i - 1 + 1 = i
    OBVIOUS
  <2>4. QED
    BY <2>2, <2>3
<1>9. ASSUME NEW i \in 1 .. n, gd[x(i)] # -1
      PROVE  gd[x(i - 1)] # -1 /\ gd[x(i - 1)] <= gd[x(i)] + t.cost[p[i]]
  <2>1. i - 1 + 1 = i
    OBVIOUS
  <2>2. QED
    BY <1>0, <1>9, <2>1
<1>10. x(0) = t.init /\ gd[x(n)] = 0
  BY <1>1
<1> HIDE DEF n, x
\* The distances that were found, from the goal backwards.
<1>11. \A i \in 0 .. n : gd[x(i)] # -1 /\ gd[x(i)] + c[i] <= b
  <2> DEFINE S == {i \in 0 .. n : gd[x(i)] # -1 /\ gd[x(i)] + c[i] <= b}
  <2>1. n \in S
    <3>1. n \in 0 .. n
      BY <1>1
    <3> DEFINE v == gd[x(n)]
               u == c[n]
    <3>2. v = 0 /\ u = b
      BY <1>4, <1>10
    <3>3. v # -1 /\ v + u <= b
      <4> HIDE DEF v, u
      <4>1. QED
        BY <3>2
    <3>4. QED
      BY <3>1, <3>3
  <2>2. ASSUME NEW i \in 1 .. n, i \in S
        PROVE  i - 1 \in S
    <3>1. i \in 0 .. n /\ i - 1 \in 0 .. n
      BY <1>1
    <3> DEFINE u == gd[x(i - 1)]
               v == gd[x(i)]
               w == t.cost[p[i]]
               y == c[i]
               z == c[i - 1]
    <3>2. v # -1 /\ v + y <= b
      BY <2>2
    <3>3. u # -1 /\ u <= v + w
      BY <1>9, <3>2
    <3>4. u \in Nat \cup {-1} /\ v \in Nat \cup {-1}
      BY <1>6, <3>1
    <3>5. w \in Nat /\ y = z + w /\ z \in Nat /\ y \in Nat
      BY <1>4, <1>5, <3>1
    <3>6. u + z <= b
      <4> HIDE DEF u, v, w, y, z
      <4>1. QED
        BY <3>2, <3>3, <3>4, <3>5
    <3>7. QED
      BY <3>1, <3>3, <3>6
  <2>3. \A i \in 0 .. n : i \in S
    <3>1. \A i \in 1 .. n : i \in S => i - 1 \in S
      BY <2>2
    <3> HIDE DEF S
    <3>2. QED
      BY <1>1, <2>1, <3>1, Downward
  <2>4. QED
    BY <2>3
\* The distances that none undercuts, from the initial state on.
<1>12. \A i \in 0 .. n : b <= h[x(i)] + c[i]
  <2> DEFINE S == {i \in 0 .. n : b <= h[x(i)] + c[i]}
  <2>1. 0 \in S
    <3>1. 0 \in 0 .. n
      BY <1>1
    <3> DEFINE v == h[x(0)]
               u == c[0]
    <3>2. v = b /\ u = 0
      BY <1>4, <1>10
    <3>3. b <= v + u
      <4> HIDE DEF v, u
      <4>1. QED
        BY <3>2
    <3>4. QED
      BY <3>1, <3>3
  <2>2. ASSUME NEW i \in 0 .. n - 1, i \in S
        PROVE  i + 1 \in S
    <3> DEFINE k == i + 1
    <3>1. k \in 1 .. n /\ k \in 0 .. n /\ k - 1 = i /\ i \in 0 .. n
      BY <1>1
    <3> HIDE DEF k
    <3> DEFINE u == h[x(i)]
               v == h[x(k)]
               w == t.cost[p[k]]
               y == c[k]
               z == c[i]
    <3>2. b <= u + z
      BY <2>2
    <3>3. u <= v + w
      BY <1>8, <3>1
    <3>4. u \in Nat /\ v \in Nat
      BY <1>6, <1>7, <3>1
    <3>5. w \in Nat /\ y = z + w /\ z \in Nat /\ y \in Nat
      BY <1>4, <1>5, <3>1
    <3>6. b <= v + y
      <4> HIDE DEF u, v, w, y, z
      <4>1. QED
        BY <3>2, <3>3, <3>4, <3>5
    <3>7. k \in S
      BY <3>1, <3>6
    <3>8. QED
      BY <3>7 DEF k
  <2>3. \A i \in 0 .. n : i \in S
    <3>1. \A i \in 0 .. n - 1 : i \in S => i + 1 \in S
      BY <2>2
    <3> HIDE DEF S
    <3>2. QED
      BY <1>1, <2>1, <3>1, Upward
  <2>4. QED
    BY <2>3
<1>13. ASSUME NEW i \in 0 .. n
       PROVE  gd[x(i)] # -1 /\ gd[x(i)] + c[i] = b /\ gd[x(i)] \in Nat
  <2> DEFINE u == h[x(i)]
             v == gd[x(i)]
             z == c[i]
  <2>1. v # -1 /\ v + z <= b /\ b <= u + z
    BY <1>11, <1>12
  <2>2. u <= v
    BY <1>0, <1>6, <2>1
  <2>3. u \in Nat /\ v \in Nat \cup {-1} /\ z \in Nat
    BY <1>4, <1>6, <1>7
  <2>4. v \in Nat
    <3> HIDE DEF u, v, z
    <3>1. QED
      BY <2>1, <2>3
  <2>5. v + z = b
    <3> HIDE DEF u, v, z
    <3>1. b \in Int /\ u \in Int /\ v \in Int /\ z \in Int
      BY <2>3, <2>4
    <3>2. b <= v + z /\ v + z <= b
      BY <2>1, <2>2, <3>1
    <3>3. QED
      BY <3>1, <3>2
  <2>6. QED
    BY <2>1, <2>4, <2>5
<1>14. ASSUME NEW i \in 1 .. n
       PROVE  /\ gd[path[i]] # -1 /\ gd[path[i + 1]] # -1
              /\ gd[path[i]] = gd[path[i + 1]] + t.cost[p[i]]
  <2>1. i \in 0 .. n /\ i - 1 \in 0 .. n /\ i - 1 + 1 = i
    BY <1>1
  <2> DEFINE u == gd[x(i - 1)]
             v == gd[x(i)]
             w == t.cost[p[i]]
             y == c[i]
             z == c[i - 1]
  <2>2. /\ u # -1 /\ u + z = b /\ u \in Nat
        /\ v # -1 /\ v + y = b /\ v \in Nat
    BY <1>13, <2>1
  <2>3. w \in Nat /\ y = z + w /\ z \in Nat /\ y \in Nat
    BY <1>4, <1>5, <2>1
  <2>4. u # -1 /\ v # -1 /\ u = v + w
    <3> HIDE DEF u, v, w, y, z
    <3>1. u + z = v + (z + w)
      BY <2>2, <2>3
    <3>2. u \in Int /\ v \in Int /\ w \in Int /\ z \in Int
      BY <2>2, <2>3
    <3>3. u = v + w
      BY <3>1, <3>2
    <3>4. QED
      BY <2>2, <3>3
  <2>5. x(i - 1) = path[i] /\ x(i) = path[i + 1]
    BY <2>1 DEF x
  <2>6. QED
    BY <2>4, <2>5
<1>15. QED
  BY <1>14 DEF n, TightAlong

\* Nothing is lost where the plans that were found stay.
LEMMA FoundStays ==
  ASSUME NEW t, NEW b, NEW E, NEW F, NEW p0, NEW n, NEW N,
         OrdersFound(t, b, E, p0, n, N),
         \A p : Follows(t, b, E, p) => Follows(t, b, F, p)
  PROVE  OrdersFound(t, b, F, p0, n, N)
<1>1. PICK P : /\ Counted(t, b, E, n, P)
               /\ n >= N \/ \A p : AnOrder(t, p0, p) => p \in P
  BY DEF OrdersFound
<1>2. Counted(t, b, F, n, P)
  BY <1>1 DEF Counted
<1>3. QED
  BY <1>1, <1>2 DEF OrdersFound

LEMMA MoreEdges ==
  ASSUME NEW t, NEW b, NEW E, NEW F, E \subseteq F, NEW p, Follows(t, b, E, p)
  PROVE  Follows(t, b, F, p)
BY DEF Follows

\* Steps of the rest of the call.
LEMMA OrdersKept ==
  ASSUME OrdersInv, UNCHANGED <<input, count_goal_states>>,
         pc # "reorder", pc' # "reorder", BeforeSearch' <=> BeforeSearch,
         \A p : Follows(task, best_plan_cost, edges, p)
                  => Follows(task, best_plan_cost, edges', p)
  PROVE  OrdersInv'
<1>1. /\ task' = task /\ plan' = plan /\ limit' = limit
      /\ count_goal_states' = count_goal_states
      /\ best_plan_cost' = best_plan_cost
  BY SameDistances DEF input
<1>2. CASE BeforeSearch
  BY <1>1, <1>2 DEF OrdersInv
<1>3. CASE ~ BeforeSearch
  <2>1. OrdersFound(task, best_plan_cost, edges, plan, count_goal_states, limit)
    BY <1>3 DEF OrdersInv
  <2>2. OrdersFound(task, best_plan_cost, edges', plan, count_goal_states, limit)
    BY <2>1, FoundStays
  <2>3. OrdersFound(task', best_plan_cost', edges', plan', count_goal_states', limit')
    BY <1>1, <2>2
  <2>4. QED
    BY <1>3, <2>3 DEF OrdersInv
<1>4. QED
  BY <1>2, <1>3

LEMMA ReorderFinds ==
  ASSUME Inv, OrdersInv, Reorder
  PROVE  OrdersInv'
<1> DEFINE node == Top(dfs_queue)
           s == Top(node.path)
           moves == Moves(node)
           next(i) == Successor(s, node.rest[i])
           inner == {i \in moves : next(i) \notin task.goal}
           c == Cardinality(inner)
           new == {<<s, node.rest[i]>> : i \in moves}
           states == task.states
           ops == task.ops
           S == [path : Seq(states), rest : Seq(ops)]
           q == dfs_queue
           m == Len(q) - 1
<1>1. /\ TypeInv /\ TypeOK /\ task \in Tasks
      /\ OrdersAhead(task, best_plan_cost, edges, plan, count_goal_states, dfs_queue)
      /\ count_goal_states \in Nat
  BY DEF Inv, TypeInv, TypeOK, OrdersInv, Reorder
<1>2. /\ pc = "reorder" /\ q # <<>> /\ edges' = edges \cup new
      /\ count_goal_states' = count_goal_states + Cardinality(moves \ inner)
      /\ UNCHANGED <<input, pc, goal_distance, init_distance, open, dump, symmetry>>
  BY DEF Reorder, AddEdges
<1>3. PICK order \in [1 .. c -> inner] :
        /\ InRange(order) = inner
        /\ \A j, k \in DOMAIN order : j < k => order[j] > order[k]
        /\ dfs_queue' = Pop(q) \o
             [j \in 1 .. c |-> [path |-> Append(node.path, next(order[j])),
                                rest |-> Remove(node.rest, order[j])]]
  BY DEF Reorder
<1>4. /\ q \in Seq(S) /\ task' = task /\ plan' = plan /\ limit' = limit
      /\ best_plan_cost' = best_plan_cost
  BY <1>1, <1>2, SameDistances DEF TypeInv, input
<1>5. node \in S
  <2>1. Len(q) \in DOMAIN q
    BY <1>2, <1>4
  <2>2. QED
    <3> HIDE DEF S
    <3>1. QED
      BY <1>4, <2>1 DEF Top
<1>6. /\ c \in Nat /\ IsFiniteSet(moves)
      /\ \A i \in moves : /\ i \in 1 .. Len(node.rest)
                          /\ <<s, node.rest[i]>> \in DOMAIN task.succ
  <2>1. inner \in SUBSET moves /\ moves \in SUBSET moves
    OBVIOUS
  <2> HIDE DEF inner, node
  <2>2. node \in [path : Seq(task.states), rest : Seq(task.ops)]
    BY <1>5
  <2>3. QED
    BY <1>1, <2>1, <2>2, MovesFacts
<1> DEFINE f == [j \in 1 .. c |-> [path |-> Append(node.path, next(order[j])),
                                   rest |-> Remove(node.rest, order[j])]]
           r == dfs_queue'
<1>7. /\ DOMAIN q = 1 .. Len(q) /\ m \in Nat /\ m + 1 = Len(q)
      /\ DOMAIN r = 1 .. m + c
      /\ \A k \in 1 .. m : r[k] = q[k]
      /\ \A j \in 1 .. c : r[m + j] = f[j]
  <2>1. f = [j \in 1 .. c |-> f[j]]
    OBVIOUS
  <2>2. r = Pop(q) \o f
    BY <1>3
  <2> HIDE DEF f, S, c
  <2>3. PushedOn(q, c, f, Pop(q) \o f)
    BY <1>2, <1>4, <1>6, <2>1, PushedAt
  <2>4. PushedOn(q, c, f, r)
    BY <2>2, <2>3
  <2>5. Len(q) \in Nat
    BY <1>4
  <2> HIDE DEF r, q
  <2>6. /\ DOMAIN q = 1 .. Len(q) /\ m \in Nat
        /\ DOMAIN r = 1 .. m + c
        /\ \A k \in 1 .. m : r[k] = q[k]
        /\ \A j \in 1 .. c : r[m + j] = f[j]
    BY <2>4 DEF PushedOn
  <2>7. m + 1 = Len(q)
    BY <2>5
  <2>8. QED
    BY <2>6, <2>7
<1>8. q[m + 1] = node
  BY <1>7 DEF Top
<1>9. ASSUME NEW j \in 1 .. c
      PROVE  f[j] = After(task, node, order[j])
  BY DEF After, Successor
<1>10. ASSUME NEW i
       PROVE  i \in moves <=> i \in 1 .. Len(node.rest) /\ TakesFirst(task, node, i)
  BY DEF Moves, TakesFirst, CanTake, Applicable, Successor
<1>11. /\ \A j \in 1 .. c : order[j] \in inner
       /\ \A i : i \in inner <=> \E j \in 1 .. c : order[j] = i
       /\ DOMAIN order = 1 .. c
  <2> HIDE DEF inner, c
  <2>1. DOMAIN order = 1 .. c /\ \A j \in 1 .. c : order[j] \in inner
    OBVIOUS
  <2>2. \A i : i \in inner <=> \E j \in 1 .. c : order[j] = i
    BY <1>3, <2>1 DEF InRange
  <2>3. QED
    BY <2>1, <2>2
<1>12. ASSUME NEW j \in 1 .. c, NEW k \in 1 .. c, order[j] = order[k]
       PROVE  j = k
  <2>1. order[j] \in Nat
    <3>1. order[j] \in moves
      BY <1>11
    <3>2. order[j] \in 1 .. Len(node.rest)
      BY <1>6, <3>1
    <3>3. QED
      BY <3>2
  <2>2. (j < k => order[j] > order[k]) /\ (k < j => order[k] > order[j])
    BY <1>3, <1>11
  <2> DEFINE v == order[j]
  <2>3. ~ (v > v) /\ order[k] = v
    <3>1. v \in Nat
      BY <2>1
    <3> HIDE DEF v
    <3>2. ~ (v > v)
      BY <3>1
    <3>3. QED
      BY <1>12, <3>2 DEF v
  <2>4. ~ (j < k) /\ ~ (k < j)
    BY <2>2, <2>3
  <2>5. QED
    BY <1>6, <2>4
<1>13. \A i \in moves : i \in inner <=> task.succ[<<Top(node.path), node.rest[i]>>] \notin task.goal
  BY DEF Successor
<1>14. \A i \in moves : <<s, node.rest[i]>> \in edges'
  BY <1>2
<1> DEFINE F == edges'
<1>15. Expanded(task, F, q, m, moves, c, order, r)
  <2> HIDE DEF q, node, moves, inner, c, f, r, m, F
  <2>1. /\ m \in Nat /\ DOMAIN q = 1 .. m + 1 /\ c \in Nat /\ IsFiniteSet(moves)
        /\ DOMAIN r = 1 .. m + c /\ \A k \in 1 .. m : r[k] = q[k]
    BY <1>6, <1>7
  <2>2. \A i \in moves : /\ i \in Nat /\ TakesFirst(task, node, i)
                         /\ <<Top(node.path), node.rest[i]>> \in F
    <3> SUFFICES ASSUME NEW i \in moves
                 PROVE  /\ i \in Nat /\ TakesFirst(task, node, i)
                        /\ <<Top(node.path), node.rest[i]>> \in F
      OBVIOUS
    <3>1. i \in 1 .. Len(node.rest)
      BY <1>6
    <3>2. i \in Nat
      BY <3>1
    <3>3. QED
      BY <1>10, <1>14, <3>2 DEF F
  <2>3. \A i \in 1 .. Len(node.rest) : TakesFirst(task, node, i) => i \in moves
    BY <1>10
  <2>4. \A j \in 1 .. c : order[j] \in moves
    BY <1>11 DEF inner
  <2>5. \A j, k \in 1 .. c : order[j] = order[k] => j = k
    BY <1>12
  <2>6. \A i \in moves : (\E j \in 1 .. c : order[j] = i)
                           <=> task.succ[<<Top(node.path), node.rest[i]>>] \notin task.goal
    BY <1>11, <1>13
  <2>7. \A j \in 1 .. c : r[m + j] = After(task, node, order[j])
    BY <1>7, <1>9
  <2>8. q[m + 1] = node
    BY <1>8
  <2>9. QED
    BY <2>1, <2>2, <2>3, <2>4, <2>5, <2>6, <2>7, <2>8 DEF Expanded
<1>16. moves \ inner = Final(task, q[m + 1], moves)
  <2> HIDE DEF node, moves, inner, m, q
  <2>1. \A i \in moves : i \notin inner <=> task.succ[<<Top(node.path), node.rest[i]>>] \in task.goal
    BY <1>13
  <2>2. QED
    BY <1>8, <2>1 DEF Final
<1>17. PICK P : /\ Counted(task, best_plan_cost, edges, count_goal_states, P)
                /\ Ahead(task, best_plan_cost, edges, plan, q, P)
  BY <1>1 DEF OrdersAhead
<1>18. PICK L : /\ Labelled(task, best_plan_cost, edges, q, L) /\ Apart(L, P)
                /\ Remaining(task, plan, q, L, P)
  BY <1>17 DEF Ahead
<1>19. PICK h \in Potentials(task, best_plan_cost) : h[task.init] = best_plan_cost
  BY <1>1, DistancesExist
<1>20. best_plan_cost \in Nat
  BY <1>1, DistancesExist
<1> DEFINE b == best_plan_cost
           n == count_goal_states
           G == Final(task, q[m + 1], moves)
           K == Labels2(L, m, c, order, q[m + 1])
           N == Found2(P, L[m + 1], q[m + 1], G)
<1>21. /\ Labelled(task, b, F, r, K) /\ Apart(K, N) /\ Remaining(task, plan, r, K, N)
       /\ Counted(task, b, F, n + Cardinality(G), N)
  <2>1. edges \subseteq F
    BY <1>2
  <2> HIDE DEF q, moves, c, r, m, F, b
  <2>2. b \in Nat /\ h \in Potentials(task, b) /\ h[task.init] = b
    BY <1>19, <1>20 DEF b
  <2>3. /\ Labelled(task, b, edges, q, L) /\ Apart(L, P) /\ Remaining(task, plan, q, L, P)
        /\ Counted(task, b, edges, n, P) /\ n \in Nat /\ task \in Tasks
    BY <1>1, <1>17, <1>18 DEF b
  <2>4. QED
    BY <1>15, <2>1, <2>2, <2>3, TopExpanded
<1>22. count_goal_states' = n + Cardinality(G)
  <2> HIDE DEF q, m, moves, inner
  <2>1. QED
    BY <1>2, <1>16
<1>23. OrdersAhead(task, b, F, plan, count_goal_states', r)
  <2> HIDE DEF K, N, G, F, r, b, n
  <2>1. Ahead(task, b, F, plan, r, N)
    BY <1>21 DEF Ahead
  <2>2. QED
    BY <1>21, <1>22, <2>1 DEF OrdersAhead
<1>24. /\ pc' = "reorder" /\ ~ BeforeSearch'
       /\ OrdersAhead(task', best_plan_cost', edges', plan', count_goal_states', dfs_queue')
  BY <1>2, <1>4, <1>23 DEF BeforeSearch
<1>25. QED
  BY <1>24 DEF OrdersInv

LEMMA ReorderingsBegin ==
  ASSUME Inv, OrdersInv, StartReorderings
  PROVE  OrdersInv'
<1> DEFINE e == [path |-> <<task.init>>, rest |-> plan]
           q == dfs_queue'
           L == <<<<>>>>
           b == best_plan_cost
           E == edges
<1>1. /\ TypeOK /\ task \in Tasks /\ plan \in PlansOf[task] /\ count_goal_states = 0
  BY DEF Inv, TypeInv, TypeOK, OrdersInv, StartReorderings, BeforeSearch
<1>2. /\ pc' = "reorder" /\ q = <<e>> /\ edges' = edges
      /\ task' = task /\ plan' = plan /\ count_goal_states' = count_goal_states
      /\ best_plan_cost' = best_plan_cost
  BY SameDistances DEF StartReorderings, input, graph
<1>3. DOMAIN q = {1} /\ q[1] = e /\ DOMAIN L = {1} /\ L[1] = <<>>
  <2>1. DOMAIN q = {1} /\ q[1] = e
    <3> HIDE DEF e, q
    <3>1. QED
      BY <1>2
  <2>2. QED
    BY <2>1
<1>4. e.path = <<task.init>> /\ e.rest = plan
  OBVIOUS
<1> HIDE DEF e, q, L
<1>5. Stands(task, b, E, <<>>, e)
  <2>1. IsRun(task, <<>>, <<task.init>>)
    BY <1>1, EmptyRun
  <2>2. plan \in Seq(task.ops)
    BY <1>1, PlanIsSound DEF PlanSteps
  <2>3. PlanCost(task, <<>>) = 0 /\ PlanCost(task, plan) = b /\ b \in Nat
    <3>1. task.cost \in [task.ops -> Nat]
      BY <1>1, TaskAssumption
    <3>2. QED
      BY <1>1, <3>1, CostOfEmpty, DistancesExist DEF best_plan_cost
  <2>4. \A i \in 1 .. Len(<<>>) : <<<<task.init>>[i], <<>>[i]>> \in E
    <3>1. Len(<<>>) = 0
      OBVIOUS
    <3>2. 1 .. Len(<<>>) = {}
      BY <3>1
    <3>3. QED
      BY <3>2
  <2>5. PlanCost(task, <<>>) + PlanCost(task, plan) = b
    <3> DEFINE u == PlanCost(task, <<>>)
               v == PlanCost(task, plan)
    <3>1. u = 0 /\ v = b /\ b \in Nat
      BY <2>3
    <3> HIDE DEF u, v, b
    <3>2. u + v = b
      BY <3>1
    <3>3. QED
      BY <3>2 DEF u, v
  <2> HIDE DEF b, E
  <2>6. QED
    BY <1>4, <2>1, <2>2, <2>4, <2>5 DEF Stands
<1>6. Labelled(task, b, E, q, L)
  BY <1>3, <1>5 DEF Labelled
<1>7. Apart(L, {})
  BY <1>3 DEF Apart
<1>8. Remaining(task, plan, q, L, {})
  <2> SUFFICES ASSUME NEW p, AnOrder(task, plan, p)
               PROVE  Comes(task, <<>>, plan, p)
    BY <1>3, <1>4 DEF Remaining
  <2>1. p \in Seq(task.ops) /\ p # <<>> /\ Fits(task, p, 0, plan)
    BY DEF AnOrder, IsRun
  <2>2. Len(<<>>) = 0 /\ 0 < Len(p)
    BY <2>1
  <2>3. Begins(<<>>, p)
    BY <2>1, <2>2 DEF Begins
  <2>4. QED
    BY <2>1, <2>2, <2>3 DEF Comes
<1>9. Counted(task, b, E, 0, {})
  BY FS_EmptySet DEF Counted
<1>10. OrdersAhead(task, b, E, plan, 0, q)
  <2> HIDE DEF b, E
  <2>1. Ahead(task, b, E, plan, q, {})
    BY <1>6, <1>7, <1>8 DEF Ahead
  <2>2. QED
    BY <1>9, <2>1 DEF OrdersAhead
<1>11. /\ ~ BeforeSearch'
       /\ OrdersAhead(task', best_plan_cost', edges', plan', count_goal_states', dfs_queue')
  BY <1>1, <1>2, <1>10 DEF BeforeSearch, q
<1>12. QED
  BY <1>2, <1>11 DEF OrdersInv

\* The stack is empty, or enough have been counted.
LEMMA OrdersAllFound ==
  ASSUME Inv, OrdersInv, StartBackward
  PROVE  OrdersInv'
<1>1. /\ pc = "reorder" /\ (dfs_queue = <<>> \/ count_goal_states >= limit)
      /\ pc' = "backward" /\ edges' = edges
      /\ task' = task /\ plan' = plan /\ limit' = limit
      /\ count_goal_states' = count_goal_states
      /\ best_plan_cost' = best_plan_cost
  BY SameDistances DEF StartBackward, input, graph
<1>2. PICK P : /\ Counted(task, best_plan_cost, edges, count_goal_states, P)
               /\ Ahead(task, best_plan_cost, edges, plan, dfs_queue, P)
  BY <1>1 DEF OrdersInv, OrdersAhead
<1>3. dfs_queue = <<>> => \A p : AnOrder(task, plan, p) => p \in P
  <2> SUFFICES ASSUME dfs_queue = <<>>, NEW p, AnOrder(task, plan, p)
               PROVE  p \in P
    OBVIOUS
  <2>1. PICK L : Remaining(task, plan, dfs_queue, L, P)
    BY <1>2 DEF Ahead
  <2>2. DOMAIN dfs_queue = {}
    OBVIOUS
  <2>3. QED
    BY <2>1, <2>2, Zenon DEF Remaining
<1>4. OrdersFound(task, best_plan_cost, edges, plan, count_goal_states, limit)
  BY <1>1, <1>2, <1>3 DEF OrdersFound
<1>5. OrdersFound(task', best_plan_cost', edges', plan', count_goal_states', limit')
  BY <1>1, <1>4
<1>6. ~ BeforeSearch' /\ pc' # "reorder"
  BY <1>1 DEF BeforeSearch
<1>7. QED
  BY <1>5, <1>6 DEF OrdersInv

LEMMA NonPlansFind ==
  ASSUME Inv, OrdersInv, RemoveNonPlans
  PROVE  OrdersInv'
<1> DEFINE gd == goal_distance
           b == best_plan_cost
<1>1. /\ TypeOK /\ IndexesAgree /\ Lower /\ Settling /\ task \in Tasks
      /\ gd \in [task.states -> Nat \cup {-1}]
  BY DEF Inv, TypeInv, TypeOK
<1>2. /\ pc = "backward" /\ open = {} /\ edges' = edges \ {e \in edges : ~ Tight(e)}
      /\ pc' = "start forward" /\ UNCHANGED <<input, count_goal_states>>
  BY DEF RemoveNonPlans, RemoveEdges
<1>3. PICK h \in Distances : h \in Potentials(task, b) /\ h[task.init] = b
  BY <1>1, DistancesExist
<1>4. b \in Nat
  BY <1>1, DistancesExist
<1>5. \A s \in task.states : gd[s] # -1 => h[s] <= gd[s]
  BY <1>1, <1>3 DEF Lower
<1>6. ASSUME NEW e \in edges, gd[task.succ[e]] # -1
      PROVE  gd[e[1]] # -1 /\ gd[e[1]] <= gd[task.succ[e]] + task.cost[e[2]]
  BY <1>1, <1>2, <1>6 DEF Settling
<1>7. ASSUME NEW p, Follows(task, b, edges, p)
      PROVE  Follows(task, b, edges', p)
  <2>1. PICK path : /\ IsRun(task, p, path) /\ path[Len(path)] \in task.goal
                    /\ \A i \in 1 .. Len(p) : <<path[i], p[i]>> \in edges
    BY <1>7 DEF Follows
  <2>2. PlanCost(task, p) = b
    BY <1>7 DEF Follows
  <2>3. ASSUME NEW i \in 1 .. Len(p)
        PROVE  <<path[i], p[i]>> \in edges /\ path[i + 1] = task.succ[<<path[i], p[i]>>]
    BY <2>1 DEF IsRun
  <2>4. Len(p) \in Nat /\ Len(path) = Len(p) + 1
    BY <2>1 DEF IsRun
  <2>5. CASE Len(p) = 0
    <3>1. \A i \in 1 .. Len(p) : <<path[i], p[i]>> \in edges'
      BY <2>5
    <3>2. QED
      BY <2>1, <2>2, <3>1 DEF Follows
  <2>6. CASE Len(p) # 0
    <3>1. gd[path[Len(path)]] = 0
      <4> DEFINE n == Len(p)
                 y == <<path[n], p[n]>>
      <4>1. n \in 1 .. Len(p) /\ Len(path) = n + 1
        BY <2>4, <2>6
      <4>2. y \in edges /\ path[n + 1] = task.succ[y]
        BY <2>3, <4>1
      <4> HIDE DEF y
      <4>3. path[Len(path)] \in nodes
        BY <1>1, <4>1, <4>2 DEF IndexesAgree
      <4>4. QED
        BY <1>1, <1>2, <2>1, <4>3 DEF Settling
    <3>2. ASSUME NEW i \in 1 .. Len(p), gd[path[i + 1]] # -1
          PROVE  gd[path[i]] # -1 /\ gd[path[i]] <= gd[path[i + 1]] + task.cost[p[i]]
      <4> DEFINE y == <<path[i], p[i]>>
      <4>1. y \in edges /\ path[i + 1] = task.succ[y] /\ y[1] = path[i] /\ y[2] = p[i]
        BY <2>3
      <4> HIDE DEF y
      <4>2. gd[y[1]] # -1 /\ gd[y[1]] <= gd[task.succ[y]] + task.cost[y[2]]
        BY <1>6, <3>2, <4>1
      <4>3. QED
        BY <4>1, <4>2
    <3>3. TightAlong(task, gd, p, path)
      <4>1. Obeys(task, gd, p, path)
        BY <3>2 DEF Obeys
      <4>2. Bounded(task, h, gd)
        BY <1>5 DEF Bounded
      <4> HIDE DEF gd, b
      <4>3. QED
        BY <1>1, <1>3, <1>4, <2>1, <2>2, <3>1, <4>1, <4>2, RunIsTight
    <3>4. ASSUME NEW i \in 1 .. Len(p)
          PROVE  <<path[i], p[i]>> \in edges'
      <4> DEFINE y == <<path[i], p[i]>>
      <4>1. y \in edges /\ path[i + 1] = task.succ[y] /\ y[1] = path[i] /\ y[2] = p[i]
        BY <2>3
      <4> HIDE DEF y
      <4>2. Tight(y)
        BY <3>3, <4>1 DEF Tight, TightAlong
      <4>3. y \in edges'
        BY <1>2, <4>1, <4>2
      <4>4. QED
        BY <4>3 DEF y
    <3>5. QED
      BY <2>1, <2>2, <3>4 DEF Follows
  <2>7. QED
    BY <2>5, <2>6
<1>8. pc # "reorder" /\ pc' # "reorder" /\ ~ BeforeSearch /\ ~ BeforeSearch'
  BY <1>2 DEF BeforeSearch
<1>9. QED
  BY <1>2, <1>7, <1>8, OrdersKept

LEMMA UnreachableFind ==
  ASSUME Inv, OrdersInv, RemoveInitUnreachable
  PROVE  OrdersInv'
<1> DEFINE b == best_plan_cost
           id == init_distance
<1>1. TypeOK /\ IndexesAgree /\ Reaching /\ task \in Tasks
  BY DEF Inv, TypeInv, TypeOK
<1>2. /\ pc = "forward" /\ open = {}
      /\ edges' = edges \ {e \in edges : e[1] \in {s \in nodes : id[s] = -1}}
      /\ pc' = "dump" /\ after' = "start symmetries"
      /\ UNCHANGED <<input, count_goal_states>>
  BY DEF RemoveInitUnreachable, RemoveEdges, StartDump
<1>3. id[task.init] # -1
  BY <1>1, <1>2 DEF Reaching
<1>4. ASSUME NEW e \in edges, id[e[1]] # -1
      PROVE  id[task.succ[e]] # -1
  BY <1>1, <1>2, <1>4 DEF Reaching
<1>5. ASSUME NEW p, Follows(task, b, edges, p)
      PROVE  Follows(task, b, edges', p)
  <2>1. PICK path : /\ IsRun(task, p, path) /\ path[Len(path)] \in task.goal
                    /\ \A i \in 1 .. Len(p) : <<path[i], p[i]>> \in edges
    BY <1>5 DEF Follows
  <2>2. PlanCost(task, p) = b
    BY <1>5 DEF Follows
  <2>3. ASSUME NEW i \in 1 .. Len(p)
        PROVE  <<path[i], p[i]>> \in edges /\ path[i + 1] = task.succ[<<path[i], p[i]>>]
    BY <2>1 DEF IsRun
  <2> DEFINE n == Len(p)
             S == {i \in 0 .. n : id[path[i + 1]] # -1}
  <2>4. n \in Nat /\ path[1] = task.init
    BY <2>1 DEF IsRun
  <2>5. 0 \in S
    <3>1. 0 \in 0 .. n /\ 0 + 1 = 1
      BY <2>4
    <3>2. QED
      BY <1>3, <2>4, <3>1
  <2>6. ASSUME NEW i \in 0 .. n - 1, i \in S
        PROVE  i + 1 \in S
    <3> DEFINE y == <<path[i + 1], p[i + 1]>>
    <3>1. i + 1 \in 1 .. n /\ i + 1 \in 0 .. n
      BY <2>4
    <3>2. y \in edges /\ path[i + 1 + 1] = task.succ[y] /\ y[1] = path[i + 1]
      BY <2>3, <3>1
    <3> HIDE DEF y
    <3>3. id[y[1]] # -1
      BY <2>6, <3>2
    <3>4. id[task.succ[y]] # -1
      BY <1>4, <3>2, <3>3
    <3>5. QED
      BY <3>1, <3>2, <3>4
  <2>7. \A i \in 0 .. n : i \in S
    <3>1. \A i \in 0 .. n - 1 : i \in S => i + 1 \in S
      BY <2>6
    <3> HIDE DEF S
    <3>2. QED
      BY <2>4, <2>5, <3>1, Upward
  <2>8. ASSUME NEW i \in 1 .. Len(p)
        PROVE  <<path[i], p[i]>> \in edges'
    <3> DEFINE y == <<path[i], p[i]>>
    <3>1. i - 1 \in 0 .. n /\ i - 1 + 1 = i
      BY <2>4
    <3>2. id[path[i]] # -1
      BY <2>7, <3>1
    <3>3. y \in edges /\ y[1] = path[i]
      BY <2>3
    <3> HIDE DEF y
    <3>4. y \in edges'
      BY <1>2, <3>2, <3>3
    <3>5. QED
      BY <3>4 DEF y
  <2>9. QED
    BY <2>1, <2>2, <2>8 DEF Follows
<1>6. pc # "reorder" /\ pc' # "reorder" /\ ~ BeforeSearch /\ ~ BeforeSearch'
  BY <1>2 DEF BeforeSearch
<1>7. QED
  BY <1>2, <1>5, <1>6, OrdersKept

\* All other steps only add edges.
LEMMA OthersFind ==
  ASSUME Inv, OrdersInv, UNCHANGED <<input, count_goal_states>>, edges \subseteq edges',
         pc # "reorder", pc' # "reorder", BeforeSearch' <=> BeforeSearch
  PROVE  OrdersInv'
BY MoreEdges, OrdersKept

\* Until the search for reorderings begins nothing is counted; then every order
\* of the plan has been found or comes from an entry of the stack, and the
\* pruning and the symmetries lose none of the plans that were counted.
THEOREM OrdersHold == Spec => []OrdersInv
<1>1. Init => OrdersInv
  <2> SUFFICES ASSUME Init PROVE OrdersInv
    OBVIOUS
  <2>1. pc = "add plan" /\ count_goal_states = 0
    BY DEF Init
  <2>2. QED
    BY <2>1 DEF OrdersInv, BeforeSearch
<1>2. ASSUME Inv, OrdersInv, [Next]_vars
      PROVE  OrdersInv'
  <2>1. CASE AddFirstPlan
    <3>1. /\ pc = "add plan" /\ pc' = "dump" /\ after' = "start reorderings"
          /\ UNCHANGED <<input, count_goal_states>> /\ edges \subseteq edges'
      BY <2>1 DEF AddFirstPlan, StartDump, AddEdges
    <3>2. QED
      BY <1>2, <3>1, OthersFind DEF BeforeSearch
  <2>2. CASE StartReorderings
    BY <1>2, <2>2, ReorderingsBegin
  <2>3. CASE Reorder
    BY <1>2, <2>3, ReorderFinds
  <2>4. CASE StartBackward
    BY <1>2, <2>4, OrdersAllFound
  <2>5. CASE Backward
    <3>1. /\ pc = "backward" /\ pc' = pc /\ UNCHANGED <<input, count_goal_states>>
          /\ edges' = edges
      BY <2>5 DEF Backward, graph
    <3>2. QED
      BY <1>2, <3>1, OthersFind DEF BeforeSearch
  <2>6. CASE RemoveNonPlans
    BY <1>2, <2>6, NonPlansFind
  <2>7. CASE StartForward
    <3>1. /\ pc = "start forward" /\ pc' = "forward" /\ UNCHANGED <<input, count_goal_states>>
          /\ edges' = edges
      BY <2>7 DEF StartForward, graph
    <3>2. QED
      BY <1>2, <3>1, OthersFind DEF BeforeSearch
  <2>8. CASE Forward
    <3>1. /\ pc = "forward" /\ pc' = pc /\ UNCHANGED <<input, count_goal_states>>
          /\ edges' = edges
      BY <2>8 DEF Forward, graph
    <3>2. QED
      BY <1>2, <3>1, OthersFind DEF BeforeSearch
  <2>9. CASE RemoveInitUnreachable
    BY <1>2, <2>9, UnreachableFind
  <2>10. CASE DumpNode
    <3>1. /\ pc = "dump" /\ pc' = pc /\ after' = after
          /\ UNCHANGED <<input, count_goal_states>> /\ edges' = edges
      BY <2>10 DEF DumpNode, graph
    <3>2. QED
      BY <1>2, <3>1, OthersFind DEF BeforeSearch
  <2>11. CASE DumpEnd
    <3>1. /\ pc = "dump" /\ pc' = after /\ after' = after
          /\ UNCHANGED <<input, count_goal_states>> /\ edges' = edges
      BY <2>11 DEF DumpEnd, graph
    <3>2. after \in {"start reorderings", "start symmetries", "next generator", "done"}
      BY <1>2, <3>1 DEF Inv, TypeInv
    <3>3. pc' # "reorder" /\ (BeforeSearch' <=> BeforeSearch)
      BY <3>1, <3>2 DEF BeforeSearch
    <3>4. QED
      BY <1>2, <3>1, <3>3, OthersFind
  <2>12. CASE StartRound
    <3>1. /\ pc = "start symmetries" /\ UNCHANGED <<input, count_goal_states>> /\ edges' = edges
          /\ pc' = "symmetry" \/ (pc' = "dump" /\ after' = "done")
      BY <2>12 DEF StartRound, StartDump, graph
    <3>2. QED
      BY <1>2, <3>1, OthersFind DEF BeforeSearch
  <2>13. CASE PermuteNode \/ PermuteInserted
    <3>1. /\ pc = "symmetry" /\ pc' = pc /\ UNCHANGED <<input, count_goal_states>>
          /\ edges \subseteq edges'
      BY <2>13 DEF PermuteNode, PermuteInserted, PermuteEdges
    <3>2. QED
      BY <1>2, <3>1, OthersFind DEF BeforeSearch
  <2>14. CASE EndOfPass
    <3>1. /\ pc = "symmetry" /\ UNCHANGED <<input, count_goal_states>> /\ edges' = edges
          /\ pc' = "next generator" \/ (pc' = "dump" /\ after' = "next generator")
      BY <2>14 DEF EndOfPass, StartDump, graph
    <3>2. QED
      BY <1>2, <3>1, OthersFind DEF BeforeSearch
  <2>15. CASE NextGenerator
    <3>1. /\ pc = "next generator" /\ UNCHANGED <<input, count_goal_states>> /\ edges' = edges
          /\ \/ pc' \in {"start symmetries", "symmetry"}
             \/ pc' = "dump" /\ after' = "done"
      BY <2>15 DEF NextGenerator, StartDump, graph
    <3>2. QED
      BY <1>2, <3>1, OthersFind DEF BeforeSearch
  <2>16. CASE UNCHANGED vars
    <3>1. /\ task' = task /\ plan' = plan /\ limit' = limit /\ pc' = pc /\ after' = after
          /\ edges' = edges /\ count_goal_states' = count_goal_states
          /\ dfs_queue' = dfs_queue
      BY <2>16 DEF vars, input, graph, dump
    <3>2. best_plan_cost' = best_plan_cost
      BY <3>1 DEF best_plan_cost
    <3>3. QED
      BY <1>2, <3>1, <3>2 DEF OrdersInv, BeforeSearch
  <2>17. QED
    BY <1>2, <2>1, <2>2, <2>3, <2>4, <2>5, <2>6, <2>7, <2>8, <2>9, <2>10, <2>11, <2>12,
       <2>13, <2>14, <2>15, <2>16 DEF Next
<1>3. QED
  BY <1>1, <1>2, InvariantHolds, PTL DEF Spec

\* The plans that are saved are cheapest plans without loops, each once and the
\* plan handed over first; if fewer than asked for are saved, all orders of the
\* operators of the plan are among them, and the reordering search did not stop
\* because it had counted enough.
THEOREM FilesCorrect == Spec => []FilesAreExact
<1>1. ASSUME Inv, SavedInv, OrdersInv
      PROVE  FilesAreExact
  <2>1. /\ TypeInv /\ TypeOK /\ task \in Tasks /\ plan \in PlansOf[task] /\ limit \in Nat
        /\ IsFiniteSet(optimal_plans) /\ files \in Seq(Seq(task.ops))
        /\ count_goal_states \in Nat
    BY <1>1, LimitAssumption DEF Inv, TypeInv, TypeOK
  <2>2. Saved /\ First /\ Finished
    BY <1>1 DEF SavedInv
  <2>3. ASSUME NEW i \in DOMAIN files
        PROVE  files[i] \in LoopFreePlans(task) /\ PlanCost(task, files[i]) = best_plan_cost
    <3>1. files[i] \in optimal_plans
      BY <2>2 DEF Saved, InRange
    <3>2. QED
      BY <2>2, <3>1 DEF Saved
  <2>4. \A i, j \in DOMAIN files : files[i] = files[j] => i = j
    BY <2>2 DEF Saved
  <2>5. ASSUME files # <<>>
        PROVE  files[1] = plan
    <3>1. files = <<plan>> => files[1] = plan
      <4> DEFINE p == plan
      <4>1. files = <<p>> => files[1] = p
        <5> HIDE DEF p
        <5>1. <<p>>[1] = p
          OBVIOUS
        <5>2. QED
          BY <5>1
      <4>2. QED
        BY <4>1
    <3>2. pc \in Labels
      BY <2>1 DEF TypeOK
    <3>3. CASE Pruned
      BY <2>2, <2>5, <3>3 DEF First
    <3>4. CASE ~ Pruned
      <4>1. CASE pc = "dump"
        <5>1. after = "start reorderings"
          BY <3>4, <4>1 DEF Pruned
        <5>2. QED
          BY <2>2, <2>5, <3>1, <4>1, <5>1 DEF First
      <4>2. CASE pc # "dump"
        <5> DEFINE Early == {"start reorderings", "reorder", "backward", "start forward",
                             "forward"}
        <5>1. pc \notin {"start symmetries", "symmetry", "next generator", "done"}
          BY <3>4 DEF Pruned
        <5>2. pc \in Early \cup {"add plan"}
          BY <3>2, <4>2, <5>1 DEF Labels
        <5>3. pc # "add plan"
          BY <2>2, <2>5 DEF First
        <5>4. pc \in Early
          <6> HIDE DEF Early
          <6>1. QED
            BY <5>2, <5>3
        <5>5. QED
          BY <2>2, <3>1, <5>4 DEF First
      <4>3. QED
        BY <4>1, <4>2
    <3>5. QED
      BY <3>3, <3>4
  \* What was counted has been saved, unless enough is saved.
  <2>6. ASSUME pc = "done", ~ enough_plans_found
        PROVE  \E P : /\ P \subseteq optimal_plans /\ Cardinality(P) = count_goal_states
                      /\ IsFiniteSet(P)
                      /\ count_goal_states >= limit \/ \A p : AnOrder(task, plan, p) => p \in P
    <3>1. OrdersFound(task, best_plan_cost, edges, plan, count_goal_states, limit)
      BY <1>1, <2>6 DEF OrdersInv, BeforeSearch
    <3>2. PICK P : /\ Counted(task, best_plan_cost, edges, count_goal_states, P)
                   /\ \/ count_goal_states >= limit
                      \/ \A p : AnOrder(task, plan, p) => p \in P
      BY <3>1 DEF OrdersFound
    <3>3. ASSUME NEW p \in P
          PROVE  p \in optimal_plans
      <4>1. PICK path : /\ IsRun(task, p, path) /\ path[Len(path)] \in task.goal
                        /\ \A i \in 1 .. Len(p) : <<path[i], p[i]>> \in edges
        BY <3>2 DEF Counted, Follows
      <4>2. p \in LoopFreePlans(task)
        BY <2>1, <4>1, PlansAre
      <4>3. FollowsGraph(p)
        BY <2>1, <4>1, RunFollows DEF FollowsGraph
      <4>4. QED
        BY <2>2, <2>6, <4>2, <4>3 DEF Finished
    <3>4. QED
      BY <3>2, <3>3 DEF Counted
  <2>7. ASSUME pc = "done", count_goal_states >= limit
        PROVE  enough_plans_found
    <3> SUFFICES ASSUME ~ enough_plans_found PROVE FALSE
      OBVIOUS
    <3>1. PICK P : P \subseteq optimal_plans /\ Cardinality(P) = count_goal_states
      BY <2>6, <2>7
    <3>2. Cardinality(P) <= Cardinality(optimal_plans)
      BY <2>1, <3>1, FS_Subset
    <3>3. Cardinality(optimal_plans) \in Nat
      BY <2>1, FS_CardinalityType
    <3>4. ~ (Cardinality(optimal_plans) >= limit)
      BY DEF enough_plans_found
    <3> DEFINE c == Cardinality(optimal_plans)
    <3>5. count_goal_states <= c /\ c \in Nat /\ ~ (c >= limit)
      BY <3>1, <3>2, <3>3, <3>4
    <3> HIDE DEF c
    <3>6. QED
      BY <2>1, <2>7, <3>5
  <2>8. ASSUME pc = "done", ~ enough_plans_found, NEW p \in LoopFreePlans(task),
               SubBag(p, plan),
               \A i \in 0 .. Len(p) - 1 : Trajectory(task, p)[i] \notin task.goal
        PROVE  p \in InRange(files)
    <3>1. PICK path : IsRun(task, p, path) /\ path[Len(path)] \in task.goal
      BY <2>1, PlansAre
    <3>2. /\ p \in Seq(task.ops) /\ Len(p) \in Nat /\ Len(path) = Len(p) + 1
          /\ \A i \in 0 .. Len(p) : Trajectory(task, p)[i] = path[i + 1]
      <4>1. \A i \in 0 .. Len(p) : Trajectory(task, p)[i] = path[i + 1]
        BY <2>1, <3>1, RunTrajectory
      <4>2. p \in Seq(task.ops) /\ Len(p) \in Nat /\ Len(path) = Len(p) + 1
        BY <3>1 DEF IsRun
      <4>3. QED
        BY <4>1, <4>2
    <3>3. p \in optimal_plans
      <4>1. CASE p = <<>>
        <5>1. Len(<<>>) = 0 /\ 1 .. 0 = {}
          OBVIOUS
        <5>2. FollowsGraph(p)
          BY <4>1, <5>1 DEF FollowsGraph
        <5>3. QED
          BY <2>2, <2>8, <5>2 DEF Finished
      <4>2. CASE p # <<>>
        <5>1. Fits(task, p, 0, plan)
          <6>1. plan \in Seq(task.ops)
            BY <2>1, PlanIsSound DEF PlanSteps
          <6>2. DOMAIN p = 0 + 1 .. Len(p) /\ DOMAIN plan = 1 .. Len(plan)
            BY <3>2, <6>1
          <6>3. QED
            BY <2>8, <6>2 DEF SubBag, Fits
        <5>2. ASSUME NEW i \in 1 .. Len(path), path[i] \in task.goal
              PROVE  i = Len(path)
          <6> SUFFICES ASSUME i # Len(path) PROVE FALSE
            OBVIOUS
          <6>1. i - 1 \in 0 .. Len(p) - 1 /\ i - 1 \in 0 .. Len(p) /\ i - 1 + 1 = i
            BY <3>2
          <6>2. Trajectory(task, p)[i - 1] = path[i]
            BY <3>2, <6>1
          <6>3. QED
            BY <2>8, <5>2, <6>1, <6>2
        <5>3. AnOrder(task, plan, p)
          BY <3>1, <4>2, <5>1, <5>2 DEF AnOrder
        <5>4. ~ (count_goal_states >= limit)
          BY <2>7, <2>8
        <5>5. PICK P : /\ P \subseteq optimal_plans
                       /\ \/ count_goal_states >= limit
                          \/ \A x : AnOrder(task, plan, x) => x \in P
          BY <2>6, <2>8
        <5>6. QED
          BY <5>3, <5>4, <5>5
      <4>3. QED
        BY <4>1, <4>2
    <3>4. QED
      BY <2>2, <3>3 DEF Saved
  <2>9. QED
    BY <2>3, <2>4, <2>5, <2>7, <2>8 DEF FilesAreExact
<1>2. QED
  BY <1>1, InvariantHolds, SavedHolds, OrdersHold, PTL

=============================================================================
