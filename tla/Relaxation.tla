----------------------------- MODULE Relaxation -----------------------------
(***************************************************************************)
(* The heuristics hmax, add and ff: unary operators without the dominated  *)
(* ones, an exploration of the relaxed task with a priority queue that     *)
(* ends when all goals are out of the queue, and the relaxed plan of ff.   *)
(*                                                                         *)
(* A step takes one entry from the queue.  Which one of the cheapest it is *)
(* depends on the queue and is left open.                                  *)
(***************************************************************************)
EXTENDS SasTask

CONSTANT MAX_COST_VALUE \* bound on the costs of add and ff

VARIABLES
  rTask, rState, \* the task, and the state that is evaluated
  rOps,          \* unary operators
  rKind,         \* "hmax" or "add"; ff is add and the relaxed plan
  rCost,         \* cost of every proposition, -1 if it is not reached
  rBy,           \* number of the unary operator that reached it, 0 for none
  rUnsat, rOpCost, \* unsatisfied preconditions and cost of unary operators
  rQueue,        \* entries <<cost, proposition>>
  rUnsolved,     \* goals that have not been popped
  rDone

relaxationVars == <<rTask, rState, rOps, rKind, rCost, rBy, rUnsat, rOpCost, rQueue, rUnsolved, rDone>>

-----------------------------------------------------------------------------
(* Unary operators.                                                        *)

UnaryOperator(no, pre, eff, cost) == [no |-> no, pre |-> pre, eff |-> eff, cost |-> cost]

build_unary_operators(T, o) ==
  [i \in DOMAIN T.ops[o].effs |->
     LET e == T.ops[o].effs[i] IN
     UnaryOperator(o, T.ops[o].pre \o SetToSeq(e.cond), e.fact, T.ops[o].cost)]

\* A fact may be a precondition and an effect condition, and so come twice.
Occurrences(u, p) == Cardinality({i \in DOMAIN u.pre : u.pre[i] = p})

\* The sorted preconditions of d are a part of those of u.
PreWithin(d, u) == \A p \in Range(d.pre) : Occurrences(d, p) <= Occurrences(u, p)

\* Mutant: a cheaper operator is dominated by a dearer one.
MutDominates(d, u) == d.eff = u.eff /\ PreWithin(d, u) /\ Len(d.pre) < Len(u.pre)

\* Operator d makes u superfluous: it needs less and does not cost more.
Dominates(d, u) ==
  d.eff = u.eff /\ PreWithin(d, u) /\ Len(d.pre) < Len(u.pre) /\ d.cost <= u.cost

\* Of operators with the same condition and effect the first of the cheapest
\* stays; the result is sorted by operator.
simplify(U) ==
  LET same(i) == {j \in DOMAIN U : U[j].eff = U[i].eff /\ PreWithin(U[j], U[i]) /\ PreWithin(U[i], U[j])}
      kept(i) == /\ \A j \in same(i) : U[i].cost < U[j].cost \/ (U[i].cost = U[j].cost /\ i <= j)
                 /\ ~ \E d \in Range(U) : Len(U[i].pre) <= 5 /\ Dominates(d, U[i])
      numbers == SelectSeq([i \in DOMAIN U |-> i], kept)
  IN [k \in DOMAIN numbers |-> U[numbers[k]]]

unary_operators ==
  [t \in DOMAIN Tasks |->
     simplify(FlattenSeq([o \in OpsOf(Tasks[t]) |-> build_unary_operators(Tasks[t], o)]))]

-----------------------------------------------------------------------------
(* The exploration.                                                        *)

\* x holds the costs, supporters and queue that change together.
enqueue_if_necessary(x, p, cost, op) ==
  IF x.cost[p] = -1 \/ x.cost[p] > cost
  THEN [cost |-> [x.cost EXCEPT ![p] = cost], by |-> [x.by EXCEPT ![p] = op],
        queue |-> x.queue \cup {<<cost, p>>}]
  ELSE x

\* Cost of an operator when a precondition it has a number of times is
\* reached; add clamps it.
Increased(cost, base, amount, times) ==
  IF rKind = "hmax" THEN Largest({cost, base + amount})
  ELSE Least({cost + times * amount, MAX_COST_VALUE})

\* The queue after setup: operators without preconditions, then the state.
Start(U, T, s) ==
  LET none == [cost |-> [p \in FactsOf(T) |-> -1], by |-> [p \in FactsOf(T) |-> 0], queue |-> {}]
      ops == SelectSeq([i \in DOMAIN U |-> i], LAMBDA i : U[i].pre = <<>>)
      after == FoldLeft(LAMBDA x, i : enqueue_if_necessary(x, U[i].eff, U[i].cost, i), none, ops)
  IN FoldLeft(LAMBDA x, p : enqueue_if_necessary(x, p, 0, 0), after, SetToSeq(FactsIn(s)))

RelaxationInit(t, s, k) ==
  LET T == Tasks[t] U == unary_operators[t] x == Start(U, T, s) IN
  /\ rTask = t /\ rState = s /\ rOps = U /\ rKind = k
  /\ rCost = x.cost /\ rBy = x.by /\ rQueue = x.queue
  /\ rUnsat = [i \in DOMAIN U |-> Len(U[i].pre)]
  /\ rOpCost = [i \in DOMAIN U |-> U[i].cost]
  /\ rUnsolved = Cardinality(T.goal) /\ rDone = FALSE

Stale(e) == rCost[e[2]] < e[1]

Pop ==
  /\ ~ rDone /\ rQueue # {}
  /\ \E e \in {f \in rQueue : \A g \in rQueue : f[1] <= g[1]} :
       LET p == e[2]
           triggered == {i \in DOMAIN rOps : p \in Range(rOps[i].pre)}
           unsat == [i \in DOMAIN rOps |-> rUnsat[i] - Occurrences(rOps[i], p)]
           cost == [i \in DOMAIN rOps |->
                      IF i \in triggered
                      THEN Increased(rOpCost[i], rOps[i].cost, rCost[p], Occurrences(rOps[i], p)) ELSE rOpCost[i]]
           ready == SelectSeq([i \in DOMAIN rOps |-> i], LAMBDA i : i \in triggered /\ unsat[i] = 0)
           after == FoldLeft(LAMBDA x, i : enqueue_if_necessary(x, rOps[i].eff, cost[i], i),
                             [cost |-> rCost, by |-> rBy, queue |-> rQueue \ {e}], ready)
           goal == p \in Tasks[rTask].goal
       IN IF Stale(e)
          THEN rQueue' = rQueue \ {e} /\ UNCHANGED <<rCost, rBy, rUnsat, rOpCost, rUnsolved, rDone>>
          ELSE /\ rUnsolved' = IF goal THEN rUnsolved - 1 ELSE rUnsolved
               /\ IF goal /\ rUnsolved = 1
                  THEN rQueue' = rQueue \ {e} /\ rDone' = TRUE /\ UNCHANGED <<rCost, rBy, rUnsat, rOpCost>>
                  ELSE /\ rCost' = after.cost /\ rBy' = after.by /\ rQueue' = after.queue
                       /\ rUnsat' = unsat /\ rOpCost' = cost /\ UNCHANGED rDone
  /\ UNCHANGED <<rTask, rState, rOps, rKind>>

QueueEmpty ==
  /\ ~ rDone /\ rQueue = {}
  /\ rDone' = TRUE
  /\ UNCHANGED <<rTask, rState, rOps, rKind, rCost, rBy, rUnsat, rOpCost, rQueue, rUnsolved>>

RelaxationNext == Pop \/ QueueEmpty

\* compute_heuristic of hmax and compute_add_and_ff.
Estimate ==
  LET costs == {rCost[p] : p \in Tasks[rTask].goal} IN
  IF -1 \in costs THEN INFTY
  ELSE IF rKind = "hmax" THEN Largest(costs \cup {0})
  ELSE FoldLeft(LAMBDA a, p : Least({a + rCost[p], MAX_COST_VALUE}), 0, SetToSeq(Tasks[rTask].goal))

\* The propositions that are marked when the supporters are followed from
\* the goals.
Marked(goals) ==
  LET marked[M \in SUBSET FactsOf(Tasks[rTask])] ==
        LET next == M \cup UNION {Range(rOps[rBy[p]].pre) : p \in {q \in M : rBy[q] # 0}}
        IN IF next = M THEN M ELSE marked[next]
  IN marked[goals]

relaxed_plan == {rOps[rBy[p]].no : p \in {q \in Marked(Tasks[rTask].goal) : rBy[q] # 0}}

FFEstimate == FoldSet(LAMBDA o, a : a + Tasks[rTask].ops[o].cost, 0, relaxed_plan)

\* Operators that ff prefers.
preferred_operators ==
  {rOps[i].no : i \in {rBy[p] : p \in {q \in Marked(Tasks[rTask].goal) : rBy[q] # 0}} \cap
                   {j \in DOMAIN rOps : rOpCost[j] = rOps[j].cost /\ is_applicable(Tasks[rTask].ops[rOps[j].no], rState)}}

-----------------------------------------------------------------------------
(* References: the costs hmax and add are defined by, as least fixed       *)
(* points over the operators as they are, and what a set of operators      *)
(* reaches when nothing is deleted.                                        *)

\* What the operators in O make true where the facts F have been.
Added(T, O, F) ==
  UNION {{e.fact : e \in {g \in Range(T.ops[o].effs) : g.cond \subseteq F}} :
           o \in {q \in O : Range(T.ops[q].pre) \subseteq F}}

\* Facts reached from the facts F with the operators in O.
RelaxedReach(T, O, F) ==
  LET reached[G \in SUBSET FactsOf(T)] ==
        LET next == G \cup Added(T, O, G) IN IF next = G THEN G ELSE reached[next]
  IN reached[F]

\* Cost of a set of facts, that of the dearest of them.
Worth(c, F) == Largest({c[f] : f \in F} \cup {0})

Conditions(T, o, e) == Range(T.ops[o].pre) \cup e.cond

\* What the facts cost with one operator more.
Improved(T, cost, c) ==
  LET offers(f) == UNION {{cost[o] + Worth(c, Conditions(T, o, e)) :
                             e \in {g \in Range(T.ops[o].effs) :
                                      g.fact = f /\ Worth(c, Conditions(T, o, g)) < INFTY}} :
                            o \in OpsOf(T)}
  IN [f \in FactsOf(T) |-> Least({c[f]} \cup offers(f))]

\* hmax of every fact for state s, where the operators have the costs given.
Hmax(T, cost, s) ==
  LET improved[c \in [FactsOf(T) -> 0 .. INFTY]] ==
        LET next == Improved(T, cost, c) IN IF next = c THEN c ELSE improved[next]
  IN improved[[f \in FactsOf(T) |-> IF f \in FactsIn(s) THEN 0 ELSE INFTY]]

HmaxOfGoal ==
  [t \in DOMAIN Tasks |-> LET T == Tasks[t] IN
     [s \in StatesOf(T) |-> Worth(Hmax(T, [o \in OpsOf(T) |-> T.ops[o].cost], s), T.goal)]]
=============================================================================
