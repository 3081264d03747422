------------------------------ MODULE SasTask -------------------------------
(***************************************************************************)
(* Tasks of the search code (task_proxy.h, global_operator.cc): finite     *)
(* domain variables, operators with preconditions and conditional effects, *)
(* costs and a goal; and what the heuristics promise about them.           *)
(*                                                                         *)
(* A fact is a pair <<variable, value>>.  Tasks are numbered, so that what *)
(* depends on a task alone is a function that TLC evaluates once.          *)
(***************************************************************************)
EXTENDS Integers, Sequences, FiniteSets, SequencesExt

CONSTANT Tasks \* sequence of [dom, goal, ops], see TasksAssumption

Vars(T) == DOMAIN T.dom
FactsOf(T) == UNION {{<<v, d>> : d \in 0 .. T.dom[v] - 1} : v \in Vars(T)}
OpsOf(T) == DOMAIN T.ops

\* pre is a sequence: an operator that is read from a file has the
\* precondition of a variable once for every effect on it.
IsTask(T) ==
  /\ T.dom \in Seq(Nat \ {0, 1})
  /\ T.goal \subseteq FactsOf(T)
  /\ T.ops \in Seq([pre : Seq(FactsOf(T)), cost : Nat,
                    effs : Seq([cond : SUBSET FactsOf(T), fact : FactsOf(T)])])

TasksAssumption == \A t \in DOMAIN Tasks : IsTask(Tasks[t])
ASSUME TasksAssumption

\* DEAD_END and EvaluationResult::INFTY.
INFTY == 1000000

Least(S) == CHOOSE n \in S : \A k \in S : n <= k
Largest(S) == CHOOSE n \in S : \A k \in S : k <= n

StatesOf(T) == {s \in [Vars(T) -> 0 .. Largest(Range(T.dom)) - 1] : \A v \in Vars(T) : s[v] < T.dom[v]}

\* Values are numbered so that the initial ones are 0.
InitialState(T) == [v \in Vars(T) |-> 0]

Holds(s, F) == \A f \in F : s[f[1]] = f[2]
FactsIn(s) == {<<v, s[v]>> : v \in DOMAIN s}

is_applicable(o, s) == Holds(s, Range(o.pre))
is_goal_state(T, s) == Holds(s, T.goal)

\* Conditions are read in the state before; a later effect on the same
\* variable overwrites an earlier one.
Fired(o, s, v) == {i \in DOMAIN o.effs : o.effs[i].fact[1] = v /\ Holds(s, o.effs[i].cond)}

successor(o, s) ==
  [v \in DOMAIN s |-> IF Fired(o, s, v) = {} THEN s[v] ELSE o.effs[Largest(Fired(o, s, v))].fact[2]]

has_conditional_effects(T) == \E o \in OpsOf(T) : \E e \in Range(T.ops[o].effs) : e.cond # {}

get_min_operator_cost(T) == Least({T.ops[o].cost : o \in OpsOf(T)})

-----------------------------------------------------------------------------
(* Reference definitions.                                                  *)

\* What every element may reach a target for with one step more.
Relaxed(d, steps) ==
  [x \in DOMAIN d |-> Least({d[x]} \cup {e[3] + d[e[2]] : e \in {g \in steps : g[1] = x /\ d[g[2]] < INFTY}})]

\* Cheapest way from every element to a target, over steps
\* <<from, to, cost>>: Bellman-Ford, until nothing changes.
Distances(S, steps, targets) ==
  LET shortened[d \in [S -> 0 .. INFTY]] ==
        LET next == Relaxed(d, steps) IN IF next = d THEN d ELSE shortened[next]
  IN shortened[[x \in S |-> IF x \in targets THEN 0 ELSE INFTY]]

Transitions ==
  [t \in DOMAIN Tasks |-> LET T == Tasks[t] IN
     UNION {{<<s, successor(T.ops[o], s), T.ops[o].cost, o>> :
               s \in {x \in StatesOf(T) : is_applicable(T.ops[o], x)}} : o \in OpsOf(T)}]

\* Cost of a cheapest plan from every state.
GoalDistance ==
  [t \in DOMAIN Tasks |-> LET T == Tasks[t] IN
     Distances(StatesOf(T), Transitions[t], {s \in StatesOf(T) : is_goal_state(T, s)})]

\* States that can be reached from the initial one.
Reachable ==
  [t \in DOMAIN Tasks |-> LET T == Tasks[t]
                              d == Distances(StatesOf(T), {<<e[2], e[1], 0>> : e \in Transitions[t]}, {InitialState(T)})
                          IN {s \in StatesOf(T) : d[s] < INFTY}]
=============================================================================
