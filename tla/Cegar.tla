------------------------------- MODULE Cegar --------------------------------
(***************************************************************************)
(* The construction of the additive Cartesian heuristic ("cegar"): for one *)
(* subtask after the other an abstraction is refined, one state at a time, *)
(* where the cheapest abstract plan fails in the task itself; its distances*)
(* become a heuristic, and the operators keep the costs it did not need.   *)
(*                                                                         *)
(* An abstract state is a Cartesian set: one set of values per variable.   *)
(* Which of the cheapest abstract plans is found and which split is picked *)
(* is left open, and so is when time or memory runs out.                   *)
(***************************************************************************)
EXTENDS SasTask

CONSTANTS
  CegarOptions,       \* set of [subtasks, use_general_costs]
  MAX_ABSTRACT_STATES \* bound on the states of an abstraction: max_states

\* No variable with two values.
OneValueEach(F) == \A f, g \in F : f[1] = g[1] => f = g

\* What SASTask.validate asserts of conditions, or asks of effects that are not
\* conditional (sas_tasks.py 142-149, 277-325).
IsConsistent(T) ==
  /\ OneValueEach(T.goal)
  /\ \A o \in OpsOf(T) : /\ OneValueEach(Range(T.ops[o].pre))
                         /\ OneValueEach({e.fact : e \in Range(T.ops[o].effs)})

CegarAssumption ==
  /\ \A t \in DOMAIN Tasks : ~ has_conditional_effects(Tasks[t]) => IsConsistent(Tasks[t])
  /\ \A x \in CegarOptions : /\ x.subtasks \in Seq({"original", "goals", "landmarks"})
                             /\ Len(x.subtasks) \in 1 .. 2
                             /\ x.use_general_costs \in BOOLEAN
  /\ MAX_ABSTRACT_STATES \in Nat
ASSUME CegarAssumption

VARIABLES
  cTask, cOptions, cPc,
  cSubtasks,    \* goals of the subtasks that are left, the current one first
  cCosts,       \* remaining costs of the operators
  cAbstraction, \* [init, goals, trans, h] of the current subtask
  cSolved,      \* the abstract plan was a plan of the subtask
  cFunctions    \* heuristic functions: [of, h]

cegarVars == <<cTask, cOptions, cPc, cSubtasks, cCosts, cAbstraction, cSolved, cFunctions>>

cT == Tasks[cTask]
NoAbstraction == [h |-> <<>>]

-----------------------------------------------------------------------------
(* abstract_state.cc and domains.cc.                                       *)

Everything(T) == [v \in Vars(T) |-> 0 .. T.dom[v] - 1]
includes(a, s) == \A v \in DOMAIN a : s[v] \in a[v]

\* The first part has the other values of the variable, the second has the
\* wanted ones.
split(a, v, wanted) == <<[a EXCEPT ![v] = @ \ wanted], [a EXCEPT ![v] = wanted]>>

get_abstract_state(T, facts) ==
  [v \in Vars(T) |-> {d \in 0 .. T.dom[v] - 1 : \A f \in facts : f[1] = v => f[2] = d}]

regress(T, a, o) ==
  LET pre == Range(T.ops[o].pre)
      free == {e.fact[1] : e \in Range(T.ops[o].effs)}
  IN [v \in Vars(T) |-> IF v \in free \/ (\E f \in pre : f[1] = v) THEN get_abstract_state(T, pre)[v] ELSE a[v]]

-----------------------------------------------------------------------------
(* transition_updater.cc.  Values of a variable before and after an        *)
(* operator; the empty set stands for an undefined one.                    *)

Pre(o, v) == {f[2] : f \in {x \in Range(o.pre) : x[1] = v}}
Post(o, v) ==
  LET effs == {i \in DOMAIN o.effs : o.effs[i].fact[1] = v}
  IN IF effs = {} THEN Pre(o, v) ELSE {o.effs[Largest(effs)].fact[2]}

\* u -> v becomes u -> v1, u -> v2 or both.
rewire_incoming_transitions(T, trans, v, v1, v2, var) ==
  UNION {LET post == Post(T.ops[x[2]], var) IN
         IF post # {} THEN {<<x[1], x[2], IF post \subseteq v1[var] THEN v1 ELSE v2>>}
         ELSE {<<x[1], x[2], w>> : w \in {y \in {v1, v2} : x[1][var] \cap y[var] # {}}} :
         x \in {y \in trans : y[3] = v /\ y[1] # v}}

\* Mutant: an operator that sets the variable starts in the first part only.
MutRewireOutgoing(T, trans, v, v1, v2, var) ==
  UNION {LET pre == Pre(T.ops[x[2]], var) post == Post(T.ops[x[2]], var) IN
         IF post = {} THEN {<<w, x[2], x[3]>> : w \in {y \in {v1, v2} : x[3][var] \cap y[var] # {}}}
         ELSE {<<IF pre \subseteq v1[var] THEN v1 ELSE v2, x[2], x[3]>>} :
         x \in {y \in trans : y[1] = v /\ y[3] # v}}

\* v -> w becomes v1 -> w, v2 -> w or both.
rewire_outgoing_transitions(T, trans, v, v1, v2, var) ==
  UNION {LET pre == Pre(T.ops[x[2]], var) post == Post(T.ops[x[2]], var) IN
         IF post = {} THEN {<<w, x[2], x[3]>> : w \in {y \in {v1, v2} : x[3][var] \cap y[var] # {}}}
         ELSE IF pre = {} THEN {<<v1, x[2], x[3]>>, <<v2, x[2], x[3]>>}
         ELSE {<<IF pre \subseteq v1[var] THEN v1 ELSE v2, x[2], x[3]>>} :
         x \in {y \in trans : y[1] = v /\ y[3] # v}}

\* A loop becomes loops or transitions between the two parts.
rewire_loops(T, trans, v, v1, v2, var) ==
  LET part(values) == IF values \subseteq v1[var] THEN v1 ELSE v2 IN
  UNION {LET pre == Pre(T.ops[x[2]], var) post == Post(T.ops[x[2]], var) IN
         IF pre # {} THEN {<<part(pre), x[2], part(post)>>}
         ELSE {<<w, x[2], IF post = {} THEN w ELSE part(post)>> : w \in {v1, v2}} :
         x \in {y \in trans : y[1] = v /\ y[3] = v}}

rewire(T, trans, v, v1, v2, var) ==
  {x \in trans : x[1] # v /\ x[3] # v}
  \cup rewire_incoming_transitions(T, trans, v, v1, v2, var)
  \cup rewire_outgoing_transitions(T, trans, v, v1, v2, var)
  \cup rewire_loops(T, trans, v, v1, v2, var)

-----------------------------------------------------------------------------
(* abstraction.cc.                                                         *)

States(abs) == DOMAIN abs.h

\* Both parts inherit the distance; the first is the new initial state and
\* the second the new goal.
refine(T, abs, a, v, wanted) ==
  LET p == split(a, v, wanted) IN
  [init |-> IF a = abs.init THEN p[1] ELSE abs.init,
   goals |-> IF a \in abs.goals THEN (abs.goals \ {a}) \cup {p[2]} ELSE abs.goals,
   trans |-> rewire(T, abs.trans, a, p[1], p[2], v),
   h |-> [x \in (States(abs) \ {a}) \cup Range(p) |-> IF x \in Range(p) THEN abs.h[a] ELSE abs.h[x]]]

create_trivial_abstraction(T) ==
  LET all == Everything(T)
  IN [init |-> all, goals |-> {all}, trans |-> {<<all, o, all>> : o \in OpsOf(T)}, h |-> [x \in {all} |-> 0]]

\* What the operators that do not achieve the last fact add to some facts.
AddedBefore(T, last, F) ==
  UNION {{e.fact : e \in Range(o.effs)} :
           o \in {p \in Range(T.ops) : Range(p.pre) \subseteq F /\ \A e \in Range(p.effs) : e.fact # last}}

\* Facts that can be reached, when nothing is deleted, without an operator
\* that achieves the last fact.
PossiblyBefore(T, last, facts) ==
  LET before[F \in SUBSET FactsOf(T)] ==
        LET next == F \cup AddedBefore(T, last, F) IN IF next = F THEN F ELSE before[next]
  IN before[facts]

get_relaxed_possible_before(T, fact) == PossiblyBefore(T, fact, FactsIn(InitialState(T))) \cup {fact}

\* States with facts that are not reachable before the only goal are split
\* off, and all states are goals; the goal is split off by the first flaw.
\* Only the first n variables are looked at before time or memory is up.
bad_values(T, goal, v) == {d \in 0 .. T.dom[v] - 1 : <<v, d>> \notin get_relaxed_possible_before(T, goal)}

separate_facts_unreachable_before_goal(T, abs0, goal, n) ==
  LET separated[v \in 0 .. n] ==
        IF v = 0 THEN abs0
        ELSE LET x == separated[v - 1] bad == bad_values(T, goal, v) IN
             IF bad = {} \/ Cardinality(States(x)) >= MAX_ABSTRACT_STATES THEN x
             ELSE refine(T, x, x.init, v, bad)
      abs == separated[n]
  IN [abs EXCEPT !.goals = States(abs)]

\* The abstraction of a subtask before the refinement loop.
Started(T, goal, n) ==
  IF Cardinality(goal) = 1
  THEN separate_facts_unreachable_before_goal(T, create_trivial_abstraction(T), CHOOSE f \in goal : TRUE, n)
  ELSE create_trivial_abstraction(T)

\* abstract_search.cc: paths from the initial state that take cheapest steps
\* only, visit no state twice and end in their first goal; d is the distance
\* to a goal.
At(abs, path, i) == IF i = 0 THEN abs.init ELSE path[i][3]

CheapestSteps(abs, costs, d) ==
  {x \in abs.trans : x[1] \notin abs.goals /\ costs[x[2]] < INFTY /\ d[x[1]] = d[x[3]] + costs[x[2]]}

Extensions(abs, steps, p) ==
  {Append(p, x) : x \in {y \in steps : y[1] = At(abs, p, Len(p)) /\ \A i \in 0 .. Len(p) : y[3] # At(abs, p, i)}}

CheapestPlans(abs, costs, d) ==
  LET n == Cardinality(States(abs))
      paths[i \in 0 .. n] ==
        IF i = 0 THEN {<<>>} ELSE UNION {Extensions(abs, CheapestSteps(abs, costs, d), p) : p \in paths[i - 1]}
  IN {p \in UNION {paths[i] : i \in 0 .. n} : At(abs, p, Len(p)) \in abs.goals}

AbstractDistances(abs, costs, targets) ==
  Distances(States(abs), {<<x[1], x[3], costs[x[2]]>> : x \in {y \in abs.trans : costs[y[2]] < INFTY}}, targets)

find_solution(abs, costs) ==
  LET d == AbstractDistances(abs, costs, abs.goals)
  IN IF d[abs.init] >= INFTY THEN {} ELSE CheapestPlans(abs, costs, d)

\* Distances along the plan that was found, from its end.
extract_solution(h, plan, costs) ==
  LET extracted[k \in 0 .. Len(plan)] ==
        IF k = 0 THEN h
        ELSE LET x == plan[Len(plan) - k + 1] g == extracted[k - 1]
             IN [g EXCEPT ![x[1]] = g[x[3]] + costs[x[2]]]
  IN extracted[Len(plan)]

\* Where the plan fails in the task: the state, the abstract state and the
\* Cartesian set one would have liked to be in.
Flaw(s, a, desired) == [state |-> s, current |-> a, desired |-> desired]

\* The states that the operators of the plan lead to.
Traced(T, plan) ==
  LET traced[i \in 0 .. Len(plan)] ==
        IF i = 0 THEN InitialState(T) ELSE successor(T.ops[plan[i][2]], traced[i - 1])
  IN traced

\* The flaw after i steps, if there is one.
FlawsAfter(T, goal, abs, plan, i) ==
  LET s == Traced(T, plan)[i] a == At(abs, plan, i) IN
  IF i = Len(plan) THEN IF Holds(s, goal) THEN {} ELSE {Flaw(s, a, get_abstract_state(T, goal))}
  ELSE LET o == plan[i + 1][2] next == plan[i + 1][3] IN
       IF ~ is_applicable(T.ops[o], s) THEN {Flaw(s, a, get_abstract_state(T, Range(T.ops[o].pre)))}
       ELSE IF ~ includes(next, successor(T.ops[o], s)) THEN {Flaw(s, a, regress(T, next, o))}
       ELSE {}

\* The first one.
find_flaw(T, goal, abs, plan) ==
  LET failing == {i \in 0 .. Len(plan) : FlawsAfter(T, goal, abs, plan, i) # {}}
  IN IF failing = {} THEN {} ELSE FlawsAfter(T, goal, abs, plan, Least(failing))

get_possible_splits(T, flaw) ==
  {<<v, flaw.current[v] \cap flaw.desired[v]>> :
     v \in {u \in Vars(T) : flaw.state[u] \notin flaw.current[u] \cap flaw.desired[u]}}

update_h_values(abs, costs) == [abs EXCEPT !.h = AbstractDistances(abs, costs, abs.goals)]

get_g_values(abs, costs) ==
  Distances(States(abs), {<<x[3], x[1], costs[x[2]]>> : x \in {y \in abs.trans : costs[y[2]] < INFTY}}, {abs.init})

\* Mutant: operators in loops may cost less than nothing.
MutSaturated(abs, costs, g, general, o) ==
  Largest({IF general THEN -INFTY ELSE 0} \cup
          {abs.h[x[1]] - abs.h[x[3]] : x \in {y \in abs.trans : y[2] = o /\ y[1] # y[3] /\ g[y[1]] < INFTY
                                                               /\ abs.h[y[1]] < INFTY /\ abs.h[y[3]] < INFTY}})

\* What the operator must cost for the distances to stay as they are.
Saturated(abs, costs, g, general, o) ==
  LET alive(a) == g[a] < INFTY /\ abs.h[a] < INFTY
      steps == {x \in abs.trans : x[2] = o /\ alive(x[1])}
  IN Largest({IF general THEN -INFTY ELSE 0}
             \cup {abs.h[x[1]] - abs.h[x[3]] : x \in {y \in steps : y[1] # y[3] /\ abs.h[y[3]] < INFTY}}
             \cup (IF general /\ \E x \in steps : x[1] = x[3] THEN {0} ELSE {}))

get_saturated_costs(abs, costs, general) ==
  LET g == get_g_values(abs, costs) IN [o \in DOMAIN costs |-> Saturated(abs, costs, g, general, o)]

-----------------------------------------------------------------------------
(* cost_saturation.cc and subtask_generators.cc.                           *)

\* Facts without which the goal is out of reach (landmarks for m = 1).
FactLandmarks(T) ==
  {f \in FactsOf(T) : f \in T.goal \/ ~ T.goal \subseteq PossiblyBefore(T, f, FactsIn(InitialState(T)) \ {f})}

\* Facts of the initial state are left out, the others come in some order.
get_subtasks(T, generator) ==
  LET ordered(F) == LET s == SetToSeq({{f} : f \in F \ FactsIn(InitialState(T))}) IN {s, Reverse(s)}
  IN CASE generator = "original" -> {<<T.goal>>}
       [] generator = "goals" -> ordered(T.goal)
       [] generator = "landmarks" -> ordered(FactLandmarks(T))

reduce_remaining_costs(costs, saturated) ==
  [o \in DOMAIN costs |-> IF costs[o] = INFTY \/ saturated[o] = -INFTY THEN INFTY ELSE costs[o] - saturated[o]]

get_value(function, s) == function.h[CHOOSE a \in DOMAIN function.h : includes(a, s)]

state_is_dead_end(functions, s) == \E f \in Range(functions) : get_value(f, s) = INFTY

\* additive_cartesian_heuristic.cc: compute_heuristic.
CegarEstimate(s) ==
  IF state_is_dead_end(cFunctions, s) THEN INFTY
  ELSE FoldLeft(LAMBDA sum, f : sum + get_value(f, s), 0, cFunctions)

-----------------------------------------------------------------------------
CegarInit(t) ==
  /\ ~ has_conditional_effects(Tasks[t]) \* verify_no_conditional_effects
  /\ cTask = t
  /\ cOptions \in CegarOptions
  /\ \E first \in get_subtasks(Tasks[t], Head(cOptions.subtasks)) :
       IF Len(cOptions.subtasks) = 1 THEN cSubtasks = first
       ELSE \E second \in get_subtasks(Tasks[t], cOptions.subtasks[2]) : cSubtasks = first \o second
  /\ cCosts = [o \in OpsOf(Tasks[t]) |-> Tasks[t].ops[o].cost]
  /\ cAbstraction = NoAbstraction
  /\ cSolved = FALSE
  /\ cFunctions = <<>>
  /\ cPc = "next"

\* Once time or memory is up before all variables are looked at, no round of
\* the refinement loop follows.
StartAbstraction ==
  /\ cPc = "next"
  /\ cSubtasks # <<>>
  /\ \E n \in 0 .. Len(cT.dom) :
       /\ cAbstraction' = Started(cT, Head(cSubtasks), n)
       /\ cPc' = IF n = Len(cT.dom) THEN "refine" ELSE "finish"
  /\ cSolved' = FALSE
  /\ UNCHANGED <<cTask, cOptions, cSubtasks, cCosts, cFunctions>>

\* One round of the refinement loop.
Refine ==
  /\ cPc = "refine"
  /\ Cardinality(States(cAbstraction)) < MAX_ABSTRACT_STATES
  /\ \E plan \in find_solution(cAbstraction, cCosts) :
       LET abs == [cAbstraction EXCEPT !.h = extract_solution(@, plan, cCosts)]
           flaws == find_flaw(cT, Head(cSubtasks), abs, plan)
       IN \/ /\ flaws = {}
             /\ cAbstraction' = abs
             /\ cSolved' = TRUE
             /\ cPc' = "finish"
          \/ /\ \E flaw \in flaws : \E x \in get_possible_splits(cT, flaw) :
                  cAbstraction' = refine(cT, abs, flaw.current, x[1], x[2])
             /\ UNCHANGED <<cSolved, cPc>>
  /\ UNCHANGED <<cTask, cOptions, cSubtasks, cCosts, cFunctions>>

\* The abstract problem is unsolvable, or a limit is reached.
Stop ==
  /\ cPc = "refine"
  /\ cPc' = "finish"
  /\ UNCHANGED <<cTask, cOptions, cSubtasks, cCosts, cAbstraction, cSolved, cFunctions>>

\* Functions that are zero in the initial state are not kept.  Time may be up
\* after every abstraction.
FinishAbstraction ==
  LET abs == update_h_values(cAbstraction, cCosts)
      functions == IF abs.h[abs.init] > 0 THEN Append(cFunctions, [of |-> Head(cSubtasks), h |-> abs.h]) ELSE cFunctions
  IN /\ cPc = "finish"
     /\ cCosts' = reduce_remaining_costs(cCosts, get_saturated_costs(abs, cCosts, cOptions.use_general_costs))
     /\ cFunctions' = functions
     /\ cSubtasks' = IF state_is_dead_end(functions, InitialState(cT)) THEN <<>> ELSE Tail(cSubtasks)
     /\ cAbstraction' = NoAbstraction
     /\ cPc' = "next"
     /\ UNCHANGED <<cTask, cOptions, cSolved>>

CegarIdle(t) ==
  /\ cTask = t /\ cOptions = <<>> /\ cPc = "idle"
  /\ cSubtasks = <<>> /\ cCosts = <<>> /\ cAbstraction = NoAbstraction
  /\ cSolved = FALSE /\ cFunctions = <<>>

CegarNext == StartAbstraction \/ Refine \/ Stop \/ FinishAbstraction

CegarSpec == (\E t \in DOMAIN Tasks : CegarIdle(t) \/ CegarInit(t)) /\ [][CegarNext]_cegarVars

-----------------------------------------------------------------------------
(* Properties.                                                             *)

\* Rewiring one state at a time keeps exactly the transitions that the
\* operators have between the Cartesian sets; the sets are a partition of
\* the states; and the distances that steer the search are lower bounds.
AbstractionIsExact ==
  cPc \in {"refine", "finish"} => LET abs == cAbstraction S == States(abs) IN
    /\ \A s \in StatesOf(cT) : Cardinality({a \in S : includes(a, s)}) = 1
    /\ \A a \in S : \A v \in DOMAIN a : a[v] # {}
    /\ includes(abs.init, InitialState(cT))
    /\ \A s \in StatesOf(cT) : Holds(s, Head(cSubtasks)) => \E a \in abs.goals : includes(a, s)
    /\ abs.trans = UNION {{<<a, x[4], b>> : a \in {y \in S : includes(y, x[1])}, b \in {y \in S : includes(y, x[2])}} :
                          x \in Transitions[cTask]}
    /\ \A a \in S : abs.h[a] <= AbstractDistances(abs, cCosts, abs.goals)[a]

\* However the costs are divided and whichever functions are dropped, the sum
\* never exceeds the cost of a plan in a reachable state, and when the plan
\* that was found is one of the task itself it is the cost of that plan.
CegarIsAdmissible ==
  cPc = "next" =>
    /\ \A s \in Reachable[cTask] : CegarEstimate(s) <= GoalDistance[cTask][s]
    /\ cSolved /\ cOptions.subtasks = <<"original">>
       => CegarEstimate(InitialState(cT)) = GoalDistance[cTask][InitialState(cT)]

\* What the documentation of the heuristic says: it is consistent.
CegarIsConsistent ==
  cPc = "next" => \A e \in Transitions[cTask] :
    e[1] \in Reachable[cTask] /\ CegarEstimate(e[2]) < INFTY => CegarEstimate(e[1]) <= e[3] + CegarEstimate(e[2])
=============================================================================
