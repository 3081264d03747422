----------------------------- MODULE Heuristics -----------------------------
(***************************************************************************)
(* The heuristics that are functions of a state, blind, goalcount and hm,  *)
(* and what they and those that take steps, hmax, add, ff (Relaxation) and *)
(* the landmark-cut heuristic (LmCut), promise.                            *)
(***************************************************************************)
EXTENDS LmCut

CONSTANT M \* the m of hm

-----------------------------------------------------------------------------
(* blind_search_heuristic.cc and goal_count_heuristic.cc.                  *)

Blind(T, s) == IF is_goal_state(T, s) THEN 0 ELSE get_min_operator_cost(T)

GoalCount(T, s) == Cardinality({f \in T.goal : s[f[1]] # f[2]})

-----------------------------------------------------------------------------
(* hm_heuristic.cc.  A tuple is a set of facts of different variables; the *)
(* conditions of effects are ignored.  Entries are updated round by round; *)
(* the code updates in place, which ends in the same table.                *)

Tuples(F) == {u \in SUBSET F : Cardinality(u) \in 1 .. M}
IsTuple(u) == \A f, g \in u : f[1] = g[1] => f = g

Eval(table, U) == Largest({table[u] : u \in U} \cup {0})

contradict_effect_of(o, u) == \E f \in u : \E e \in Range(o.effs) : e.fact[1] = f[1] /\ e.fact[2] # f[2]

\* Facts that must hold for operator o to make the tuple u true: for every
\* part of u that is an effect, the preconditions and the rest of u.
ReachedBy(o, u) ==
  LET eff == {e.fact : e \in Range(o.effs)} pre == Range(o.pre) IN
  {pre \cup (u \ t) : t \in {x \in Tuples(eff) :
     \/ x = u
     \/ x \subseteq u /\ ~ contradict_effect_of(o, u) /\ IsTuple(pre \cup (u \ x))}}

hm_table ==
  [t \in DOMAIN Tasks |-> LET T == Tasks[t] IN
     [u \in {x \in Tuples(FactsOf(T)) : IsTuple(x)} |->
        UNION {{<<T.ops[o].cost, Tuples(F)>> : F \in ReachedBy(T.ops[o], u)} : o \in OpsOf(T)}]]

update_hm_table(t, table) ==
  [u \in DOMAIN table |->
     Least({table[u]} \cup {w[1] + Eval(table, w[2]) : w \in {x \in hm_table[t][u] : Eval(table, x[2]) < INFTY}})]

RECURSIVE UpdatedTable(_, _)
UpdatedTable(t, table) ==
  LET next == update_hm_table(t, table) IN IF next = table THEN table ELSE UpdatedTable(t, next)

Hm(t, s) ==
  IF is_goal_state(Tasks[t], s) THEN 0
  ELSE Eval(UpdatedTable(t, [u \in DOMAIN hm_table[t] |-> IF u \subseteq FactsIn(s) THEN 0 ELSE INFTY]),
            Tuples(Tasks[t].goal))

-----------------------------------------------------------------------------
(* Properties.                                                             *)

\* What the documentation of the heuristics says of them: blind, hmax, hm
\* and the landmark-cut heuristic never exceed the cost of a plan and take no
\* solvable state for a dead end (hm in tasks without conditional effects).
\* Without conditional effects h2 and the landmark-cut heuristic are not below
\* hmax; with them a cut is charged once to an operator that is needed twice.
EstimatesAdmissible ==
  LET bounds(h, t, s) == h <= GoalDistance[t][s]
                         /\ (has_conditional_effects(Tasks[t]) \/ HmaxOfGoal[t][s] <= h)
  IN /\ lPc = "done" => /\ bounds(lTotal, lTask, lState)
                        /\ lTotal = INFTY <=> HmaxOfGoal[lTask][lState] = INFTY
     /\ rKind = "hmax" /\ rDone =>
          /\ bounds(Estimate, rTask, rState)
          /\ Blind(Tasks[rTask], rState) <= GoalDistance[rTask][rState]
          /\ ~ has_conditional_effects(Tasks[rTask]) => bounds(Hm(rTask, rState), rTask, rState)

RelaxedPlanIsValid ==
  /\ Tasks[rTask].goal \subseteq RelaxedReach(Tasks[rTask], relaxed_plan, FactsIn(rState))
  /\ ~ has_conditional_effects(Tasks[rTask]) => HmaxOfGoal[rTask][rState] <= FFEstimate
  /\ Estimate < MAX_COST_VALUE => FFEstimate <= Estimate
  /\ preferred_operators \subseteq relaxed_plan

\* The exploration, which stops early, drops entries and leaves dominated
\* operators out, finds the costs of the goals by which hmax is defined; and
\* add is finite exactly when hmax is.  Then the operators that ff collects by
\* following supporters from the goals reach the goals when nothing is deleted.
\* As each counts once they cost no more than add, unless add was clamped, and
\* at least hmax, unless an operator with conditional effects is needed twice.
ExplorationIsExact ==
  rDone => /\ rKind = "hmax" => Estimate = HmaxOfGoal[rTask][rState]
           /\ rKind = "add" => /\ Estimate < INFTY <=> HmaxOfGoal[rTask][rState] < INFTY
                               /\ Estimate < INFTY => RelaxedPlanIsValid
=============================================================================
