---------------------------- MODULE StubbornSets ----------------------------
(***************************************************************************)
(* Pruning with stubborn sets, for one state of a task without conditional *)
(* effects: operators are marked as stubborn until the marks are closed,   *)
(* and applicable operators without a mark are pruned.  Two variants:      *)
(* "simple" and "ec", which strengthens the expansion core.                *)
(*                                                                         *)
(* The code takes operators from the end of a list; here any operator that *)
(* is marked and not yet handled may be next.                              *)
(***************************************************************************)
EXTENDS SasTask

VARIABLES
  sTask, sState, sKind,
  sMarks \* [stubborn, queue, written, nes]: the last two belong to ec

stubbornVars == <<sTask, sState, sKind, sMarks>>

-----------------------------------------------------------------------------
(* stubborn_sets.cc.                                                       *)

EffectFacts(o) == {e.fact : e \in Range(o.effs)}
conflicting_vars(F, G) == {f[1] : f \in {x \in F : \E g \in G : g[1] = x[1] /\ g[2] # x[2]}}

can_disable(T, o, p) == conflicting_vars(EffectFacts(T.ops[o]), Range(T.ops[p].pre)) # {}
can_conflict(T, o, p) == conflicting_vars(EffectFacts(T.ops[o]), EffectFacts(T.ops[p])) # {}

achievers(T, f) == {o \in OpsOf(T) : f \in EffectFacts(T.ops[o])}

\* The first in the order of the variables.
find_unsatisfied_condition(s, F) ==
  LET open == {f \in F : s[f[1]] # f[2]} IN CHOOSE f \in open : \A g \in open : f[1] <= g[1]

\* Newly marked operators are handled later; ec remembers what the
\* applicable ones write.
mark_as_stubborn(T, s, x, ops) ==
  LET new == ops \ x.stubborn
      applicable == {o \in new : is_applicable(T.ops[o], s)}
  IN [x EXCEPT !.stubborn = @ \cup new, !.queue = @ \cup new,
               !.written = @ \cup UNION {{f[1] : f \in EffectFacts(T.ops[o])} : o \in applicable}]

-----------------------------------------------------------------------------
(* stubborn_sets_simple.cc.                                                *)

\* Mutant: what the operator disables does not interfere with it.
MutInterfere(T, o, p) == can_conflict(T, o, p) \/ can_disable(T, p, o)

interfere(T, o, p) == can_disable(T, o, p) \/ can_conflict(T, o, p) \/ can_disable(T, p, o)

handle_simple(T, s, x, o) ==
  mark_as_stubborn(T, s, x,
    IF is_applicable(T.ops[o], s) THEN {p \in OpsOf(T) \ {o} : interfere(T, o, p)}
    ELSE achievers(T, find_unsatisfied_condition(s, Range(T.ops[o].pre))))

-----------------------------------------------------------------------------
(* stubborn_sets_ec.cc.                                                    *)

\* Set V of values of a variable is closed under the arcs of its graph, which has an
\* arc from every value for operators without a precondition on the variable.
IsClosed(T, v, V) ==
  \A o \in OpsOf(T) :
    LET from == {f[2] : f \in {g \in Range(T.ops[o].pre) : g[1] = v}}
        to == {f[2] : f \in {g \in EffectFacts(T.ops[o]) : g[1] = v}}
    IN from = {} \/ from \cap V # {} => to \subseteq V

\* Values that a variable may get from a value, whatever the others are.
recurse_forwards(T, v, d) ==
  LET D == 0 .. T.dom[v] - 1
  IN {w \in D : \A V \in SUBSET D : d \in V /\ IsClosed(T, v, V) => w \in V}

active_ops(T, s) ==
  LET reachable == [v \in Vars(T) |-> recurse_forwards(T, v, s[v])]
  IN {o \in OpsOf(T) : \A f \in Range(T.ops[o].pre) : f[2] \in reachable[f[1]]}

add_nes_for_fact(T, s, x, f) ==
  [mark_as_stubborn(T, s, x, achievers(T, f) \cap active_ops(T, s)) EXCEPT !.nes = @ \cup {f}]

\* An unsatisfied precondition on a variable that is written is preferred.
apply_s5(T, s, x, o) ==
  LET pre == Range(T.ops[o].pre)
      written == {f \in pre : s[f[1]] # f[2] /\ f[1] \in x.written}
      f == find_unsatisfied_condition(s, IF written # {} THEN written ELSE pre)
  IN IF f \in x.nes THEN x ELSE add_nes_for_fact(T, s, x, f)

disabled_vars(T, o, p) == conflicting_vars(EffectFacts(T.ops[o]), Range(T.ops[p].pre))

handle_disabled(T, s, x, o, p) ==
  IF \E v \in disabled_vars(T, o, p) : <<v, s[v]>> \in Range(T.ops[p].pre)
  THEN mark_as_stubborn(T, s, x, {p})
  ELSE apply_s5(T, s, x, p)

conflicting_and_disabling(T, o) == {p \in OpsOf(T) \ {o} : can_conflict(T, o, p) \/ can_disable(T, p, o)}

handle_ec(T, s, x, o) ==
  IF ~ is_applicable(T.ops[o], s) THEN apply_s5(T, s, x, o)
  ELSE LET active == active_ops(T, s)
           disabled == {p \in active \ {o} : can_disable(T, o, p)}
           marked[p \in 0 .. Len(T.ops)] ==
             IF p = 0 THEN mark_as_stubborn(T, s, x, conflicting_and_disabling(T, o) \cap active)
             ELSE IF p \in disabled THEN handle_disabled(T, s, marked[p - 1], o, p) ELSE marked[p - 1]
       IN marked[Len(T.ops)]

-----------------------------------------------------------------------------
(* prune_operators.  States that satisfy the goal are not expanded.        *)

NoMarks == [stubborn |-> {}, queue |-> {}, written |-> {}, nes |-> {}]

StubbornInit(t, s, kind) ==
  LET T == Tasks[t]
      goal == find_unsatisfied_condition(s, T.goal)
  IN /\ ~ has_conditional_effects(T) /\ ~ is_goal_state(T, s)
     /\ sTask = t /\ sState = s /\ sKind = kind
     /\ sMarks = IF kind = "simple" THEN mark_as_stubborn(T, s, NoMarks, achievers(T, goal))
                 ELSE add_nes_for_fact(T, s, NoMarks, goal)

handle_stubborn_operator(o) ==
  LET T == Tasks[sTask]
      x == [sMarks EXCEPT !.queue = @ \ {o}]
  IN /\ o \in sMarks.queue
     /\ sMarks' = IF sKind = "simple" THEN handle_simple(T, sState, x, o) ELSE handle_ec(T, sState, x, o)
     /\ UNCHANGED <<sTask, sState, sKind>>

StubbornNext == \E o \in sMarks.queue : handle_stubborn_operator(o)

StubbornIdle(t) == sTask = t /\ sState = <<>> /\ sKind = "none" /\ sMarks = NoMarks

StubbornSpec ==
  /\ \E t \in DOMAIN Tasks :
       StubbornIdle(t) \/ \E s \in StatesOf(Tasks[t]), kind \in {"simple", "ec"} : StubbornInit(t, s, kind)
  /\ [][StubbornNext]_stubbornVars

-----------------------------------------------------------------------------
(* Properties.                                                             *)

\* Cost and length of a best plan, a shortest one of the cheapest.
PlanMeasure ==
  [t \in DOMAIN Tasks |-> LET T == Tasks[t] IN
     Distances(StatesOf(T), {<<e[1], e[2], 1000 * e[3] + 1>> : e \in Transitions[t]},
               {s \in StatesOf(T) : is_goal_state(T, s)})]

\* Pruning preserves completeness and optimality of the search: among the
\* operators that are left is one with which a best plan starts.
PruningKeepsPlans ==
  sKind # "none" /\ sMarks.queue = {} /\ PlanMeasure[sTask][sState] < INFTY =>
    \E e \in Transitions[sTask] :
      /\ e[1] = sState /\ e[4] \in sMarks.stubborn
      /\ PlanMeasure[sTask][sState] = 1000 * e[3] + 1 + PlanMeasure[sTask][e[2]]
=============================================================================
