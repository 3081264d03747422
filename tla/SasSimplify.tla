---------------------------- MODULE SasSimplify -----------------------------
(***************************************************************************)
(* What happens to the finite-domain task before it is written: values are *)
(* removed that their variable cannot take (simplify.py), variables that   *)
(* the goal does not depend on are removed and the others put in the order *)
(* of the causal graph (variable_order.py).                                *)
(*                                                                         *)
(* A task is what translate_task makes; removed values and variables are   *)
(* left out of the numbering, so that every fact has to be renamed.        *)
(***************************************************************************)
EXTENDS SasEncoding

SasVariables(sas) == DOMAIN sas.names
AsMap(pairs) == [v \in {p[1] : p \in pairs} |-> (CHOOSE p \in pairs : p[1] = v)[2]]
AsPairs(c) == {<<v, c[v]>> : v \in DOMAIN c}

get_applicability_conditions(op) ==
  AsMap(AsPairs(op.prevail) \cup {<<e.var, e.pre>> : e \in {x \in op.pre_post : x.pre # 0}})

Rank(S, x) == Cardinality({y \in S : y < x}) + 1

-----------------------------------------------------------------------------
(* simplify.py.                                                            *)

\* The values of v an effect starts from; none if its conditions clash.
get_effective_pre(sas, op, e) ==
  LET conditions == {p[2] : p \in {q \in AsPairs(get_applicability_conditions(op)) \cup AsPairs(e.cond) : q[1] = e.var}}
  IN CASE conditions = {} -> ValuesOf(sas.names, e.var) \ {e.post}
       [] Cardinality(conditions) = 1 -> conditions
       [] OTHER -> {}

\* Arcs of the domain transition graph; an axiom starts from everywhere.
Arcs(sas, v) ==
  UNION {UNION {get_effective_pre(sas, op, e) \X {e.post} : e \in {x \in op.pre_post : x.var = v}} : op \in sas.operators}
  \cup UNION {(ValuesOf(sas.names, v) \ {x.post}) \X {x.post} : x \in {y \in sas.axioms : y.var = v}}

RECURSIVE ClosedUnder(_, _)
ClosedUnder(S, arcs) ==
  LET next == S \cup {a[2] : a \in {b \in arcs : b[1] \in S}} IN IF next = S THEN S ELSE ClosedUnder(next, arcs)

\* VarValueRenaming: the values that remain; a variable with one is removed.
build_renaming(sas) == [v \in SasVariables(sas) |-> ClosedUnder({sas.init[v]}, Arcs(sas, v))]

Kept(domains) == {v \in DOMAIN domains : Cardinality(domains[v]) > 1}
always_false(domains, p) == p[2] \notin domains[p[1]]
always_true(domains, p) == p[2] \in domains[p[1]] /\ p[1] \notin Kept(domains)
translate_pair(domains, p) == <<Rank(Kept(domains), p[1]), Rank(domains[p[1]], p[2])>>

Impossible(domains, c) == \E p \in AsPairs(c) : always_false(domains, p)
convert_pairs(domains, c) == AsMap({translate_pair(domains, p) : p \in {q \in AsPairs(c) : ~always_true(domains, q)}})

\* Set of at most one entry: one that changes nothing or cannot trigger goes.
\* The assertions of simplify.py stop a run that violates them.
translate_pre_post(domains, e, conditions) ==
  LET post == translate_pair(domains, <<e.var, e.post>>)
      pre == IF e.pre = 0 THEN 0 ELSE translate_pair(domains, <<e.var, e.pre>>)[2]
      cond == convert_pairs(domains, e.cond)
      possible(d) == d # 0 => ~always_false(domains, <<e.var, d>>)
  IN IF \/ always_true(domains, <<e.var, e.post>>)
        \/ Assert(possible(e.pre), "new_pre is always_false") /\ e.pre = e.post
        \/ Impossible(domains, e.cond) \/ ~Compatible(cond, conditions)
     THEN {}
     ELSE {x \in {[var |-> post[1], pre |-> pre, post |-> post[2], cond |-> cond]} :
             /\ Assert(possible(e.post), "new_post is always_false")
             /\ Assert(e.pre # 0 => ~always_true(domains, <<e.var, e.pre>>), "new_pre is always_true")}

translate_operator(domains, op) ==
  LET applicability == get_applicability_conditions(op)
      conditions == convert_pairs(domains, applicability)
      pre_post == UNION {translate_pre_post(domains, e, conditions) : e \in op.pre_post}
  IN IF Impossible(domains, applicability) \/ pre_post = {} THEN {}
     ELSE {[name |-> op.name, cost |-> op.cost, pre_post |-> pre_post,
            prevail |-> Without(conditions, {e.var : e \in pre_post})]}

apply_to_axiom(domains, x) ==
  LET pair == translate_pair(domains, <<x.var, x.post>>)
  IN IF \/ Impossible(domains, x.condition)
        \/ Assert(~always_false(domains, <<x.var, x.post>>), "new_value is always_false")
           /\ always_true(domains, <<x.var, x.post>>)
     THEN {}
     ELSE {[condition |-> convert_pairs(domains, x.condition), var |-> pair[1], post |-> pair[2]]}

filter_unreachable_propositions(sas) ==
  LET domains == build_renaming(sas)
      kept == Sorted(Kept(domains), LAMBDA a, b : a < b)
      values(v) == Sorted(domains[v], LAMBDA a, b : a < b)
      goal == convert_pairs(domains, sas.goal)
      facts(group) == {translate_pair(domains, p) : p \in {q \in group : ~always_false(domains, q) /\ ~always_true(domains, q)}}
  IN IF Impossible(domains, sas.goal) THEN trivial_task(FALSE)
     ELSE IF goal = EmptyMap THEN trivial_task(TRUE)
     ELSE [sas EXCEPT !.names = Mapped(LAMBDA v : Mapped(LAMBDA d : sas.names[v][d], values(v)), kept),
                      !.layers = Mapped(LAMBDA v : sas.layers[v], kept),
                      !.init = Mapped(LAMBDA v : Rank(domains[v], sas.init[v]), kept),
                      !.mutexes = {facts(g) : g \in {h \in sas.mutexes : Cardinality(facts(h)) >= 2}},
                      !.goal = goal,
                      !.operators = UNION {translate_operator(domains, op) : op \in sas.operators},
                      !.axioms = UNION {apply_to_axiom(domains, x) : x \in sas.axioms}]

-----------------------------------------------------------------------------
(* variable_order.py.                                                      *)

\* One for every effect on v and every condition on u of the operator or of
\* the effect; a source that has several effects counts several times.
weighted_graph(sas, u, v) ==
  LET ofOperator(op) ==
        LET effects == {e \in op.pre_post : e.var = v}
            source == Cardinality(DOMAIN op.prevail \cap {u}) + Cardinality({e \in op.pre_post : e.var = u /\ e.pre # 0})
        IN source * Cardinality(effects) + Cardinality({e \in effects : u \in DOMAIN e.cond})
  IN IF u = v THEN 0
     ELSE MapThenSumSet(ofOperator, sas.operators) + Cardinality({x \in sas.axioms : x.var = v /\ u \in DOMAIN x.condition})

Edges(sas) == {<<u, v>> \in SasVariables(sas) \X SasVariables(sas) : weighted_graph(sas, u, v) > 0}

calculate_important_vars(sas) == ClosedUnder(DOMAIN sas.goal, {<<e[2], e[1]>> : e \in Edges(sas)})

\* MaxDAG: of the variables left in a component the one with the smallest
\* weight of incoming edges is next; edges to a goal variable weigh more,
\* and that does not get less when their source has gone.
RECURSIVE MaxDAG(_, _, _)
MaxDAG(sas, component, done) ==
  LET left == component \ Range(done)
      into(v) == MapThenSumSet(LAMBDA u : weighted_graph(sas, u, v), left)
      sources(v) == {u \in component : weighted_graph(sas, u, v) > 0}
      incoming_weight(v) == IF v \in DOMAIN sas.goal THEN 100000 * Cardinality(sources(v)) + 2 * into(v) ELSE into(v)
      next == CHOOSE v \in left : \A u \in left : incoming_weight(v) <= incoming_weight(u)
  IN IF left = {} THEN done ELSE MaxDAG(sas, component, Append(done, next))

\* Strongly connected components, those that others depend on first.
get_ordering(sas) ==
  LET edges == Edges(sas)
      after == [v \in SasVariables(sas) |-> ClosedUnder({v}, edges)]
      component(v) == {u \in after[v] : v \in after[u]}
      components == {component(v) : v \in SasVariables(sas)}
      position(C) == Cardinality({v \in SasVariables(sas) \ C : C \cap after[v] # {}})
      before(C, D) == position(C) < position(D) \/ (position(C) = position(D) /\ Min(C) < Min(D))
  IN FlattenSeq(Mapped(LAMBDA C : MaxDAG(sas, C, <<>>), Sorted(components, before)))

\* VariableOrder: variables that are not in the ordering are left out.
apply_to_task(sas, ordering) ==
  LET new_var(v) == CHOOSE i \in DOMAIN ordering : ordering[i] = v
      renamed(c) == AsMap({<<new_var(v), c[v]>> : v \in DOMAIN c \cap Range(ordering)})
      facts(g) == {<<new_var(p[1]), p[2]>> : p \in {q \in g : q[1] \in Range(ordering)}}
      pre_post(op) == {[e EXCEPT !.var = new_var(@), !.cond = renamed(@)] : e \in {x \in op.pre_post : x.var \in Range(ordering)}}
  IN [sas EXCEPT !.names = Mapped(LAMBDA v : sas.names[v], ordering),
                 !.layers = Mapped(LAMBDA v : sas.layers[v], ordering),
                 !.init = Mapped(LAMBDA v : sas.init[v], ordering),
                 !.goal = renamed(@),
                 !.mutexes = {facts(g) : g \in {h \in @ : Cardinality({p[1] : p \in facts(h)}) > 1}},
                 !.operators = {[op EXCEPT !.pre_post = pre_post(op), !.prevail = renamed(@)] :
                                  op \in {o \in @ : pre_post(o) # {}}},
                 !.axioms = {[x EXCEPT !.var = new_var(@), !.condition = renamed(@)] :
                               x \in {y \in @ : y.var \in Range(ordering)}}]

find_and_apply_variable_order(sas, reorder_vars, filter_unimportant_vars) ==
  LET order == IF reorder_vars THEN get_ordering(sas) ELSE [v \in SasVariables(sas) |-> v]
      necessary == calculate_important_vars(sas)
  IN IF ~reorder_vars /\ ~filter_unimportant_vars THEN sas
     ELSE apply_to_task(sas, IF filter_unimportant_vars THEN SelectSeq(order, LAMBDA v : v \in necessary) ELSE order)
=============================================================================
