--------------------------- MODULE AxiomEvaluator ---------------------------
(***************************************************************************)
(* What the search makes of a task file that has axioms (axioms.cc,        *)
(* state_registry.cc): the derived variables of a state are reset to their *)
(* initial values and the rules are applied layer by layer.                *)
(*                                                                         *)
(* A task is [names, layers, init, goal, operators, axioms], see           *)
(* SasEncoding; the layer of a variable that is not derived is -1.         *)
(***************************************************************************)
EXTENDS SasSimplify

is_derived(sas, v) == sas.layers[v] >= 0
default_value(sas, v) == sas.init[v]

\* A rule fires when its last condition is taken from the queue.
Fire(s, x) == IF s.values[x.var] = x.post THEN s
              ELSE [s EXCEPT !.values[x.var] = x.post, !.queue = Append(@, <<x.var, x.post>>)]
Satisfied(s, x) ==
  LET t == [s EXCEPT !.unsatisfied[x] = @ - 1] IN IF t.unsatisfied[x] = 0 THEN Fire(t, x) ELSE t

RECURSIVE HornRules(_, _)
HornRules(sas, s) ==
  LET literal == Last(s.queue)
      condition_of == {x \in sas.axioms : literal \in AsPairs(x.condition)}
  IN IF s.queue = <<>> THEN s
     ELSE HornRules(sas, FoldLeft(Satisfied, [s EXCEPT !.queue = Front(@)], ListOf(condition_of)))

\* Negation by failure: what has its default value keeps it.
NegationByFailure(sas, s, layer) ==
  [s EXCEPT !.queue = @ \o Mapped(LAMBDA v : <<v, s.values[v]>>,
     SelectSeq([v \in SasVariables(sas) |-> v], LAMBDA v : sas.layers[v] = layer /\ s.values[v] = default_value(sas, v)))]

evaluate(sas, values) ==
  LET last_layer == Max(Range(sas.layers) \cup {-1})
      start == [values |-> [v \in SasVariables(sas) |-> IF is_derived(sas, v) THEN default_value(sas, v) ELSE values[v]],
                queue |-> Mapped(LAMBDA v : <<v, values[v]>>, SelectSeq([v \in SasVariables(sas) |-> v], LAMBDA v : ~is_derived(sas, v))),
                unsatisfied |-> [x \in sas.axioms |-> Cardinality(DOMAIN x.condition)]]
      trivial == FoldLeft(Fire, start, ListOf({x \in sas.axioms : x.condition = EmptyMap}))
      layer(s, n) == IF n = last_layer + 1 THEN HornRules(sas, s) ELSE NegationByFailure(sas, HornRules(sas, s), n - 1)
  IN IF sas.axioms = {} THEN values
     ELSE FoldLeft(layer, trivial, [n \in 1 .. last_layer + 1 |-> n]).values

SatisfiedBy(condition, values) == \A v \in DOMAIN condition : values[v] = condition[v]
is_applicable(op, values) == SatisfiedBy(get_applicability_conditions(op), values)

\* The effects that fire, in the order of the file: the last one on a
\* variable counts.
successor(sas, op, values) ==
  LET firing == {e \in op.pre_post : SatisfiedBy(e.cond, values)}
      behind(e, f) == e.pre < f.pre \/ (e.pre = f.pre /\ e.post < f.post)
      winner(v) == CHOOSE e \in firing : e.var = v /\ ~\E f \in firing : f.var = v /\ behind(e, f)
  IN evaluate(sas, [v \in SasVariables(sas) |-> IF \E e \in firing : e.var = v THEN winner(v).post ELSE values[v]])
=============================================================================
