----------------------------- MODULE Instantiate -----------------------------
(***************************************************************************)
(* instantiate.py and the instantiation of conditions, effects, actions and*)
(* axioms (pddl/*.py): what of a condition is known from the initial state *)
(* is evaluated, what can change stays.                                    *)
(***************************************************************************)
EXTENDS Datalog

get_fluent_facts(T, model) ==
  LET fluent == UNION {{e.literal.predicate : e \in Range(a.effects)} : a \in Range(T.actions)}
                \cup {x.name : x \in Range(T.axioms)}
  IN {f \in model : f.predicate \in fluent}

get_objects_by_type(T, type) ==
  {Obj(o.name) : o \in {p \in Range(T.objects) : type \in {p.type} \cup T.supertypes[p.type]}}

Positive(l) == [l EXCEPT !.negated = FALSE]
Ground(l, binding) == [l EXCEPT !.args = Filled(@, binding)]

\* The literals of a condition; one of a static fact is true or Impossible.
Literals(c, binding) == Mapped(LAMBDA l : IF l.t = "literal" THEN Ground(l, binding) ELSE l, ConjunctsOf(c))
Possible(T, fluents, c, binding) ==
  \A l \in Range(Literals(c, binding)) :
    /\ l # Falsity
    /\ l.t = "literal" /\ Positive(l) \notin fluents => (Positive(l) \in T.init) = ~l.negated
Instance(fluents, c, binding) ==
  SelectSeq(Literals(c, binding), LAMBDA l : l.t = "literal" /\ Positive(l) \in fluents)

\* Bindings of the quantified variables of an effect.
EffectBindings(T, params, binding) ==
  LET choices == {f \in [{p.var : p \in Range(params)} -> {Obj(o.name) : o \in Range(T.objects)}] :
                    \A p \in Range(params) : f[p.var] \in get_objects_by_type(T, p.type)}
  IN Mapped(LAMBDA f : f @@ binding, ListOf(choices))

InstantiateEffect(T, fluents, e, binding) ==
  FlattenSeq(Mapped(LAMBDA b : IF Possible(T, fluents, e.condition, b) /\ Positive(Ground(e.literal, b)) \in fluents
                               THEN <<[condition |-> Instance(fluents, e.condition, b), literal |-> Ground(e.literal, b)]>>
                               ELSE <<>>, EffectBindings(T, e.parameters, binding)))

\* A delete effect goes if the same is added under the same condition.
DeleteEffects(effects) ==
  SelectSeq(effects, LAMBDA e : e.literal.negated /\ [e EXCEPT !.literal = Positive(@)] \notin Range(effects))

ActionCost(T, a, binding) ==
  IF ~T.use_metric THEN 1
  ELSE IF a.cost = <<>> THEN 0 ELSE T.costs[<<a.cost[1].symbol, Filled(a.cost[1].args, binding)>>]

\* Sequences of at most one element.
InstantiateAction(T, fluents, a, args) ==
  LET binding == [v \in Range(Names(a.parameters)) |-> args[CHOOSE k \in DOMAIN args : a.parameters[k].var = v]]
      effects == FlattenSeq(Mapped(LAMBDA e : InstantiateEffect(T, fluents, e, binding), a.effects))
  IN IF Possible(T, fluents, a.precondition, binding) /\ effects # <<>>
     THEN <<[name |-> <<a.name, SubSeq(args, 1, a.num_external)>>,
             precondition |-> Instance(fluents, a.precondition, binding),
             add_effects |-> SelectSeq(effects, LAMBDA e : ~e.literal.negated),
             del_effects |-> DeleteEffects(effects),
             cost |-> ActionCost(T, a, binding)]>>
     ELSE <<>>

InstantiateAxiom(T, fluents, x, args) ==
  LET binding == [v \in Range(Names(x.parameters)) |-> args[CHOOSE k \in DOMAIN args : x.parameters[k].var = v]]
  IN IF Possible(T, fluents, x.condition, binding)
     THEN <<[condition |-> Instance(fluents, x.condition, binding), effect |-> Atom(x.name, SubSeq(args, 1, x.num_external))]>>
     ELSE <<>>

\* model is the sequence of atoms in the order they were reached.
instantiate(T, model) ==
  LET fluents == get_fluent_facts(T, Range(model))
      of(predicate) == SelectSeq(model, LAMBDA f : f.predicate = predicate)
      actions(i) == FlattenSeq(Mapped(LAMBDA f : InstantiateAction(T, fluents, T.actions[i], f.args), of(action_predicate(i))))
      axioms(i) == FlattenSeq(Mapped(LAMBDA f : InstantiateAxiom(T, fluents, T.axioms[i], f.args), of(axiom_predicate(i))))
  IN [relaxed_reachable |-> goal_reachable \in Range(model),
      atoms |-> fluents,
      actions |-> FlattenSeq([i \in DOMAIN T.actions |-> actions(i)]),
      axioms |-> FlattenSeq([i \in DOMAIN T.axioms |-> axioms(i)]),
      \* reachable_action_parameters
      parameters |-> [i \in DOMAIN T.actions |-> {f.args : f \in Range(of(action_predicate(i)))}]]
=============================================================================
