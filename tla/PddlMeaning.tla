---------------------------- MODULE PddlMeaning -----------------------------
(***************************************************************************)
(* The reference for the translator: what a planning task in PDDL means,   *)
(* defined on the trees of the input.  A state is the set of atoms that    *)
(* are true; derived atoms are the least ones that their rules yield,      *)
(* stratum by stratum (D.strata is a sequence of sets of predicates).      *)
(***************************************************************************)
EXTENDS Pddl

TypedObjects(D, type) ==
  {Obj(o.name) : o \in {p \in Range(D.objects) : type \in {p.type} \cup D.supertypes[p.type]}}

\* All ways to give objects to the parameters.
Bindings(D, params) ==
  FoldLeft(LAMBDA S, p : {(p.var :> o) @@ b : <<o, b>> \in TypedObjects(D, p.type) \X S}, {EmptyMap}, params)
Bound(D, params, b) == {c @@ b : c \in Bindings(D, params)}

IsType(D, p) == p \notin {q.name : q \in Range(D.predicates)}

RECURSIVE IsTrue(_, _, _, _)
IsTrue(D, S, c, b) ==
  LET args == Filled(c.args, b) IN
  CASE c.tag = "atom" /\ c.predicate = "=" -> args[1] = args[2]
    [] c.tag = "atom" /\ c.predicate # "=" ->
         IF IsType(D, c.predicate) THEN args[1] \in TypedObjects(D, c.predicate) ELSE Atom(c.predicate, args) \in S
    [] c.tag = "and" -> \A p \in Range(c.parts) : IsTrue(D, S, p, b)
    [] c.tag = "or" -> \E p \in Range(c.parts) : IsTrue(D, S, p, b)
    [] c.tag = "not" -> ~IsTrue(D, S, c.parts[1], b)
    [] c.tag = "imply" -> IsTrue(D, S, c.parts[1], b) => IsTrue(D, S, c.parts[2], b)
    [] c.tag = "forall" -> \A e \in Bound(D, c.parameters, b) : IsTrue(D, S, c.parts[1], e)
    [] c.tag = "exists" -> \E e \in Bound(D, c.parameters, b) : IsTrue(D, S, c.parts[1], e)

RECURSIVE LeastDerived(_, _, _)
LeastDerived(D, rules, S) ==
  LET heads(x) == {Atom(x.name, Filled(Mapped(LAMBDA p : p.var, x.parameters), b)) :
                     b \in {c \in Bindings(D, x.parameters) : IsTrue(D, S, x.condition, c)}}
      next == S \cup UNION {heads(x) : x \in rules}
  IN IF next = S THEN S ELSE LeastDerived(D, rules, next)

\* A state together with its derived atoms.
WithDerived(D, S) ==
  FoldLeft(LAMBDA Q, names : LeastDerived(D, {x \in Range(D.axioms) : x.name \in names}, Q), S, D.strata)

\* The literals an effect makes true.
RECURSIVE Outcomes(_, _, _, _)
Outcomes(D, S, e, b) ==
  CASE e.tag = "and" -> UNION {Outcomes(D, S, p, b) : p \in Range(e.parts)}
    [] e.tag = "forall" -> UNION {Outcomes(D, S, e.effect, c) : c \in Bound(D, e.parameters, b)}
    [] e.tag = "when" -> IF IsTrue(D, S, e.condition, b) THEN Outcomes(D, S, e.effect, b) ELSE {}
    [] e.tag = "increase" -> {}
    [] e.tag = "not" -> {Literal(TRUE, e.parts[1].predicate, Filled(e.parts[1].args, b))}
    [] e.tag = "atom" -> {Atom(e.predicate, Filled(e.args, b))}

CostOf(D, a, b) ==
  LET costs == SelectSeq(Conjuncts(a.effect), IsCost)
  IN IF ~D.use_metric THEN 1
     ELSE IF costs = <<>> THEN 0 ELSE D.costs[<<costs[1].expression.symbol, Filled(costs[1].expression.args, b)>>]

\* Adds win over deletes.
AppliedTo(S, outcomes) == (S \ {negate(l) : l \in {m \in outcomes : m.negated}}) \cup {l \in outcomes : ~l.negated}

\* The steps from a state: [name, cost, to].
Steps(D, S) ==
  LET full == WithDerived(D, S)
      names(a) == Mapped(LAMBDA p : p.var, a.parameters)
  IN UNION {{[name |-> <<a.name, Filled(names(a), b)>>, cost |-> CostOf(D, a, b),
              to |-> AppliedTo(S, Outcomes(D, full, a.effect, b))] :
               b \in {c \in Bindings(D, a.parameters) : IsTrue(D, full, a.precondition, c)}} : a \in Range(D.actions)}

RECURSIVE ReachableFrom(_, _)
ReachableFrom(D, states) ==
  LET next == states \cup {s.to : s \in UNION {Steps(D, S) : S \in states}}
  IN IF next = states THEN states ELSE ReachableFrom(D, next)

\* The states that can be reached, with their derived atoms and steps.
Meaning(D) ==
  {[atoms |-> S, full |-> WithDerived(D, S), steps |-> Steps(D, S), goal |-> IsTrue(D, WithDerived(D, S), D.goal, EmptyMap)] :
     S \in ReachableFrom(D, {D.init})}
=============================================================================
