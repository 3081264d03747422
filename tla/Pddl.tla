-------------------------------- MODULE Pddl --------------------------------
(***************************************************************************)
(* The planning tasks of the translator (src/src/translate/pddl) and what  *)
(* the parser makes of the input (pddl_parser/parsing_functions.py):       *)
(* conditions in negation normal form, effects as a list of single literals*)
(* with a condition and quantified variables, and variables that are named *)
(* apart in an action or axiom.                                            *)
(*                                                                         *)
(* A term is <<name, n>>: an object with n = 0, a variable with n > 0; the *)
(* variables of the input have n = 1, renaming takes the next number that  *)
(* is free.  A condition or effect of the input is a record with a tag, as *)
(* the parser reads it from a list.                                        *)
(***************************************************************************)
EXTENDS Integers, Sequences, FiniteSets, SequencesExt

Mapped(f(_), s) == [i \in DOMAIN s |-> f(s[i])]
\* The elements of a set in a fixed order, where the code sorts.
ListOf(S) == FoldSet(LAMBDA x, q : Append(q, x), <<>>, S)
Sorted(S, before(_, _)) == SortSeq(ListOf(S), before)
EmptyMap == [x \in {} |-> x]
Obj(o) == <<o, 0>>
IsVariable(a) == a[2] > 0
Filled(args, binding) == Mapped(LAMBDA a : IF a \in DOMAIN binding THEN binding[a] ELSE a, args)

-----------------------------------------------------------------------------
(* pddl/conditions.py.                                                     *)

Truth == [t |-> "true"]
Falsity == [t |-> "false"]
Literal(negated, p, args) == [t |-> "literal", negated |-> negated, predicate |-> p, args |-> args]
Atom(p, args) == Literal(FALSE, p, args)
Junction(t, parts) == [t |-> t, parts |-> parts]
Quantified(t, params, part) == [t |-> t, parameters |-> params, parts |-> <<part>>]

IsQuantified(c) == c.t \in {"forall", "exists"}
PartsOf(c) == IF IsQuantified(c) \/ c.t \in {"and", "or"} THEN c.parts ELSE <<>>
change_parts(c, parts) == IF PartsOf(c) = <<>> THEN c ELSE [c EXCEPT !.parts = parts]

Dual == [and |-> "or", or |-> "and", forall |-> "exists", exists |-> "forall"]

RECURSIVE negate(_)
negate(c) ==
  CASE c = Truth -> Falsity
    [] c = Falsity -> Truth
    [] c.t = "literal" -> [c EXCEPT !.negated = ~@]
    [] OTHER -> [c EXCEPT !.t = Dual[c.t], !.parts = Mapped(negate, c.parts)]

RECURSIVE simplified(_)
simplified(c) ==
  LET parts == Mapped(simplified, PartsOf(c))
      neutral == IF c.t = "and" THEN Truth ELSE Falsity
      absorbing == negate(neutral)
      flat == FlattenSeq(Mapped(LAMBDA p : IF p.t = c.t THEN p.parts ELSE IF p = neutral THEN <<>> ELSE <<p>>, parts))
  IN CASE IsQuantified(c) -> IF parts[1] \in {Truth, Falsity} THEN parts[1] ELSE change_parts(c, parts)
       [] c.t \in {"and", "or"} -> IF absorbing \in Range(parts) THEN absorbing
                                   ELSE IF flat = <<>> THEN neutral
                                   ELSE IF Len(flat) = 1 THEN flat[1] ELSE Junction(c.t, flat)
       [] OTHER -> c

RECURSIVE free_variables(_)
free_variables(c) ==
  IF c.t = "literal" THEN {a \in Range(c.args) : IsVariable(a)}
  ELSE UNION {free_variables(p) : p \in Range(PartsOf(c))} \
         (IF IsQuantified(c) THEN {q.var : q \in Range(c.parameters)} ELSE {})

\* has_disjunction, has_existential_part and has_universal_part.
RECURSIVE Has(_, _)
Has(c, t) == c.t = t \/ \E p \in Range(PartsOf(c)) : Has(p, t)

(* Naming apart: a type map holds the variables seen so far.               *)

uniquify_name(s, par) ==
  LET fresh == CHOOSE v \in {<<par.var[1], n>> : n \in 1 .. Cardinality(DOMAIN s.types) + 1} :
                 /\ v \notin DOMAIN s.types
                 /\ \A n \in 1 .. v[2] - 1 : <<par.var[1], n>> \in DOMAIN s.types
      name == IF par.var \notin DOMAIN s.types THEN par.var ELSE fresh
  IN [types |-> s.types @@ (name :> par.type),
      renamed |-> IF name = par.var THEN s.renamed ELSE (par.var :> name) @@ s.renamed,
      params |-> Append(s.params, [par EXCEPT !.var = name])]

UniqueParameters(params, types, renamed) ==
  FoldLeft(uniquify_name, [types |-> types, renamed |-> renamed, params |-> <<>>], params)

RECURSIVE uniquify_variables(_, _, _)
uniquify_variables(c, types, renamed) ==
  LET q == UniqueParameters(c.parameters, types, renamed)
      below == IF IsQuantified(c) THEN q ELSE [types |-> types, renamed |-> renamed]
      parts == FoldLeft(LAMBDA s, p : LET u == uniquify_variables(p, s.types, below.renamed)
                                      IN [types |-> u.types, parts |-> Append(s.parts, u.condition)],
                        [types |-> below.types, parts |-> <<>>], PartsOf(c))
  IN CASE c.t = "literal" -> [types |-> types, condition |-> [c EXCEPT !.args = Filled(@, renamed)]]
       [] IsQuantified(c) -> [types |-> parts.types, condition |-> [c EXCEPT !.parameters = q.params, !.parts = parts.parts]]
       [] OTHER -> [types |-> parts.types, condition |-> change_parts(c, parts.parts)]

TypesOf(params) == FoldLeft(LAMBDA f, p : (p.var :> p.type) @@ f, EmptyMap, params)

-----------------------------------------------------------------------------
(* Actions and axioms are named apart where they are made.                 *)

UniqueEffect(s, e) ==
  LET q == UniqueParameters(e.parameters, s.types, EmptyMap)
      u == uniquify_variables(e.condition, q.types, q.renamed)
  IN [types |-> u.types,
      effects |-> Append(s.effects, [parameters |-> q.params, condition |-> u.condition,
                                     literal |-> [e.literal EXCEPT !.args = Filled(@, q.renamed)]])]

Action(name, params, precondition, effects, cost) ==
  LET u == uniquify_variables(precondition, TypesOf(params), EmptyMap)
      e == FoldLeft(UniqueEffect, [types |-> u.types, effects |-> <<>>], effects)
  IN [name |-> name, parameters |-> params, num_external |-> Len(params), precondition |-> u.condition,
      effects |-> e.effects, cost |-> cost, type_map |-> e.types]

Axiom(name, params, condition) ==
  LET u == uniquify_variables(condition, TypesOf(params), EmptyMap)
  IN [name |-> name, parameters |-> params, num_external |-> Len(params),
      condition |-> u.condition, type_map |-> u.types]

-----------------------------------------------------------------------------
(* The parser.  A tree is [tag |-> "and" | "or" | "imply" | "not", parts], *)
(* [tag |-> "forall" | "exists", parameters, parts] or                     *)
(* [tag |-> "atom", predicate, args].                                      *)

get_predicate_name(type) == "type@" \o type

\* A type that is used as a predicate.
PredicateId(D, p) == IF p \in {"="} \cup {q.name : q \in Range(D.predicates)} THEN p ELSE get_predicate_name(p)

RECURSIVE parse_condition(_, _, _)
parse_condition(D, x, negated) ==
  LET parts == IF x.tag = "imply" THEN <<parse_condition(D, x.parts[1], ~negated), parse_condition(D, x.parts[2], negated)>>
               ELSE Mapped(LAMBDA p : parse_condition(D, p, negated), x.parts)
      tag == IF x.tag = "imply" THEN "or" ELSE IF negated THEN Dual[x.tag] ELSE x.tag
  IN CASE x.tag = "atom" -> Literal(negated, PredicateId(D, x.predicate), x.args)
       [] x.tag = "not" -> parse_condition(D, x.parts[1], ~negated)
       [] x.tag \in {"forall", "exists"} -> Quantified(tag, x.parameters, parts[1])
       [] OTHER -> Junction(tag, parts)

(* Effects: [tag |-> "and", parts], [tag |-> "forall", parameters, effect],*)
(* [tag |-> "when", condition, effect], [tag |-> "increase", expression],  *)
(* or an atom or its negation.                                             *)

\* Nested conjunctions are one, so a cost counts in any of them.
RECURSIVE Conjuncts(_)
Conjuncts(e) == IF e.tag = "and" THEN FlattenSeq(Mapped(Conjuncts, e.parts)) ELSE <<e>>

RECURSIVE NormalEffects(_, _)
NormalEffects(D, e) ==
  LET below == NormalEffects(D, e.effect)
      condition == parse_condition(D, e.condition, FALSE)
  IN CASE e.tag = "and" -> FlattenSeq(Mapped(LAMBDA p : NormalEffects(D, p), e.parts))
       [] e.tag = "forall" -> Mapped(LAMBDA f : [f EXCEPT !.parameters = e.parameters \o @], below)
       [] e.tag = "when" -> Mapped(LAMBDA f : [f EXCEPT !.condition = simplified(Junction("and", <<condition, @>>))], below)
       [] OTHER -> <<[parameters |-> <<>>, condition |-> Truth, literal |-> parse_condition(D, e, FALSE)]>>

\* The assertions of ConditionalEffect.normalize and of add_effect fail: a
\* conjunction under a condition holds a quantifier, or a cost is not at the
\* top or is all there is.
RECURSIVE Malformed(_)
Malformed(e) ==
  CASE e.tag = "increase" -> TRUE
    [] e.tag = "and" -> \E p \in Range(Conjuncts(e)) : Malformed(p)
    [] e.tag = "forall" -> Malformed(e.effect)
    [] e.tag = "when" -> \/ Malformed(e.effect)
                         \/ e.effect.tag = "and" /\ \E p \in Range(Conjuncts(e.effect)) : p.tag = "forall"
    [] OTHER -> FALSE

IsCost(e) == e.tag = "increase"
EffectFails(e) ==
  IF e.tag = "and" THEN \E p \in Range(Conjuncts(e)) : ~IsCost(p) /\ Malformed(p) ELSE Malformed(e)

\* Add-after-delete semantics, for effects that are written alike.
add_effect(result, e) ==
  LET contradiction == [e EXCEPT !.literal = negate(@)]
  IN IF contradiction \notin Range(result) THEN Append(result, e)
     ELSE IF e.literal.negated THEN result ELSE Append(Remove(result, contradiction), e)

parse_effects(D, e) ==
  FoldLeft(add_effect, <<>>, FlattenSeq(Mapped(LAMBDA p : NormalEffects(D, p), SelectSeq(Conjuncts(e), LAMBDA p : ~IsCost(p)))))

ExtractedCost(e) ==
  LET costs == SelectSeq(Conjuncts(e), IsCost) IN IF costs = <<>> THEN <<>> ELSE <<Last(costs).expression>>

\* Sequence of at most one action: one without an effect is dropped.
parse_action(D, a) ==
  LET effects == parse_effects(D, a.effect)
      precondition == IF a.precondition = [tag |-> "and", parts |-> <<>>] THEN Junction("and", <<>>)
                      ELSE simplified(parse_condition(D, a.precondition, FALSE))
  IN IF effects = <<>> THEN <<>>
     ELSE <<Action(a.name, a.parameters, precondition, effects, ExtractedCost(a.effect))>>

parse_axiom(D, x) == Axiom(x.name, x.parameters, parse_condition(D, x.condition, FALSE))

ParseFails(D) ==
  \/ \E a \in Range(D.actions) : EffectFails(a.effect)
  \/ D.init \cap D.init_false # {}

\* A task: the facts of the initial state are atoms, with the objects equal
\* to themselves; the goal is not named apart.
parse_task(D) ==
  [objects |-> D.objects,
   predicates |-> D.predicates,
   supertypes |-> D.supertypes,
   init |-> D.init \cup {Atom("=", <<Obj(o.name), Obj(o.name)>>) : o \in Range(D.objects)},
   costs |-> D.costs,
   goal |-> parse_condition(D, D.goal, FALSE),
   actions |-> FlattenSeq(Mapped(LAMBDA a : parse_action(D, a), D.actions)),
   axioms |-> Mapped(LAMBDA x : parse_axiom(D, x), D.axioms),
   counter |-> 0,
   use_metric |-> D.use_metric]
=============================================================================
