----------------------------- MODULE Invariants ------------------------------
(***************************************************************************)
(* The mutex groups of the translator (invariant_finder.py, invariants.py, *)
(* constraints.py).  An invariant is a set of parts: for all values of its *)
(* variables at most one fact of its parts is true.  A candidate is        *)
(* accepted when no action adds two of its facts, and every action that    *)
(* adds one deletes one; otherwise it is refined by a part that the action *)
(* deletes.                                                                *)
(*                                                                         *)
(* A part is [predicate, order, omitted]: order gives the position of every*)
(* variable of the invariant among the arguments, and omitted the position *)
(* that is counted, 0 for none.                                            *)
(***************************************************************************)
EXTENDS Instantiate

-----------------------------------------------------------------------------
(* constraints.py.  A system is [alternatives, negative]: for every element*)
(* of the sequence alternatives one of the sets of equations holds, and of *)
(* every set in negative one pair is different.                            *)

NoConstraints == [alternatives |-> <<>>, negative |-> {}]
add_assignment(system, equalities) == [system EXCEPT !.alternatives = Append(@, {equalities})]
add_negative_clause(system, clause) == [system EXCEPT !.negative = @ \cup {clause}]
combine(a, b) == [alternatives |-> a.alternatives \o b.alternatives, negative |-> a.negative \cup b.negative]
Pairs(a, b) == {<<a[i], b[i]>> : i \in DOMAIN a \cap DOMAIN b}

\* Every term is mapped to one of its class, to the object if there is one;
\* two objects in a class are a contradiction.
get_mapping(equalities) ==
  LET merge(e, m) ==
        LET a == m.map[e[1]] b == m.map[e[2]] keep == IF IsVariable(a) THEN b ELSE a IN
        [map |-> [x \in DOMAIN m.map |-> IF m.map[x] \in {a, b} THEN keep ELSE m.map[x]],
         consistent |-> m.consistent /\ (a = b \/ IsVariable(a) \/ IsVariable(b))]
  IN FoldSet(merge, [map |-> [x \in UNION {{e[1], e[2]} : e \in equalities} |-> x], consistent |-> TRUE], equalities)

Image(map, x) == IF x \in DOMAIN map THEN map[x] ELSE x

Unions(alternatives) == FoldLeft(LAMBDA S, sets : {a \cup b : <<a, b>> \in S \X sets}, {{}}, alternatives)

is_solvable(system) ==
  \E equalities \in Unions(system.alternatives) :
    LET m == get_mapping(equalities) IN
    /\ m.consistent
    /\ \A clause \in system.negative : \E p \in clause : Image(m.map, p[1]) # Image(m.map, p[2])

-----------------------------------------------------------------------------
(* Parts and invariants.                                                   *)

Predicates(I) == {p.predicate : p \in I}
PartOf(I, predicate) == CHOOSE p \in I : p.predicate = predicate
get_parameters(part, atom) == Mapped(LAMBDA k : atom.args[k], part.order)
Arity(I) == Len((CHOOSE p \in I : TRUE).order)
InvVars(I) == [k \in 1 .. Arity(I) |-> <<"?v", k>>]

\* Parts of the other predicate that take the same values: every variable
\* finds a position of its own, and at most one position is left.
possible_matches(part, own, other) ==
  LET params == get_parameters(part, own)
      orders == {f \in [DOMAIN params -> DOMAIN other.args] :
                   /\ IsInjective(f)
                   /\ \A k \in DOMAIN f : other.args[f[k]] = params[k]}
  IN IF Len(other.args) - Len(part.order) \notin {0, 1} THEN {}
     ELSE {[predicate |-> other.predicate, order |-> f,
            omitted |-> IF Len(other.args) = Len(f) THEN 0 ELSE CHOOSE k \in DOMAIN other.args : k \notin Range(f)] : f \in orders}

get_covering(I, literal) == Pairs(InvVars(I), get_parameters(PartOf(I, literal.predicate), literal))
ensure_cover(system, literal, I) == add_assignment(system, get_covering(I, literal))

\* Equalities and inequalities of the literals, and no literal with its
\* negation.
ensure_conjunction_sat(system, literals) ==
  LET equal == {l \in literals : l.predicate = "="}
      clash == {Pairs(n.args, p.args) : <<n, p>> \in
                  {<<x, y>> \in (literals \ equal) \X (literals \ equal) : x.negated /\ ~y.negated /\ x.predicate = y.predicate}}
  IN FoldSet(LAMBDA l, s : add_assignment(s, {<<l.args[1], l.args[2]>>}),
             [system EXCEPT !.negative = @ \cup {{<<l.args[1], l.args[2]>>} : l \in {x \in equal : x.negated}} \cup (clash \ {{}})],
             {l \in equal : ~l.negated})

get_literals(c) == {l \in Range(ConjunctsOf(c)) : l.t = "literal"}

-----------------------------------------------------------------------------
(* BalanceChecker.                                                         *)

\* Parameters that are never equal are different.
add_inequality_preconds(a, parameters) ==
  LET n == Len(a.parameters)
      different == {<<i, k>> \in (1 .. n) \X (1 .. n) : i < k /\ \A args \in parameters : args[i] # args[k]}
      unequal == Mapped(LAMBDA p : Literal(TRUE, "=", <<a.parameters[p[1]].var, a.parameters[p[2]].var>>), ListOf(different))
  IN IF different = {} THEN a
     ELSE [Action(a.name, a.parameters, simplified(Junction("and", <<a.precondition>> \o unequal)), a.effects, a.cost)
             EXCEPT !.num_external = a.num_external]

\* Universal effects twice, under different variables.
get_heavy_action(a) ==
  Action(a.name, a.parameters, a.precondition,
         FlattenSeq(Mapped(LAMBDA e : IF e.parameters = <<>> THEN <<e>> ELSE <<e, e>>, a.effects)), a.cost)

Covers(I, e) == e.literal.predicate \in Predicates(I)
AddEffects(I, a) == SelectSeq(a.effects, LAMBDA e : Covers(I, e) /\ ~e.literal.negated)
DelEffects(I, a) == SelectSeq(a.effects, LAMBDA e : Covers(I, e) /\ e.literal.negated)

\* ensure_inequality never adds a constraint: literals have no parts.
operator_too_heavy(I, heavy) ==
  LET adds == AddEffects(I, heavy)
      system(e, f) ==
        ensure_conjunction_sat(ensure_cover(ensure_cover(NoConstraints, e.literal, I), f.literal, I),
                               UNION {get_literals(c) : c \in {heavy.precondition, e.condition, f.condition}}
                               \cup {negate(e.literal), negate(f.literal)})
  IN \E i \in DOMAIN adds : \E k \in i + 1 .. Len(adds) : is_solvable(system(adds[i], adds[k]))
\* The bindings of the action for which the add effect is covered, as far
\* as they follow from that.
minimal_covering_renaming(I, a, add) ==
  LET covering == get_covering(I, add.literal)
      map == get_mapping(covering).map
      params == Names(a.parameters)
      distinct == {{<<params[i], params[k]>>} : <<i, k>> \in
                     {<<x, y>> \in (DOMAIN params) \X (DOMAIN params) : x < y /\ Image(map, params[x]) # Image(map, params[y])}}
  IN [add_assignment(NoConstraints, covering) EXCEPT !.negative = distinct]

\* What implies that the effect deletes a fact that is true: for every
\* literal one of those known to hold; empty for never.
imply_del_effect(del, lhs) ==
  LET needed == ListOf(get_literals(del.condition) \cup {negate(del.literal)})
      known(l) == {Pairs(l.args, m.args) : m \in {x \in lhs : x.predicate = l.predicate /\ x.negated = l.negated}}
  IN IF \E l \in Range(needed) : known(l) = {} THEN <<>> ELSE <<[NoConstraints EXCEPT !.alternatives = Mapped(known, needed)]>>

\* The delete effect does not balance the add effect.  The constants of
\* the delete effect must follow from the renaming; the test asks whether
\* all of them can be different at once.
unbalanced_renaming(I, del, lhs, renaming) ==
  LET covering == get_covering(I, del.literal)
      constants == {{e} : e \in {x \in covering : ~IsVariable(x[2])}}
      implied == imply_del_effect(del, lhs)
      covered == combine(add_assignment(NoConstraints, covering), renaming)
  IN \/ constants # {} /\ is_solvable([renaming EXCEPT !.negative = @ \cup constants])
     \/ IF ~is_solvable(ensure_conjunction_sat(renaming, lhs)) THEN ~is_solvable(covered)
        ELSE implied = <<>> \/ ~is_solvable(combine(covered, implied[1]))

Lhs(a, add) == get_literals(a.precondition) \cup get_literals(add.condition) \cup {negate(add.literal)}

add_effect_unbalanced(I, a, add) ==
  \A del \in Range(DelEffects(I, a)) : unbalanced_renaming(I, del, Lhs(a, add), minimal_covering_renaming(I, a, add))

refine_candidate(I, a, add) ==
  {I \cup {match} : match \in UNION {possible_matches(PartOf(I, add.literal.predicate), add.literal, del.literal) :
     del \in {e \in Range(a.effects) : e.literal.negated /\ ~Covers(I, e)}}}

UnbalancedAdds(I, a) == SelectSeq(AddEffects(I, a), LAMBDA add : add_effect_unbalanced(I, a, add))

\* BalanceChecker: every action with its heavy action.
CheckedActions(T, parameters) ==
  Mapped(LAMBDA a : [action |-> a, heavy |-> get_heavy_action(a)],
         [i \in DOMAIN T.actions |-> add_inequality_preconds(T.actions[i], parameters[i])])

\* The actions that refuse a candidate, and the candidates each leads to:
\* the actions are met in any order, and the first one to refuse decides.
Refusals(I, checked) ==
  LET get_threats == {c \in Range(checked) : AddEffects(I, c.action) # <<>>}
  IN UNION {IF operator_too_heavy(I, c.heavy) THEN {{}}
            ELSE {refine_candidate(I, c.action, adds[1]) : adds \in {UnbalancedAdds(I, c.action)} \ {<<>>}} : c \in get_threats}

-----------------------------------------------------------------------------
Limited(s, limit) == SubSeq(s, 1, Min({Len(s), limit}))
get_initial_invariants(T) ==
  LET fluent == UNION {{e.literal.predicate : e \in Range(a.effects)} : a \in Range(T.actions)}
      parts(p) == [omitted \in 1 .. p.arity + 1 |->
                     [predicate |-> p.name, omitted |-> omitted - 1,
                      order |-> SelectSeq([k \in 1 .. p.arity |-> k], LAMBDA k : k # omitted - 1)]]
  IN FlattenSeq(Mapped(LAMBDA p : Mapped(LAMBDA q : {q}, parts(p)), SelectSeq(T.predicates, LAMBDA p : p.name \in fluent)))

\* A group per invariant and parameters with exactly one initial fact: the
\* atoms that agree with the parameters, whatever is counted.
useful_groups(I, init) ==
  LET covered == {f \in init : f.predicate \in Predicates(I)}
      key(f) == get_parameters(PartOf(I, f.predicate), f)
      member(f, params) == f.predicate \in Predicates(I) /\ get_parameters(PartOf(I, f.predicate), f) = params
  IN {[invariant |-> I, parameters |-> params] :
        params \in {key(f) : f \in {g \in covered : \A h \in covered : key(h) = key(g) => h = g}}}
=============================================================================
