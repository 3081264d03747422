---------------------------- MODULE SasEncoding -----------------------------
(***************************************************************************)
(* From grounded facts to finite-domain variables: the groups that become  *)
(* variables (fact_groups.py), the axioms that are needed and their layers *)
(* (axiom_rules.py), and the translation of conditions, operators and      *)
(* axioms (translate.py, sas_tasks.py).                                    *)
(*                                                                         *)
(* A condition over variables is a function from some of them to values; a *)
(* list of conditions is a set, and None is the empty one.  Values are     *)
(* numbered from 1, the last one is "none of those".  Where the code sorts *)
(* facts by name the model takes them in a fixed order.                    *)
(***************************************************************************)
EXTENDS Invariants

-----------------------------------------------------------------------------
(* fact_groups.py.                                                         *)

\* A part without a counted variable is one fact, reachable or not.
instantiate_part(part, params) ==
  Atom(part.predicate, [k \in DOMAIN part.order |-> params[CHOOSE i \in DOMAIN part.order : part.order[i] = k]])

expand_group(g, atoms) ==
  {instantiate_part(part, g.parameters) : part \in {q \in g.invariant : q.omitted = 0}}
  \cup {f \in atoms : \E part \in g.invariant :
          part.predicate = f.predicate /\ part.omitted # 0 /\ get_parameters(part, f) = g.parameters}

\* GroupCoverQueue: one of the largest groups is next, until only groups of
\* one fact are left.
Top(queue) ==
  {i \in DOMAIN queue : Cardinality(queue[i]) > 1 /\ \A k \in DOMAIN queue : Cardinality(queue[k]) <= Cardinality(queue[i])}
pop(queue, i, use_partial_encoding) ==
  LET others == RemoveAt(queue, i) IN IF use_partial_encoding THEN Mapped(LAMBDA g : g \ queue[i], others) ELSE others

WithUncovered(groups, atoms) == groups \o Mapped(LAMBDA f : {f}, ListOf(atoms \ UNION Range(groups)))

NoneOfThose == [t |-> "none of those"]
build_translation_key(groups) ==
  Mapped(LAMBDA g : IF Len(g) = 1 THEN <<g[1], negate(g[1])>> ELSE Append(g, NoneOfThose), groups)

\* names: the values of every variable; dictionary: the pairs of every fact.
strips_to_sas_dictionary(groups) ==
  LET ordered == Mapped(ListOf, groups) IN
  [names |-> build_translation_key(ordered),
   dictionary |-> [f \in UNION Range(groups) |->
                     {<<v, i>> : <<v, i>> \in {<<v, CHOOSE i \in DOMAIN ordered[v] : ordered[v][i] = f>> :
                                                 v \in {w \in DOMAIN groups : f \in groups[w]}}}]]

PairsOf(enc, f) == IF f \in DOMAIN enc.dictionary THEN enc.dictionary[f] ELSE {}
ranges(names, v) == Len(names[v])
ValuesOf(names, v) == DOMAIN names[v]

-----------------------------------------------------------------------------
(* Conditions.  E is [vars, mutexes]: the encoding and that of all groups. *)

\* A negative literal narrows the variables of its fact that are already
\* constrained, or else the one with the fewest values.
Narrowed(enc, condition, l) ==
  LET pairs == PairsOf(enc, Positive(l))
      bound == {p \in pairs : p[1] \in DOMAIN condition}
      before(p, q) == \/ ranges(enc.names, p[1]) < ranges(enc.names, q[1])
                      \/ ranges(enc.names, p[1]) = ranges(enc.names, q[1]) /\ p[1] < q[1]
      new == CHOOSE p \in pairs : \A q \in pairs \ {p} : before(p, q)
  IN IF pairs = {} THEN condition
     ELSE IF bound = {} THEN (new[1] :> ValuesOf(enc.names, new[1]) \ {new[2]}) @@ condition
     ELSE [v \in DOMAIN condition |-> condition[v] \ {p[2] : p \in {q \in bound : q[1] = v}}]

\* The values of each variable; none for one of them is a conflict.
Possibilities(enc, literals) ==
  LET pairs == UNION {PairsOf(enc, l) : l \in {x \in Range(literals) : ~x.negated}}
      positive == [v \in {p[1] : p \in pairs} |->
                     {d \in ValuesOf(enc.names, v) : \A p \in pairs : p[1] = v => p[2] = d}]
  IN FoldLeft(LAMBDA c, l : Narrowed(enc, c, l), positive, SelectSeq(literals, LAMBDA l : l.negated))

Consistent(condition) == \A v \in DOMAIN condition : condition[v] # {}

multiply_out(condition) ==
  FoldSet(LAMBDA v, S : {(v :> d) @@ c : <<d, c>> \in condition[v] \X S}, {EmptyMap}, DOMAIN condition)

translate_strips_conditions(E, literals) ==
  LET condition == Possibilities(E.vars, literals) IN
  IF Consistent(Possibilities(E.mutexes, literals)) /\ Consistent(condition) THEN multiply_out(condition) ELSE {}

\* A list of conditions is negated: one literal of each is false.
negate_and_translate_condition(E, conditions) ==
  LET choices == FoldLeft(LAMBDA S, c : {Append(q, negate(l)) : <<q, l>> \in S \X Range(c)}, {<<>>}, conditions)
  IN UNION {translate_strips_conditions(E, choice) : choice \in choices}

-----------------------------------------------------------------------------
(* Operators.                                                              *)

\* The value a fact of a lonely group has when a mutex fact is true.
build_implied_facts(E) ==
  {<<p, <<v, 2>>>> : <<p, v>> \in
     UNION {UNION {(UNION {PairsOf(E.vars, Positive(g)) : g \in Range(group) \ {f, NoneOfThose, negate(f)}})
                   \X {q[1] : q \in {x \in PairsOf(E.vars, f) : Len(E.vars.names[x[1]]) = 2
                                                               /\ E.vars.names[x[1]][2] = negate(f)}} :
                     f \in {h \in Range(group) : h.t = "literal" /\ ~h.negated}} :
              group \in Range(E.mutexes.names)}}

Compatible(c, d) == \A v \in (DOMAIN c) \cap (DOMAIN d) : c[v] = d[v]

\* Effects that set facts, by variable and value.
PossibleEffects(E, effects) == SelectSeq(effects, LAMBDA e : translate_strips_conditions(E, e.condition) # {})
AddedValues(E, adds) ==
  UNION {{[var |-> p[1], post |-> p[2], cond |-> c] :
            <<p, c>> \in PairsOf(E.vars, e.literal) \X translate_strips_conditions(E, e.condition)} : e \in Range(adds)}

add_conds_by_variable(E, adds, v) ==
  Mapped(LAMBDA e : e.condition, SelectSeq(adds, LAMBDA e : \E p \in PairsOf(E.vars, e.literal) : p[1] = v))
\* Mutant: a fact is deleted although another one of the variable is added.
MutNoAddEffect(E, adds, v) == {EmptyMap}
no_add_effect_condition(E, adds, v) == negate_and_translate_condition(E, add_conds_by_variable(E, adds, v))

\* The conditions of a delete effect are shared by the variables of the
\* fact: each that can lose its value adds a guard to them, for itself and
\* for those that come later.
DeletedValues(E, adds, dels) ==
  LET pairs(e) == PairsOf(E.vars, Positive(e.literal))
      vars == FlattenSeq(Mapped(LAMBDA e : Sorted({p[1] : p \in pairs(e)}, LAMBDA a, b : a < b), dels))
      earlier(v) == Range(SubSeq(vars, 1, CHOOSE i \in DOMAIN vars : vars[i] = v /\ \A k \in 1 .. i - 1 : vars[k] # v))
      guarded == {v \in Range(vars) : no_add_effect_condition(E, adds, v) # {}}
      guards(e, v) == LET own == {p \in pairs(e) : p[1] \in earlier(v) \cap guarded}
                      IN [w \in {p[1] : p \in own} |-> (CHOOSE p \in own : p[1] = w)[2]]
      lost(e, p) ==
        LET conds == {c @@ guards(e, p[1]) :
                        c \in {d \in translate_strips_conditions(E, e.condition) : Compatible(d, p[1] :> p[2])}}
        IN {[var |-> p[1], post |-> ranges(E.vars.names, p[1]), cond |-> x[1] @@ x[2]] :
              x \in {y \in conds \X no_add_effect_condition(E, adds, p[1]) : Compatible(y[1], y[2])}}
  IN UNION {UNION {lost(e, p) : p \in pairs(e)} : e \in Range(dels)}

Without(c, V) == [v \in DOMAIN c \ V |-> c[v]]

\* For a binary variable a condition that it has the other value is void,
\* and an effect without a condition makes the others superfluous.
prune_stupid_effect_conditions(v, post, conditions) ==
  LET pruned == {IF v \in DOMAIN c /\ c[v] = 3 - post THEN Without(c, {v}) ELSE c : c \in conditions}
  IN IF EmptyMap \in pruned THEN {EmptyMap} ELSE pruned

\* Set of at most one operator; pre = 0 stands for none.
build_sas_operator(E, implied, name, cost, condition, effects) ==
  LET implied_precondition == {i[2] : i \in {x \in implied : x[1][1] \in DOMAIN condition /\ condition[x[1][1]] = x[1][2]}}
      entries(v, post) ==
        LET orig_pre == IF v \in DOMAIN condition THEN condition[v] ELSE 0
            conditions == {e.cond : e \in {x \in effects : x.var = v /\ x.post = post}}
            binary == ranges(E.vars.names, v) = 2
            pre == IF binary /\ orig_pre = 0 /\ <<v, 3 - post>> \in implied_precondition THEN 3 - post ELSE orig_pre
            eff_conditions == IF binary THEN prune_stupid_effect_conditions(v, post, conditions) ELSE conditions
        IN IF orig_pre = post THEN {}
           ELSE {[var |-> v, pre |-> pre, post |-> post, cond |-> Without(c, DOMAIN condition)] :
                   c \in {x \in eff_conditions : Compatible(x, condition)}}
      pre_post == UNION {entries(e.var, e.post) : e \in effects}
  IN IF pre_post = {} THEN {}
     ELSE {[name |-> name, cost |-> cost, pre_post |-> pre_post, prevail |-> Without(condition, {e.var : e \in pre_post})]}

translate_strips_operator(E, implied, a) ==
  LET adds == PossibleEffects(E, a.add_effects)
      dels == PossibleEffects(E, a.del_effects)
      effects == AddedValues(E, adds) \cup DeletedValues(E, adds, dels)
  IN UNION {build_sas_operator(E, implied, a.name, a.cost, c, effects) : c \in translate_strips_conditions(E, a.precondition)}

-----------------------------------------------------------------------------
(* axiom_rules.py.  The rules of an atom are a sequence of sets of literals*)

get_axioms_by_atom(axioms) ==
  [atom \in {x.effect : x \in Range(axioms)} |->
     Mapped(LAMBDA x : Range(x.condition), SelectSeq(axioms, LAMBDA x : x.effect = atom))]

AxiomLiterals(rules, literals) == {l \in literals : Positive(l) \in DOMAIN rules}

RECURSIVE NecessaryClosure(_, _)
NecessaryClosure(rules, literals) ==
  LET bodies(l) == AxiomLiterals(rules, UNION Range(rules[Positive(l)]))
      next == literals \cup UNION {IF l.negated THEN {negate(b) : b \in bodies(l)} ELSE bodies(l) : l \in literals}
  IN IF next = literals THEN literals ELSE NecessaryClosure(rules, next)

\* The literals of axioms that goal, preconditions and effects ask for; the
\* condition of a delete effect is asked for negatively.
compute_necessary_axiom_literals(rules, operators, goal) ==
  LET conditions(effects) == UNION {Range(e.condition) : e \in Range(effects)}
      ofOperator(a) == Range(a.precondition) \cup conditions(a.add_effects) \cup {negate(l) : l \in conditions(a.del_effects)}
  IN NecessaryClosure(rules, AxiomLiterals(rules, Range(goal) \cup UNION {ofOperator(a) : a \in Range(operators)}))

\* Atoms that are only needed negatively are true by default.
get_axiom_init(rules, necessary) == {a \in DOMAIN rules : a \notin necessary /\ negate(a) \in necessary}

\* Dominated rules.  The set of rules of a literal is intersected in place,
\* so that later rules may miss one that they dominate.
simplify(conditions) ==
  LET literals == UNION Range(conditions)
      first(c) == CHOOSE l \in c : TRUE
      step(s, i) ==
        LET c == conditions[i]
            dominated == {k \in s.index[first(c)] : \A l \in c : k \in s.index[l]}
        IN IF i \in s.skip THEN s
           ELSE [index |-> [s.index EXCEPT ![first(c)] = dominated], skip |-> s.skip \cup (dominated \ {i})]
      skip == FoldLeft(step, [index |-> [l \in literals |-> {i \in DOMAIN conditions : l \in conditions[i]}], skip |-> {}],
                       [i \in DOMAIN conditions |-> i]).skip
      kept == SelectSeq([i \in DOMAIN conditions |-> i], LAMBDA i : i \notin skip)
  IN IF {} \in Range(conditions) THEN <<{}>> ELSE Mapped(LAMBDA i : conditions[i], kept)

\* One literal of every rule is false.
negate_rules(conditions) ==
  IF {} \in Range(conditions) THEN <<>>
  ELSE simplify(FoldLeft(LAMBDA r, c : FlattenSeq(Mapped(LAMBDA l : Mapped(LAMBDA q : q \cup {negate(l)}, r), ListOf(c))),
                         <<{}>>, conditions))

\* Set of [condition, effect].
compute_negative_axioms(rules, necessary) ==
  UNION {LET own == simplify(rules[Positive(l)])
         IN {[condition |-> c, effect |-> l] : c \in Range(IF l.negated THEN negate_rules(own) ELSE own)} : l \in necessary}

(* Layers: an atom comes after those that it needs with their default     *)
(* value.  Levels -3 and below mark the atoms on the way.                  *)
depends_on(axioms, axiom_init) ==
  LET moving == {x \in axioms : x.effect.negated = (Positive(x.effect) \in axiom_init)}
      bonus(l) == IF l.negated = (Positive(l) \in axiom_init) THEN 0 ELSE 1
  IN [a \in {Positive(x.effect) : x \in moving} |->
        UNION {{<<Positive(l), bonus(l)>> : l \in x.condition} : x \in {y \in moving : Positive(y.effect) = a}}]

FIRST_MARKER == -3
RECURSIVE find_level(_, _, _, _)
find_level(depends, s, atom, marker) ==
  LET layer == s.layers[atom]
      visit(r, d) == LET u == find_level(depends, r, d[1], marker - d[2])
                     IN [layers |-> u.layers, cyclic |-> u.cyclic, level |-> IF u.level + d[2] > r.level THEN u.level + d[2] ELSE r.level]
      below == FoldLeft(visit, [layers |-> [s.layers EXCEPT ![atom] = marker], cyclic |-> s.cyclic, level |-> 0], ListOf(depends[atom]))
  IN CASE atom \notin DOMAIN depends -> [s EXCEPT !.level = 0]
       [] atom \in DOMAIN depends /\ layer = marker -> [s EXCEPT !.level = 0]
       [] atom \in DOMAIN depends /\ layer # marker /\ layer <= FIRST_MARKER -> [s EXCEPT !.level = 0, !.cyclic = TRUE]
       [] atom \in DOMAIN depends /\ layer = -2 -> [below EXCEPT !.layers[atom] = below.level]
       [] OTHER -> [s EXCEPT !.level = layer]

\* [layers, cyclic]: cyclic is the assertion "cannot stratify".
compute_axiom_layers(axioms, axiom_init) ==
  LET depends == depends_on(axioms, axiom_init)
  IN FoldLeft(LAMBDA s, a : find_level(depends, s, a, FIRST_MARKER),
              [layers |-> [a \in DOMAIN depends |-> -2], cyclic |-> FALSE, level |-> 0], ListOf(DOMAIN depends))

handle_axioms(operators, axioms, goals) ==
  LET rules == get_axioms_by_atom(axioms)
      necessary == compute_necessary_axiom_literals(rules, operators, goals)
      init == get_axiom_init(rules, necessary)
      result == compute_negative_axioms(rules, necessary)
      layers == compute_axiom_layers(result, init)
  IN [axioms |-> result, init |-> init, layers |-> layers.layers, cyclic |-> layers.cyclic]

-----------------------------------------------------------------------------
(* translate_task.                                                         *)

translate_strips_axiom(E, x) ==
  LET pair == CHOOSE p \in PairsOf(E.vars, Positive(x.effect)) : TRUE
  IN {[condition |-> c, var |-> pair[1], post |-> IF x.effect.negated THEN ranges(E.vars.names, pair[1]) ELSE pair[2]] :
        c \in translate_strips_conditions(E, ListOf(x.condition))}

trivial_task(solvable) == [trivial |-> TRUE, solvable |-> solvable]

GoalList(T) == IF T.goal.t = "and" THEN T.goal.parts ELSE <<T.goal>>

InitValues(E, init, v) ==
  {p[2] : p \in {q \in UNION {PairsOf(E.vars, f) : f \in init} : q[1] = v}}

build_mutex_key(E) ==
  {UNION {PairsOf(E.vars, f) : f \in {g \in Range(names) : g.t = "literal" /\ ~g.negated}} : names \in Range(E.mutexes.names)}

\* The assertions: the facts of the initial state are consistent, the goal
\* is one condition, the axioms can be stratified.
TranslateFails(E, T) ==
  \/ \E v \in DOMAIN E.vars.names : Cardinality(InitValues(E, T.init \cup E.derived.init, v)) > 1
  \/ Cardinality(translate_strips_conditions(E, GoalList(T))) > 1
  \/ E.derived.cyclic

translate_task(E, T, ground, add_implied_preconditions) ==
  LET derived == E.derived
      init == T.init \cup derived.init
      goals == translate_strips_conditions(E, GoalList(T))
      goal == CHOOSE c \in goals : TRUE
      names == E.vars.names
      implied == IF add_implied_preconditions THEN build_implied_facts(E) ELSE {}
      layerOf(v) == {derived.layers[a] : a \in {b \in DOMAIN derived.layers : v \in {p[1] : p \in PairsOf(E.vars, b)}}}
  IN IF goals = {} THEN trivial_task(FALSE)
     ELSE IF goal = EmptyMap THEN trivial_task(TRUE)
     ELSE [trivial |-> FALSE,
           names |-> names,
           layers |-> [v \in DOMAIN names |-> IF layerOf(v) = {} THEN -1 ELSE CHOOSE n \in layerOf(v) : TRUE],
           mutexes |-> build_mutex_key(E),
           init |-> [v \in DOMAIN names |-> IF InitValues(E, init, v) = {} THEN ranges(names, v)
                                            ELSE CHOOSE d \in InitValues(E, init, v) : TRUE],
           goal |-> goal,
           operators |-> UNION {translate_strips_operator(E, implied, a) : a \in Range(ground.actions)},
           axioms |-> UNION {translate_strips_axiom(E, x) : x \in derived.axioms}]
=============================================================================
