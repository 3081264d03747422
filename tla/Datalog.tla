------------------------------- MODULE Datalog -------------------------------
(***************************************************************************)
(* The exploration of the translator: the task as a logic program          *)
(* (pddl_to_prolog.py), its rules split into joins of two (split_rules.py, *)
(* greedy_join.py), the computation of the model atom by atom              *)
(* (build_model.py), and the instances that the model yields               *)
(* (instantiate.py).                                                       *)
(*                                                                         *)
(* A rule is [conditions, effect, type].  The predicate of the i-th action *)
(* is "action@i", of the i-th axiom "axiom@i", and new ones are "p$...".   *)
(***************************************************************************)
EXTENDS Normalize

Rule(conditions, effect, type) == [conditions |-> conditions, effect |-> effect, type |-> type]
action_predicate(i) == "action@" \o ToString(i)
axiom_predicate(i) == "axiom@" \o ToString(i)
goal_reachable == Atom("@goal-reachable", <<>>)

get_variables(atoms) == UNION {{a \in Range(s.args) : IsVariable(a)} : s \in atoms}
Names(params) == Mapped(LAMBDA p : p.var, params)
TypeAtoms(params) == Mapped(LAMBDA p : Atom(get_predicate_name(p.type), <<p.var>>), params)

-----------------------------------------------------------------------------
(* The program: normalize.build_exploration_rules and pddl_to_prolog.      *)

ConjunctsOf(c) == IF c = Truth THEN <<>> ELSE IF c.t = "and" THEN c.parts ELSE <<c>>

condition_to_rule_body(params, c) ==
  IF Falsity \in Range(ConjunctsOf(c)) THEN <<Atom("@always-false", <<>>)>>
  ELSE TypeAtoms(params) \o SelectSeq(ConjunctsOf(c), LAMBDA p : ~p.negated)

build_exploration_rules(T) ==
  LET ofAction(i) ==
        LET a == T.actions[i] head == Atom(action_predicate(i), Names(a.parameters)) IN
        <<Rule(condition_to_rule_body(a.parameters, a.precondition), head, "none")>>
        \o Mapped(LAMBDA e : Rule(<<head>> \o condition_to_rule_body(<<>>, e.condition), e.literal, "none"),
                  SelectSeq(a.effects, LAMBDA e : ~e.literal.negated))
      ofAxiom(i) ==
        LET x == T.axioms[i] head == Atom(axiom_predicate(i), Names(x.parameters)) IN
        <<Rule(condition_to_rule_body(x.parameters, x.condition), head, "none"),
          Rule(<<head>>, Atom(x.name, Names(SubSeq(x.parameters, 1, x.num_external))), "none")>>
  IN FlattenSeq([i \in DOMAIN T.actions |-> ofAction(i)]) \o FlattenSeq([i \in DOMAIN T.axioms |-> ofAxiom(i)])
     \o <<Rule(condition_to_rule_body(<<>>, T.goal), goal_reachable, "none")>>

translate_facts(T) ==
  T.init \cup {Atom(get_predicate_name(t), <<Obj(o.name)>>) :
                 <<o, t>> \in UNION {{<<p, q>> : q \in {p.type} \cup T.supertypes[p.type]} : p \in Range(T.objects)}}

FreeVariables(r) == get_variables({r.effect}) \ get_variables(Range(r.conditions))

\* p(x) without a condition on x becomes p(x) if @object(x).
remove_free_effect_variables(rules) ==
  Mapped(LAMBDA r : [r EXCEPT !.conditions = @ \o Mapped(LAMBDA v : Atom("@object", <<v>>), ListOf(FreeVariables(r)))], rules)

ObjectFacts(rules, facts) ==
  IF \A r \in Range(rules) : FreeVariables(r) = {} THEN {}
  ELSE {Atom("@object", <<o>>) : o \in UNION {Range(f.args) : f \in facts}}

\* The second occurrence of a variable in an atom gets a name of its own
\* and a condition that the two are equal.
RenamedAtom(s, atom) ==
  FoldLeftDomain(LAMBDA r, i :
    LET v == atom.args[i] w == <<v[1] \o "@", Len(r.extra) + 1>> IN
    IF IsVariable(v) /\ v \in Range(SubSeq(atom.args, 1, i - 1))
    THEN [extra |-> Append(r.extra, Atom("=", <<v, w>>)), atoms |-> [r.atoms EXCEPT ![Len(r.atoms)].args[i] = w]]
    ELSE r, [extra |-> s.extra, atoms |-> Append(s.atoms, atom)], atom.args)

rename_duplicate_variables(r) ==
  LET s == FoldLeft(RenamedAtom, [extra |-> <<>>, atoms |-> <<>>], <<r.effect>> \o r.conditions)
  IN [r EXCEPT !.effect = s.atoms[1], !.conditions = Tail(s.atoms) \o s.extra]

NormalRules(T) ==
  Mapped(rename_duplicate_variables, remove_free_effect_variables(build_exploration_rules(T)))

-----------------------------------------------------------------------------
(* Splitting.                                                              *)

RECURSIVE Component(_, _)
Component(C, conditions) ==
  LET more == {c \in conditions : get_variables({c}) \cap get_variables(C) # {}}
  IN IF more \subseteq C THEN C ELSE Component(C \cup more, conditions)

get_connected_conditions(conditions) == {Component({c}, conditions) : c \in conditions}

\* Of the smaller and the larger variable set what is not common, and the
\* common part; compared in this order.
compute_join_cost(a, b) ==
  LET x == get_variables({a}) y == get_variables({b})
      common == Cardinality(x \cap y) sizes == {Cardinality(x), Cardinality(y)}
  IN <<Min(sizes) - common, Max(sizes) - common, -common>>

Cheaper(c, d) == \E i \in DOMAIN c : c[i] < d[i] /\ \A k \in 1 .. i - 1 : c[k] = d[k]

find_min_pair(joinees) ==
  LET pairs == UNION {{<<i, j>> : j \in 1 .. i - 1} : i \in DOMAIN joinees}
      cost(p) == compute_join_cost(joinees[p[1]], joinees[p[2]])
  IN CHOOSE p \in pairs : \A q \in pairs \ {p} : Cheaper(cost(p) \o p, cost(q) \o q)

RECURSIVE JoinRules(_, _, _, _)
JoinRules(joinees, effect, name, result) ==
  LET pair == find_min_pair(joinees)
      rest == SelectSeq([i \in DOMAIN joinees |-> <<i, joinees[i]>>], LAMBDA x : x[1] \notin Range(pair))
      left == Mapped(LAMBDA x : x[2], rest)
      two == <<joinees[pair[1]], joinees[pair[2]]>>
      common == Range(two[1].args) \cap Range(two[2].args)
      effect_vars == get_variables({effect} \cup Range(left)) \cap get_variables(Range(two))
      fresh(k) == name \o "." \o ToString(Len(result) + k)
      projected(k) ==
        LET kept == Range(two[k].args) \cap (effect_vars \cup common)
        IN IF kept = Range(two[k].args) THEN two[k] ELSE Atom(fresh(k), ListOf(kept))
      projections == FlattenSeq([k \in 1 .. 2 |-> IF projected(k) = two[k] THEN <<>> ELSE <<Rule(<<two[k]>>, projected(k), "project")>>])
      joined == Atom(fresh(3), ListOf(effect_vars))
      rules == result \o projections \o <<Rule(<<projected(1), projected(2)>>, joined, "join")>>
  IN IF Len(joinees) < 2 THEN [result EXCEPT ![Len(result)].effect = effect]
     ELSE JoinRules(Append(left, joined), effect, name, rules)

split_into_binary_rules(r, name) ==
  IF Len(r.conditions) <= 1 THEN <<[r EXCEPT !.type = "project"]>> ELSE JoinRules(r.conditions, r.effect, name, <<>>)

split_rule(r, name) ==
  LET important == SelectSeq(r.conditions, LAMBDA c : get_variables({c}) # {})
      trivial == SelectSeq(r.conditions, LAMBDA c : get_variables({c}) = {})
      components == ListOf(get_connected_conditions(Range(important)))
      project_rule(k) ==
        Rule(ListOf(components[k]),
             Atom(name \o "-" \o ToString(k), ListOf(Range(r.effect.args) \cap get_variables(components[k]))), "none")
      conditions == [k \in DOMAIN components |-> project_rule(k).effect] \o trivial
  IN IF Len(components) = 1 /\ trivial = <<>> THEN split_into_binary_rules(r, name)
     ELSE FlattenSeq([k \in DOMAIN components |-> split_into_binary_rules(project_rule(k), name \o "-" \o ToString(k))])
          \o <<Rule(conditions, r.effect, IF Len(conditions) >= 2 THEN "product" ELSE "project")>>

\* Rules without a condition become facts.
Program(T) ==
  LET rules == NormalRules(T)
      facts == translate_facts(T)
      trivial == {r.effect : r \in {q \in Range(rules) : q.conditions = <<>>}}
  IN [facts |-> facts \cup ObjectFacts(build_exploration_rules(T), facts) \cup trivial,
      rules |-> FlattenSeq([i \in DOMAIN rules |-> IF rules[i].conditions = <<>> THEN <<>>
                                                   ELSE split_rule(rules[i], "p$" \o ToString(i))])]

-----------------------------------------------------------------------------
(* The model.  An index holds, for a condition of a rule, the atoms popped *)
(* that match it.                                                          *)

EmptyIndex(rules) == [r \in DOMAIN rules |-> [i \in DOMAIN rules[r].conditions |-> <<>>]]

\* Unifier: the conditions whose constants are those of the atom.
Matches(rules, atom) ==
  LET conditions(r) == rules[r].conditions
      fits(c) == c.predicate = atom.predicate
                 /\ \A k \in DOMAIN c.args : IsVariable(c.args[k]) \/ c.args[k] = atom.args[k]
  IN FlattenSeq([r \in DOMAIN rules |->
       SelectSeq([i \in DOMAIN conditions(r) |-> <<r, i>>], LAMBDA m : fits(conditions(r)[m[2]]))])

Binding(c, atom) == [v \in {a \in Range(c.args) : IsVariable(a)} |-> atom.args[CHOOSE k \in DOMAIN c.args : c.args[k] = v]]

\* Two atoms are joined by the common variables that are in the effect too.
JoinKey(r) == get_variables({r.conditions[1]}) \cap get_variables({r.conditions[2]}) \cap get_variables({r.effect})

Fired(r, index, atom, i) ==
  LET own == Binding(r.conditions[i], atom)
      others == DOMAIN r.conditions \ {i}
      head(bindings) == [r.effect EXCEPT !.args = Filled(Filled(@, own), bindings)]
      other == CHOOSE k \in others : TRUE
      agrees(b) == r.type = "product" \/ \A v \in JoinKey(r) : b[v] = own[v]
      choices == [k \in others |-> {Binding(r.conditions[k], index[k][n]) : n \in DOMAIN index[k]}]
      combined(f) == [v \in UNION {DOMAIN f[k] : k \in others} |-> f[CHOOSE k \in others : v \in DOMAIN f[k]][v]]
  IN CASE r.type = "project" -> {head(EmptyMap)}
       [] r.type = "join" -> {head(b) : b \in {c \in choices[other] : agrees(c)}}
       [] OTHER -> {head(combined(f)) : f \in {g \in [others -> UNION Range(choices)] : \A k \in others : g[k] \in choices[k]}}

\* Mutant: the indexes are updated when all rules have fired.
MutPopped(rules, s, atom) ==
  FoldLeft(LAMBDA q, m : [index |-> [q.index EXCEPT ![m[1]][m[2]] = Append(@, atom)],
                          queue |-> q.queue \o ListOf(Fired(rules[m[1]], s.index[m[1]], atom, m[2]) \ Range(q.queue))],
           s, Matches(rules, atom))

\* One atom: for every match the index is updated, then the rule fires.
Popped(rules, s, atom) ==
  FoldLeft(LAMBDA q, m :
    LET index == [q.index EXCEPT ![m[1]][m[2]] = Append(@, atom)]
        new == Fired(rules[m[1]], index[m[1]], atom, m[2])
    IN [index |-> index, queue |-> q.queue \o ListOf(new \ Range(q.queue))],
    s, Matches(rules, atom))

-----------------------------------------------------------------------------
(* The reference: the rules as they were before they were split.           *)

RuleInstances(T, r, model) ==
  LET vars == get_variables(Range(r.conditions) \cup {r.effect})
      ground(a, b) == [a EXCEPT !.args = Filled(@, b)]
  IN {ground(r.effect, b) : b \in {c \in [vars -> {Obj(o.name) : o \in Range(T.objects)}] :
                                     \A k \in DOMAIN r.conditions : ground(r.conditions[k], c) \in model}}

RECURSIVE LeastModel(_, _, _)
LeastModel(T, rules, model) ==
  LET next == model \cup UNION {RuleInstances(T, r, model) : r \in Range(rules)}
  IN IF next = model THEN model ELSE LeastModel(T, rules, next)
=============================================================================
