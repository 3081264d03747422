------------------------------ MODULE Normalize ------------------------------
(***************************************************************************)
(* normalize.py: conditions become conjunctions of literals.  Universal    *)
(* quantifiers become negated axioms, disjunctions separate actions,       *)
(* effects and axioms, existential quantifiers parameters.                 *)
(***************************************************************************)
EXTENDS Pddl

add_axiom(T, params, condition) ==
  [T EXCEPT !.axioms = Append(@, Axiom("new-axiom@" \o ToString(T.counter), params, condition)), !.counter = @ + 1]

\* A step on every condition of the task, in the order of all_conditions;
\* effects of axioms and the goal have no step of their own.
OnConditions(T, step(_)) ==
  [T EXCEPT !.actions = Mapped(LAMBDA a : [a EXCEPT !.precondition = step(@),
                                                    !.effects = Mapped(LAMBDA e : [e EXCEPT !.condition = step(@)], @)], @),
            !.axioms = Mapped(LAMBDA x : [x EXCEPT !.condition = step(@)], @),
            !.goal = step(@)]

-----------------------------------------------------------------------------
(* [1] Universal quantifiers.  A step returns the condition, the task with *)
(* its new axioms, and the axioms by what they stand for.                  *)

RECURSIVE WithoutUniversal(_, _, _)
WithoutUniversal(s, c, types) ==
  LET axiom_condition == negate(c)
      typed == Mapped(LAMBDA v : [var |-> v, type |-> types[v]], ListOf(free_variables(axiom_condition)))
      vars == Mapped(LAMBDA p : p.var, typed)
      known == {m \in s.known : m.condition = axiom_condition /\ m.parameters = typed}
      inner == WithoutUniversal(s, axiom_condition, types)
      name == "new-axiom@" \o ToString(inner.task.counter)
      parts == FoldLeft(LAMBDA r, p : LET u == WithoutUniversal([task |-> r.task, known |-> r.known], p, types)
                                      IN [task |-> u.task, known |-> u.known, parts |-> Append(r.parts, u.condition)],
                        [task |-> s.task, known |-> s.known, parts |-> <<>>], PartsOf(c))
  IN IF c.t # "forall" THEN [task |-> parts.task, known |-> parts.known, condition |-> change_parts(c, parts.parts)]
     ELSE IF known # {} THEN [task |-> s.task, known |-> s.known, condition |-> Literal(TRUE, (CHOOSE m \in known : TRUE).name, vars)]
     ELSE [task |-> add_axiom(inner.task, typed, inner.condition),
           known |-> inner.known \cup {[condition |-> inner.condition, parameters |-> typed, name |-> name]},
           condition |-> Literal(TRUE, name, vars)]

UniversalStep(s, c, types) ==
  IF Has(c, "forall") THEN WithoutUniversal(s, c, types) ELSE [task |-> s.task, known |-> s.known, condition |-> c]

\* The types of the variables of the goal: where a name occurs twice, the
\* first one counts.
GoalTypes(c) == uniquify_variables(c, EmptyMap, EmptyMap).types

\* The conditions of a task, in the order of all_conditions.
Places(T) ==
  FlattenSeq([i \in DOMAIN T.actions |-> [k \in 1 .. Len(T.actions[i].effects) + 1 |-> <<"action", i, k - 1>>]])
  \o [i \in DOMAIN T.axioms |-> <<"axiom", i, 0>>] \o <<<<"goal", 0, 0>>>>
ConditionAt(T, p) ==
  CASE p[1] = "action" -> IF p[3] = 0 THEN T.actions[p[2]].precondition ELSE T.actions[p[2]].effects[p[3]].condition
    [] p[1] = "axiom" -> T.axioms[p[2]].condition
    [] p[1] = "goal" -> T.goal
TypesAt(T, p) ==
  CASE p[1] = "action" -> T.actions[p[2]].type_map [] p[1] = "axiom" -> T.axioms[p[2]].type_map [] p[1] = "goal" -> GoalTypes(T.goal)
WithCondition(u, p) ==
  [known |-> u.known,
   task |-> CASE p[1] = "action" -> IF p[3] = 0 THEN [u.task EXCEPT !.actions[p[2]].precondition = u.condition]
                                    ELSE [u.task EXCEPT !.actions[p[2]].effects[p[3]].condition = u.condition]
              [] p[1] = "axiom" -> [u.task EXCEPT !.axioms[p[2]].condition = u.condition]
              [] p[1] = "goal" -> [u.task EXCEPT !.goal = u.condition]]

remove_universal_quantifiers(T) ==
  FoldLeft(LAMBDA s, p : WithCondition(UniversalStep(s, ConditionAt(T, p), TypesAt(T, p)), p), [task |-> T, known |-> {}], Places(T)).task

\* A goal that is more than a conjunction of literals becomes an axiom.
substitute_complicated_goal(T) ==
  LET simple == \A p \in Range(IF T.goal.t = "and" THEN T.goal.parts ELSE <<T.goal>>) : p.t = "literal"
      name == "new-axiom@" \o ToString(T.counter)
  IN IF simple THEN T ELSE [add_axiom(T, <<>>, T.goal) EXCEPT !.goal = Atom(name, <<>>)]

-----------------------------------------------------------------------------
(* [2] Disjunctions move to the top, and [3] are split.                    *)

RECURSIVE DisjunctionOnTop(_)
DisjunctionOnTop(c) ==
  LET parts == Mapped(DisjunctionOnTop, PartsOf(c))
      disjunctive == SelectSeq(parts, LAMBDA p : p.t = "or")
      other == SelectSeq(parts, LAMBDA p : p.t # "or")
      distribute(result, d) ==
        FlattenSeq(Mapped(LAMBDA r : Mapped(LAMBDA p : Junction("and", <<r, p>>), d.parts), result))
  IN CASE disjunctive = <<>> -> c
       [] c.t = "or" -> Junction("or", other \o FlattenSeq(Mapped(LAMBDA d : d.parts, disjunctive)))
       [] c.t = "exists" -> Junction("or", Mapped(LAMBDA p : Quantified("exists", c.parameters, p), disjunctive[1].parts))
       [] OTHER -> Junction("or", FoldLeft(distribute, <<Junction("and", other)>>, Reverse(disjunctive)))

build_DNF(T) == OnConditions(T, LAMBDA c : IF Has(c, "or") THEN simplified(DisjunctionOnTop(c)) ELSE c)

\* What is split moves to the end of its list.
SplitList(s, condition(_), with(_, _)) ==
  SelectSeq(s, LAMBDA x : condition(x).t # "or")
  \o FlattenSeq(Mapped(LAMBDA x : Mapped(LAMBDA p : with(x, p), condition(x).parts),
                       SelectSeq(s, LAMBDA x : condition(x).t = "or")))

split_disjunctions(T) ==
  LET condition(x) == x.condition
      with(x, p) == [x EXCEPT !.condition = p]
      effects(a) == [a EXCEPT !.effects = SplitList(@, condition, with)]
  IN [T EXCEPT !.actions = SplitList(Mapped(effects, @), LAMBDA a : a.precondition, LAMBDA a, p : [a EXCEPT !.precondition = p]),
               !.axioms = SplitList(@, condition, with)]

-----------------------------------------------------------------------------
(* [4] Existential quantifiers move to the top, and [5] become parameters. *)

RECURSIVE ExistentialOnTop(_)
ExistentialOnTop(c) ==
  LET parts == Mapped(ExistentialOnTop, PartsOf(c))
      existential == SelectSeq(parts, LAMBDA p : p.t = "exists")
      other == SelectSeq(parts, LAMBDA p : p.t # "exists")
      params == FlattenSeq(Mapped(LAMBDA p : p.parameters, existential))
  IN CASE existential = <<>> -> c
       [] c.t = "exists" -> Quantified("exists", c.parameters \o existential[1].parameters, existential[1].parts[1])
       [] OTHER -> Quantified("exists", params,
                              Junction("and", other \o FlattenSeq(Mapped(LAMBDA p : p.parts, existential))))

move_existential_quantifiers(T) ==
  OnConditions(T, LAMBDA c : IF Has(c, "exists") THEN simplified(ExistentialOnTop(c)) ELSE c)

eliminate_existential_quantifiers(T) ==
  LET extended(x, c) == IF c.t = "exists" THEN [x EXCEPT !.parameters = @ \o c.parameters] ELSE x
      body(c) == IF c.t = "exists" THEN c.parts[1] ELSE c
      owner(x) == [extended(x, x.condition) EXCEPT !.condition = body(@)]
  IN [T EXCEPT !.axioms = Mapped(owner, @),
               !.actions = Mapped(LAMBDA a : [extended(a, a.precondition) EXCEPT !.precondition = body(@),
                                                                                 !.effects = Mapped(owner, @)], @)]

-----------------------------------------------------------------------------
Passes == <<"universal", "goal", "dnf", "split", "move", "eliminate">>
normalize(pass, T) ==
  CASE pass = "universal" -> remove_universal_quantifiers(T)
    [] pass = "goal" -> substitute_complicated_goal(T)
    [] pass = "dnf" -> build_DNF(T)
    [] pass = "split" -> split_disjunctions(T)
    [] pass = "move" -> move_existential_quantifiers(T)
    [] pass = "eliminate" -> eliminate_existential_quantifiers(T)

\* Derived predicates may not be initial facts or effects.
verify_axiom_predicates(T) ==
  LET derived == {x.name : x \in Range(T.axioms)}
  IN /\ \A f \in T.init : f.predicate \notin derived
     /\ \A a \in Range(T.actions) : \A e \in Range(a.effects) : e.literal.predicate \notin derived

\* condition_to_rule_body refuses a condition that was never simplified.
IsNormal(c) == \A p \in Range(IF c.t = "and" THEN c.parts ELSE <<c>>) : p.t \in {"true", "false", "literal"}

Normalized(T) ==
  /\ \A a \in Range(T.actions) : IsNormal(a.precondition) /\ \A e \in Range(a.effects) : IsNormal(e.condition)
  /\ \A x \in Range(T.axioms) : IsNormal(x.condition)
  /\ IsNormal(T.goal)
=============================================================================
