----------------------------- MODULE Translator -----------------------------
(***************************************************************************)
(* The translator (translate.py): a planning task in PDDL is read,         *)
(* normalized, explored atom by atom and instantiated; mutex groups are    *)
(* found candidate by candidate (invariant_finder.py) and chosen as        *)
(* variables one by one; the task is encoded, simplified and ordered.      *)
(* Left open are what the code takes from the order of hash tables: which  *)
(* action refuses a candidate first, and which of the largest groups is    *)
(* chosen.                                                                 *)
(***************************************************************************)
EXTENDS AxiomEvaluator, PddlMeaning

CONSTANTS
  PddlTasks,        \* sequence of the tasks that are read, see Pddl
  TranslatorOptions \* for every task, the set of command lines

OptionsAssumption ==
  \A t \in DOMAIN PddlTasks : \A o \in TranslatorOptions[t] :
    /\ {o.generate_relaxed_task, o.use_partial_encoding, o.add_implied_preconditions,
        o.filter_unreachable_facts, o.reorder_variables, o.filter_unimportant_vars} \subseteq BOOLEAN
    /\ o.invariant_generation_max_candidates \in Nat
ASSUME OptionsAssumption

VARIABLES
  tTask, tOptions, \* what is translated
  tPc,
  tPddl,           \* the task as it is read and normalized
  tProgram,        \* rules and facts of the exploration,
  tModel, tPopped, \* [index, queue], and how many atoms are popped
  tGround,         \* the instantiated task and the actions to be checked
  tCandidates, tSeen, tInvariants,
  tQueue, tGroups, \* the groups that are left, and those that are chosen
  tMutexes,        \* all groups
  tEncoding,       \* the variables for both, and the axioms that are needed
  tSas             \* the task that is written
modelVars == <<tProgram, tModel, tPopped>>
candidateVars == <<tCandidates, tSeen, tInvariants>>
groupVars == <<tQueue, tGroups, tMutexes, tEncoding>>
translatorVars == <<tTask, tOptions, tPc, tPddl, modelVars, tGround, candidateVars, groupVars, tSas>>

TranslatorInit ==
  /\ \E t \in DOMAIN PddlTasks : tTask = t /\ tOptions \in TranslatorOptions[t]
  /\ tPc = "parse"
  /\ tPddl = <<>> /\ tProgram = <<>> /\ tModel = <<>> /\ tPopped = 0 /\ tGround = <<>>
  /\ tCandidates = <<>> /\ tSeen = {} /\ tInvariants = {}
  /\ tQueue = <<>> /\ tGroups = <<>> /\ tMutexes = <<>> /\ tEncoding = <<>> /\ tSas = <<>>

-----------------------------------------------------------------------------
Parse ==
  /\ tPc = "parse" /\ ~ParseFails(PddlTasks[tTask])
  /\ tPddl' = parse_task(PddlTasks[tTask])
  /\ tPc' = Passes[1]
  /\ UNCHANGED <<tTask, tOptions, modelVars, tGround, candidateVars, groupVars, tSas>>

Normalize ==
  \E pass \in DOMAIN Passes :
    /\ tPc = Passes[pass]
    /\ tPddl' = normalize(tPc, tPddl)
    /\ tPc' = IF pass < Len(Passes) THEN Passes[pass + 1] ELSE "program"
    /\ UNCHANGED <<tTask, tOptions, modelVars, tGround, candidateVars, groupVars, tSas>>

\* --relaxed: the normalized actions lose their delete effects.
relax(T) == [T EXCEPT !.actions = Mapped(LAMBDA a : [a EXCEPT !.effects = SelectSeq(@, LAMBDA e : ~e.literal.negated)], @)]

Explore ==
  /\ tPc = "program" /\ verify_axiom_predicates(tPddl) /\ Normalized(tPddl)
  /\ tPddl' = IF tOptions.generate_relaxed_task THEN relax(tPddl) ELSE tPddl
  /\ tProgram' = Program(tPddl')
  /\ tModel' = [index |-> EmptyIndex(tProgram'.rules), queue |-> ListOf(tProgram'.facts)]
  /\ tPc' = "explore"
  /\ UNCHANGED <<tTask, tOptions, tPopped, tGround, candidateVars, groupVars, tSas>>

\* An error or assertion of the parser, of normalization or of translate_task.
Abort ==
  /\ \/ tPc = "parse" /\ ParseFails(PddlTasks[tTask])
     \/ tPc = "program" /\ ~(verify_axiom_predicates(tPddl) /\ Normalized(tPddl))
     \/ tPc = "encode" /\ TranslateFails(tEncoding, tPddl)
  /\ tPc' = "aborted"
  /\ UNCHANGED <<tTask, tOptions, tPddl, modelVars, tGround, candidateVars, groupVars, tSas>>

\* compute_model: the next atom of the queue.
PopAtom ==
  /\ tPc = "explore" /\ tPopped < Len(tModel.queue)
  /\ tModel' = Popped(tProgram.rules, tModel, tModel.queue[tPopped + 1])
  /\ tPopped' = tPopped + 1
  /\ UNCHANGED <<tTask, tOptions, tPc, tPddl, tProgram, tGround, candidateVars, groupVars, tSas>>

\* Without a relaxed plan the translator is done.
Instantiate ==
  /\ tPc = "explore" /\ tPopped = Len(tModel.queue)
  /\ tGround' = instantiate(tPddl, tModel.queue)
  /\ \/ tGround'.relaxed_reachable /\ tPc' = "invariants" /\ UNCHANGED tSas
     \/ ~tGround'.relaxed_reachable /\ tPc' = "done" /\ tSas' = trivial_task(FALSE)
  /\ UNCHANGED <<tTask, tOptions, tPddl, modelVars, candidateVars, groupVars>>

\* As many candidates as the limit allows: those of one part come first.
StartInvariants ==
  /\ tPc = "invariants"
  /\ tCandidates' = Limited(get_initial_invariants(tPddl), tOptions.invariant_generation_max_candidates)
  /\ tSeen' = Range(tCandidates')
  /\ tGround' = tGround @@ [checked |-> CheckedActions(tPddl, tGround.parameters)]
  /\ tPc' = "check"
  /\ UNCHANGED <<tTask, tOptions, tPddl, modelVars, tInvariants, groupVars, tSas>>

\* A candidate is accepted, or the action that refuses it first refines it.
CheckCandidate ==
  /\ tPc = "check" /\ tCandidates # <<>>
  /\ \E refusals \in {Refusals(Head(tCandidates), tGround.checked)} :
       \/ /\ refusals = {}
          /\ tInvariants' = tInvariants \cup {Head(tCandidates)}
          /\ tCandidates' = Tail(tCandidates)
          /\ UNCHANGED tSeen
       \/ \E refined \in refusals :
            \E fresh \in {Limited(ListOf(refined \ tSeen), tOptions.invariant_generation_max_candidates - Cardinality(tSeen))} :
              /\ tCandidates' = Tail(tCandidates) \o fresh
              /\ tSeen' = tSeen \cup Range(fresh)
              /\ UNCHANGED tInvariants
  /\ UNCHANGED <<tTask, tOptions, tPc, tPddl, modelVars, tGround, groupVars, tSas>>

\* No candidate is left, or the time is up: invariants found so far count.
Group ==
  /\ tPc = "check"
  /\ tCandidates = <<>> \/ tOptions.time_limit
  /\ tQueue' = Mapped(LAMBDA g : expand_group(g, tGround.atoms), ListOf(UNION {useful_groups(I, tPddl.init) : I \in tInvariants}))
  /\ tMutexes' = WithUncovered(tQueue', tGround.atoms)
  /\ tPc' = "groups"
  /\ UNCHANGED <<tTask, tOptions, tPddl, modelVars, tGround, candidateVars, tGroups, tEncoding, tSas>>

ChooseGroup ==
  /\ tPc = "groups"
  /\ \E i \in Top(tQueue) :
       /\ tGroups' = Append(tGroups, tQueue[i])
       /\ tQueue' = pop(tQueue, i, tOptions.use_partial_encoding)
  /\ UNCHANGED <<tTask, tOptions, tPc, tPddl, modelVars, tGround, candidateVars, tMutexes, tEncoding, tSas>>

\* The rest of the atoms are variables of their own.
CoverRest ==
  /\ tPc = "groups" /\ Top(tQueue) = {}
  /\ tGroups' = WithUncovered(tGroups, tGround.atoms)
  /\ tEncoding' = [vars |-> strips_to_sas_dictionary(tGroups'), mutexes |-> strips_to_sas_dictionary(tMutexes),
                   derived |-> handle_axioms(tGround.actions, tGround.axioms, GoalList(tPddl))]
  /\ tPc' = "encode"
  /\ UNCHANGED <<tTask, tOptions, tPddl, modelVars, tGround, candidateVars, tQueue, tMutexes, tSas>>

Encode ==
  /\ tPc = "encode" /\ ~TranslateFails(tEncoding, tPddl)
  /\ tSas' = translate_task(tEncoding, tPddl, tGround, tOptions.add_implied_preconditions)
  /\ tPc' = "simplify"
  /\ UNCHANGED <<tTask, tOptions, tPddl, modelVars, tGround, candidateVars, groupVars>>

Simplify ==
  /\ tPc = "simplify"
  /\ tSas' = IF tOptions.filter_unreachable_facts /\ ~tSas.trivial THEN filter_unreachable_propositions(tSas) ELSE tSas
  /\ tPc' = "order"
  /\ UNCHANGED <<tTask, tOptions, tPddl, modelVars, tGround, candidateVars, groupVars>>

Order ==
  /\ tPc = "order"
  /\ tSas' = IF tSas.trivial THEN tSas
             ELSE find_and_apply_variable_order(tSas, tOptions.reorder_variables, tOptions.filter_unimportant_vars)
  /\ tPc' = "done"
  /\ UNCHANGED <<tTask, tOptions, tPddl, modelVars, tGround, candidateVars, groupVars>>

TranslatorNext ==
  \/ Parse \/ Normalize \/ Explore \/ Abort \/ PopAtom \/ Instantiate \/ StartInvariants \/ CheckCandidate \/ Group
  \/ ChooseGroup \/ CoverRest \/ Encode \/ Simplify \/ Order

TranslatorSpec == TranslatorInit /\ [][TranslatorNext]_translatorVars

-----------------------------------------------------------------------------
(* Properties.                                                             *)

\* What the tasks mean; with --relaxed no action deletes anything.
RECURSIVE UndeletedEffect(_)
UndeletedEffect(e) ==
  CASE e.tag = "and" -> [e EXCEPT !.parts = Mapped(UndeletedEffect, @)]
    [] e.tag \in {"forall", "when"} -> [e EXCEPT !.effect = UndeletedEffect(@)]
    [] e.tag = "not" -> [tag |-> "and", parts |-> <<>>]
    [] OTHER -> e
Undeleted(D) == [D EXCEPT !.actions = Mapped(LAMBDA a : [a EXCEPT !.effect = UndeletedEffect(@)], @)]

Meant == [t \in DOMAIN PddlTasks |-> [relaxed \in BOOLEAN |->
            Meaning(IF relaxed THEN Undeleted(PddlTasks[t]) ELSE PddlTasks[t])]]
StatesMeant == Meant[tTask][tOptions.generate_relaxed_task]

\* The exploration finds every atom that the rules yield before they are
\* split into joins, and nothing else unless a join has lost a variable
\* that its two conditions share.
JoinDropsVariable ==
  \E r \in Range(tProgram.rules) :
    r.type = "join" /\ ~(get_variables({r.conditions[1]}) \cap get_variables({r.conditions[2]}) \subseteq get_variables({r.effect}))
GroundingIsExact ==
  tPc = "explore" /\ tPopped = Len(tModel.queue) =>
    LET least == LeastModel(tPddl, build_exploration_rules(tPddl), translate_facts(tPddl))
        heads == {r.effect.predicate : r \in Range(build_exploration_rules(tPddl))}
        found == {f \in Range(tModel.queue) : f.predicate \in heads}
    IN /\ {f \in least : f.predicate \in heads} \subseteq found
       /\ ~JoinDropsVariable => found \subseteq least

\* The state of the file for a state of the task: derived variables get
\* their values from the rules.  A variable is right if one of its values
\* is.
DerivedPredicates == {x.name : x \in Range(tPddl.axioms)}
IsBasic(v) == Positive(tSas.names[v][1]).predicate \notin DerivedPredicates
Denotes(v, S) ==
  LET names == tSas.names[v]
      facts == {i \in DOMAIN names : names[i].t = "literal" /\ (Positive(names[i]) \in S.atoms) = ~names[i].negated}
      none == {i \in DOMAIN names : names[i].t # "literal"}
  IN IF facts = {} THEN none ELSE facts
Encoded(S) ==
  evaluate(tSas, [v \in SasVariables(tSas) |-> IF IsBasic(v) THEN CHOOSE i \in Denotes(v, S) : TRUE ELSE tSas.init[v]])

MutexGroupsHold == \A S \in StatesMeant : \A g \in Range(tMutexes) : Cardinality(g \cap S.full) <= 1

MovesOfFile(x) ==
  {s \in {[name |-> op.name, cost |-> op.cost, to |-> successor(tSas, op, x)] : op \in {o \in tSas.operators : is_applicable(o, x)}} :
     s.to # x}
FileState == [A \in {S.atoms : S \in StatesMeant} |-> Encoded([atoms |-> A])]

\* At most one fact of a mutex group is true in a state that can be reached.
\* And the file that is written means what the task means: for every state that
\* can be reached there is one state of the file, in which the same actions
\* apply at the same costs and lead to the states of the file that belong to
\* their results, and which is a goal if the state is one; actions that do
\* nothing to what is left of the task may be missing.  A trivial task is
\* written if there is no plan, or if the initial state is a goal.
TranslationIsExact ==
  /\ tPc = "groups" => MutexGroupsHold
  /\ tPc = "done" =>
    IF tSas.trivial
    THEN IF tSas.solvable THEN \A S \in StatesMeant : S.atoms = PddlTasks[tTask].init => S.goal
         ELSE \A S \in StatesMeant : ~S.goal
    ELSE \E of \in {FileState} :
         /\ of[PddlTasks[tTask].init] = evaluate(tSas, tSas.init)
         /\ \A S \in StatesMeant :
              /\ \A v \in SasVariables(tSas) : IsBasic(v) => Cardinality(Denotes(v, S)) = 1
              /\ SatisfiedBy(tSas.goal, of[S.atoms]) = S.goal
              /\ MovesOfFile(of[S.atoms]) = {s \in {[r EXCEPT !.to = of[r.to]] : r \in S.steps} : s.to # of[S.atoms]}
              /\ \A g \in tSas.mutexes :
                   Cardinality({tSas.names[p[1]][p[2]] : p \in {q \in g : q[2] \in Denotes(q[1], S)}}) <= 1
=============================================================================
