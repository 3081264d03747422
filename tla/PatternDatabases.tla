-------------------------- MODULE PatternDatabases --------------------------
(***************************************************************************)
(* Pattern databases: distances in the projection of a task to some of its *)
(* variables, the pattern, and the heuristics that combine them.  Patterns *)
(* come from hill climbing ("ipdb"), which adds one pattern after another  *)
(* where a sample says that it improves the heuristic, or systematically.  *)
(*                                                                         *)
(* Samples and the pattern that is best for them are left open, as is when *)
(* the time for hill climbing is up.                                       *)
(***************************************************************************)
EXTENDS SasTask

CONSTANTS
  PDB_MAX_SIZE,       \* pdb_max_size
  COLLECTION_MAX_SIZE \* collection_max_size

VARIABLES
  dTask, dPc,
  dPatterns,   \* patterns of the collection
  dGenerated,  \* patterns generated so far, to avoid duplicates
  dCandidates  \* those that may be added

pdbVars == <<dTask, dPc, dPatterns, dGenerated, dCandidates>>

EffectVars(o) == {e.fact[1] : e \in Range(o.effs)}
PreVars(o) == {f[1] : f \in Range(o.pre)}

-----------------------------------------------------------------------------
(* pattern_database.cc.                                                    *)

Project(s, P) == [v \in P |-> s[v]]
AbstractStates(T, P) == {Project(s, P) : s \in StatesOf(T)}
get_size(T, P) == FoldSet(LAMBDA v, n : n * T.dom[v], 1, P)

\* The states from which an operator leads to a: it must have the effects and
\* the preconditions that do not change; a variable that the operator sets
\* without a precondition may have had any value.
Regression(T, P, o, a) ==
  IF \/ \E e \in Range(o.effs) : e.fact[1] \in P /\ a[e.fact[1]] # e.fact[2]
     \/ \E f \in Range(o.pre) : f[1] \in P \ EffectVars(o) /\ a[f[1]] # f[2]
  THEN {}
  ELSE {b \in AbstractStates(T, P) :
          /\ \A v \in P \ EffectVars(o) : b[v] = a[v]
          /\ \A f \in Range(o.pre) : f[1] \in P \cap EffectVars(o) => b[f[1]] = f[2]}

create_pdb(T, P, costs) ==
  Distances(AbstractStates(T, P),
            UNION {UNION {{<<b, a, costs[o]>> : b \in Regression(T, P, T.ops[o], a)} :
                          a \in AbstractStates(T, P)} : o \in OpsOf(T)},
            {a \in AbstractStates(T, P) : \A f \in T.goal : f[1] \in P => a[f[1]] = f[2]})

operator_costs(T) == [o \in OpsOf(T) |-> T.ops[o].cost]

\* The databases of all patterns, for tasks that the heuristics support.
Pdb ==
  [t \in {u \in DOMAIN Tasks : ~ has_conditional_effects(Tasks[u])} |->
     [P \in SUBSET Vars(Tasks[t]) |-> create_pdb(Tasks[t], P, operator_costs(Tasks[t]))]]

get_value_of(t, P, s) == Pdb[t][P][Project(s, P)]

-----------------------------------------------------------------------------
(* max_additive_pdb_sets.cc and max_cliques.cc.                            *)

\* Mutant: a variable is additive to itself.
MutAdditive(T, P, Q) == \A o \in Range(T.ops) : \A v \in P, w \in Q : {v, w} \subseteq EffectVars(o) => v = w

are_patterns_additive(T, P, Q) == \A o \in Range(T.ops) : EffectVars(o) \cap P = {} \/ EffectVars(o) \cap Q = {}

\* Extensions of a clique by candidates that are adjacent to all of it.  The
\* vertex u with most candidates as neighbours is left to the recursion.
RECURSIVE expand(_, _, _, _)
expand(adjacent, subg, cand, clique) ==
  LET degree(x) == Cardinality(cand \cap adjacent[x])
      u == CHOOSE x \in subg : \A y \in subg : degree(y) <= degree(x)
      step(acc, q) == [cliques |-> acc.cliques \cup
                                   expand(adjacent, subg \cap adjacent[q], acc.cand \cap adjacent[q], clique \cup {q}),
                       cand |-> acc.cand \ {q}]
  IN IF subg = {} THEN {clique}
     ELSE FoldSet(LAMBDA q, acc : step(acc, q), [cliques |-> {}, cand |-> cand], cand \ adjacent[u]).cliques

compute_max_additive_subsets(T, C) ==
  expand([P \in C |-> {Q \in C \ {P} : are_patterns_additive(T, P, Q)}], C, C, {})

compute_max_additive_subsets_with_pattern(T, known, P) ==
  LET additive == {{Q \in A : are_patterns_additive(T, P, Q)} : A \in known} \ {{}}
  IN IF additive = {} THEN {{}} ELSE additive

-----------------------------------------------------------------------------
(* dominance_pruning.cc, canonical_pdbs.cc and zero_one_pdbs.cc.           *)

collection_dominates(superset, subset) == \A P \in subset : \E Q \in superset : P \subseteq Q

prune_dominated_subsets(subsets) ==
  FoldSet(LAMBDA A, left : IF \E B \in left \ {A} : collection_dominates(B, A) THEN left \ {A} ELSE left,
          subsets, subsets)

SumOf(t, A, s) == FoldSet(LAMBDA P, sum : sum + get_value_of(t, P, s), 0, A)

Canonical(t, subsets, s) ==
  IF \E A \in subsets : \E P \in A : get_value_of(t, P, s) = INFTY THEN INFTY
  ELSE Largest({SumOf(t, A, s) : A \in subsets})

\* An operator pays for the first pattern it affects.
ZeroOne(T, order) ==
  LET step(acc, P) ==
        LET pdb == create_pdb(T, P, acc.costs) IN
        [costs |-> [o \in OpsOf(T) |-> IF EffectVars(T.ops[o]) \cap P # {} THEN 0 ELSE acc.costs[o]],
         sum |-> [s \in StatesOf(T) |-> Least({acc.sum[s] + pdb[Project(s, P)], INFTY})]]
  IN FoldLeft(step, [costs |-> operator_costs(T), sum |-> [s \in StatesOf(T) |-> 0]], order).sum

-----------------------------------------------------------------------------
(* causal_graph.cc and pattern_collection_generator_systematic.cc.         *)

eff_to_pre(T, v) == UNION {PreVars(o) : o \in {p \in Range(T.ops) : v \in EffectVars(p)}} \ {v}
get_successors(T, v) ==
  UNION {EffectVars(o) : o \in {p \in Range(T.ops) : v \in PreVars(p) \cup EffectVars(p)}} \ {v}

compute_eff_pre_neighbors(T, P) == UNION {eff_to_pre(T, v) : v \in P} \ P

compute_connection_points(T, P) ==
  UNION {get_successors(T, v) : v \in P} \ (P \cup UNION {eff_to_pre(T, v) : v \in P})

GoalPatterns(T) == {{f[1]} : f \in T.goal}

RECURSIVE build_sga_patterns(_, _, _)
build_sga_patterns(T, max_pattern_size, C) ==
  LET next == C \cup UNION {{P \cup {v} : v \in compute_eff_pre_neighbors(T, P)} :
                            P \in {Q \in C : Cardinality(Q) < max_pattern_size}}
  IN IF next = C THEN C ELSE build_sga_patterns(T, max_pattern_size, next)

RECURSIVE build_patterns(_, _, _, _)
build_patterns(T, max_pattern_size, sga, C) ==
  LET fits(P, Q) == P \cap Q = {} /\ Cardinality(P) + Cardinality(Q) <= max_pattern_size
      attached(P) == {Q \in sga : Q \cap compute_connection_points(T, P) # {} /\ fits(P, Q)}
      next == C \cup UNION {{P \cup Q : Q \in attached(P)} : P \in C}
  IN IF next = C THEN C ELSE build_patterns(T, max_pattern_size, sga, next)

Interesting(T, n) == LET sga == build_sga_patterns(T, n, GoalPatterns(T)) IN build_patterns(T, n, sga, sga)
build_patterns_naive(T, n) == {P \in SUBSET Vars(T) : Cardinality(P) \in 1 .. n}

-----------------------------------------------------------------------------
(* incremental_canonical_pdbs.cc and                                       *)
(* pattern_collection_generator_hillclimbing.cc.                           *)

dT == Tasks[dTask]

generate_candidate_pdbs(T, P) ==
  {P \cup {v} : v \in {w \in compute_eff_pre_neighbors(T, P) : get_size(T, P) * T.dom[w] <= PDB_MAX_SIZE}}

is_dead_end(t, C, s) == \E P \in C : get_value_of(t, P, s) = INFTY

\* known are the maximal additive sets of the collection.
is_heuristic_improved(t, known, P, s) ==
  LET h == get_value_of(t, P, s)
      value == Canonical(t, known, s)
      additive == compute_max_additive_subsets_with_pattern(Tasks[t], known, P)
  IN h = INFTY \/ (value < INFTY /\ \E A \in additive : h + SumOf(t, A, s) > value)

CollectionSize == FoldSet(LAMBDA P, n : n + get_size(dT, P), 0, dPatterns)

\* Walks that meet a dead end start again.
Samples == {s \in Reachable[dTask] : ~ is_dead_end(dTask, dPatterns, s)}

PdbInit(t) ==
  LET T == Tasks[t]
      candidates == UNION {generate_candidate_pdbs(T, P) : P \in GoalPatterns(T)}
  IN /\ ~ has_conditional_effects(T)
     /\ dTask = t
     /\ dPatterns = GoalPatterns(T)
     /\ dGenerated = candidates
     /\ dCandidates = candidates
     /\ dPc = "climb"

\* Candidates that no longer fit are forgotten.
AddPdb(P) ==
  LET fitting == {Q \in dCandidates : CollectionSize + get_size(dT, Q) <= COLLECTION_MAX_SIZE}
      new == generate_candidate_pdbs(dT, P) \ dGenerated
  IN /\ dPc = "climb"
     /\ ~ is_dead_end(dTask, dPatterns, InitialState(dT))
     /\ P \in fitting
     /\ LET known == compute_max_additive_subsets(dT, dPatterns)
        IN \E s \in Samples : is_heuristic_improved(dTask, known, P, s)
     /\ dPatterns' = dPatterns \cup {P}
     /\ dGenerated' = dGenerated \cup new
     /\ dCandidates' = (fitting \ {P}) \cup new
     /\ UNCHANGED <<dTask, dPc>>

\* No improvement, a dead end at the start, or the time is up.
StopClimbing ==
  /\ dPc = "climb"
  /\ dPc' = "done"
  /\ UNCHANGED <<dTask, dPatterns, dGenerated, dCandidates>>

PdbNext == (\E P \in dCandidates : AddPdb(P)) \/ StopClimbing

-----------------------------------------------------------------------------
(* Properties.                                                             *)

OmittedPatternsAddNothing ==
  LET T == dT
      known == compute_max_additive_subsets(T, dPatterns)
      pruned == prune_dominated_subsets(known)
      same(C, D) == \A s \in StatesOf(T) : Canonical(dTask, C, s) = Canonical(dTask, D, s)
  IN /\ same(pruned, known)
     /\ dPatterns = GoalPatterns(T) =>
          \A n \in 1 .. 3 : LET all == compute_max_additive_subsets(T, build_patterns_naive(T, n))
                               interesting == compute_max_additive_subsets(T, Interesting(T, n))
                           IN same(interesting, all)
     /\ \A P \in dCandidates : LET more == compute_max_additive_subsets(T, dPatterns \cup {P}) IN
          \A s \in StatesOf(T) : ~ is_dead_end(dTask, dPatterns, s) =>
            (is_heuristic_improved(dTask, known, P, s) <=> Canonical(dTask, more, s) > Canonical(dTask, known, s))

\* Going backwards with operators that do not say what they overwrite gives
\* the distances in the projection; and neither the sums over additive sets
\* nor the sum in which each operator pays once exceeds the cost of a plan.
\* What is left out would never contribute to the value: dominated sets of
\* patterns, patterns that are not interesting, and patterns that do not
\* improve the value of any sample.
PatternEstimatesAdmissible ==
  dPc \in {"climb", "done"} =>
    /\ \A P \in dPatterns \cup dCandidates :
         Pdb[dTask][P] =
           Distances(AbstractStates(dT, P), {<<Project(e[1], P), Project(e[2], P), e[3]>> : e \in Transitions[dTask]},
                     {Project(s, P) : s \in {x \in StatesOf(dT) : is_goal_state(dT, x)}})
    /\ LET known == compute_max_additive_subsets(dT, dPatterns) IN
         \A s \in StatesOf(dT) : Canonical(dTask, known, s) <= GoalDistance[dTask][s]
    /\ dPc = "done" =>
         LET sum == ZeroOne(dT, SetToSeq(dPatterns)) IN \A s \in StatesOf(dT) : sum[s] <= GoalDistance[dTask][s]
    /\ dPc = "climb" => OmittedPatternsAddNothing
=============================================================================
