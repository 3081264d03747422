--------------------------- MODULE MergeAndShrink ---------------------------
(***************************************************************************)
(* The construction of the merge-and-shrink heuristic: one transition      *)
(* system ("factor") per variable; then, until one factor is left or one   *)
(* is unsolvable, two factors are chosen, labels are reduced, both factors *)
(* are shrunk, labels are reduced again, and the two are merged.           *)
(*                                                                         *)
(* A partial state is a set of facts, and an abstract state is the set of  *)
(* the partial states that the lookup tables of the representation map to  *)
(* it: a partial state in no abstract state is mapped to PRUNED_STATE.  A  *)
(* label is the set of the operators it stands for.  Which factors the     *)
(* merge strategy selects and what random numbers decide is left open.     *)
(***************************************************************************)
EXTENDS SasTask

CONSTANT MasOptions \* set of [shrink, method, reverse, early, late, states, before, threshold]

VARIABLES
  mTask, mOptions,
  mPc,
  mFactors, \* active index -> [states, init, goals, groups, g, h]
  mSize,    \* number of transition systems, merged ones included
  mMerge    \* the pair of indices that is merged next

masVars == <<mTask, mOptions, mPc, mFactors, mSize, mMerge>>

PRUNED_STATE == {}

-----------------------------------------------------------------------------
(* fts_factory.cc: the transition system of one variable.                  *)

\* An effect with a condition on another variable may trigger or not.
Moves(T, v, o) ==
  LET values == {d \in 0 .. T.dom[v] - 1 : \A f \in Range(T.ops[o].pre) : f[1] = v => f[2] = d}
      effects == {e \in Range(T.ops[o].effs) : e.fact[1] = v}
      own(e) == {f \in e.cond : f[1] = v}
      triggered(e) == {<<d, e.fact[2]>> : d \in {x \in values : own(e) \subseteq {<<v, x>>}}}
      skipped(e) == {<<d, d>> : d \in {x \in values : e.cond # own(e) \/ ~ own(e) \subseteq {<<v, x>>}}}
  IN IF effects = {} THEN {<<d, d>> : d \in values}
     ELSE UNION {triggered(e) \cup skipped(e) : e \in effects}

compute_locally_equivalent_labels(groups) ==
  {[labels |-> UNION {k.labels : k \in {x \in groups : x.trans = a.trans}}, trans |-> a.trans] : a \in groups}

AtomicFactor(T, v) ==
  LET state(d) == {{<<v, d>>}}
      label(o) == [labels |-> {{o}}, trans |-> {<<state(x[1]), state(x[2])>> : x \in Moves(T, v, o)}]
  IN [states |-> {state(d) : d \in 0 .. T.dom[v] - 1},
      init |-> state(InitialState(T)[v]),
      goals |-> {state(d) : d \in {x \in 0 .. T.dom[v] - 1 : \A f \in T.goal : f[1] = v => f[2] = x}},
      groups |-> compute_locally_equivalent_labels({label(o) : o \in OpsOf(T)}),
      g |-> <<>>, h |-> <<>>]

is_solvable(f) == f.init # PRUNED_STATE

-----------------------------------------------------------------------------
(* distances.cc.  The cost of a group of labels is that of the cheapest.   *)

get_label_cost(T, l) == T.ops[Least(l)].cost
get_cost(T, a) == Least({get_label_cost(T, l) : l \in a.labels})

compute_distances(T, f) ==
  LET steps == UNION {{<<x[1], x[2], get_cost(T, a)>> : x \in a.trans} : a \in f.groups}
      back == {<<e[2], e[1], e[3]>> : e \in steps}
  IN [f EXCEPT !.g = Distances(f.states, back, {f.init} \cap f.states),
               !.h = Distances(f.states, steps, f.goals)]

\* The distances are kept when all states of a class have the same ones.
must_recompute(f, classes) ==
  \E c \in classes : \E x, y \in c : f.g[x] # f.g[y] \/ f.h[x] # f.h[y]

-----------------------------------------------------------------------------
(* transition_system.cc and factored_transition_system.cc.                 *)

Goals(f, classes) == {UNION c : c \in {x \in classes : x \cap f.goals # {}}}

\* Every class becomes one state; states in no class are pruned.
apply_abstraction(T, f, classes) ==
  LET class(x) == UNION UNION {c \in classes : x \in c}
      moved(a) == {<<class(x[1]), class(x[2])>> : x \in a.trans}
      kept(a) == {x \in moved(a) : x[1] # PRUNED_STATE /\ x[2] # PRUNED_STATE}
      new == [states |-> {UNION c : c \in classes},
              init |-> class(f.init),
              goals |-> Goals(f, classes),
              groups |-> compute_locally_equivalent_labels({[a EXCEPT !.trans = kept(a)] : a \in f.groups}),
              g |-> [x \in {UNION c : c \in classes} |-> f.g[CHOOSE y \in f.states : y \subseteq x]],
              h |-> [x \in {UNION c : c \in classes} |-> f.h[CHOOSE y \in f.states : y \subseteq x]]]
  IN IF Cardinality(classes) = Cardinality(f.states) THEN f
     ELSE IF must_recompute(f, classes) THEN compute_distances(T, new)
     ELSE new

\* Unreachable states and states without a way to the goal are discarded.
compute_distances_and_prune(T, f0) ==
  LET f == compute_distances(T, f0)
  IN apply_abstraction(T, f, {{x} : x \in {y \in f.states : f.g[y] < INFTY /\ f.h[y] < INFTY}})

\* Mutant: labels without a transition stay in groups of their own.
MutMergedGroups(pieces) == pieces

\* All labels that are dead in the product are one group.
MergedGroups(pieces) ==
  LET dead == UNION {a.labels : a \in {x \in pieces : x.trans = {}}}
  IN {a \in pieces : a.trans # {}} \cup (IF dead = {} THEN {} ELSE {[labels |-> dead, trans |-> {}]})

\* x and y are sets of partial states of different variables.
Join(x, y) == {p \cup q : p \in x, q \in y}

merge(f1, f2) ==
  [states |-> {Join(x, y) : x \in f1.states, y \in f2.states},
   init |-> Join(f1.init, f2.init),
   goals |-> {Join(x, y) : x \in f1.goals, y \in f2.goals},
   groups |-> MergedGroups(
     {[labels |-> w[1].labels \cap w[2].labels,
       trans |-> {<<Join(x[1], y[1]), Join(x[2], y[2])>> : x \in w[1].trans, y \in w[2].trans}] :
      w \in {k \in f1.groups \X f2.groups : k[1].labels \cap k[2].labels # {}}}),
   g |-> <<>>, h |-> <<>>]

-----------------------------------------------------------------------------
(* label_reduction.cc.                                                     *)

Labels(fs) == UNION {a.labels : a \in fs[Least(DOMAIN fs)].groups}

\* Mutant: labels of different costs are combined.
MutCombined(T, fs, k, l) ==
  {j \in Labels(fs) : \A i \in DOMAIN fs \ {k} : \E a \in fs[i].groups : {j, l} \subseteq a.labels}

\* The labels of the cost of l that are locally equivalent to it in all
\* factors but k.
Combined(T, fs, k, l) ==
  {j \in Labels(fs) : /\ get_label_cost(T, j) = get_label_cost(T, l)
                      /\ \A i \in DOMAIN fs \ {k} : \E a \in fs[i].groups : {j, l} \subseteq a.labels}

compute_label_mapping(T, fs, k) ==
  {c \in {Combined(T, fs, k, l) : l \in Labels(fs)} : Cardinality(c) > 1}

\* In factor k the new label has the transitions of all the labels it stands
\* for; in the others they have the same transitions.
apply_label_reduction(fs, mapping, k) ==
  LET old == UNION mapping
      others(f) == {[a EXCEPT !.labels = (@ \ old) \cup {UNION c : c \in {x \in mapping : x \subseteq a.labels}}] : a \in f.groups}
      new(f) == {[labels |-> {UNION c},
                  trans |-> UNION {a.trans : a \in {x \in f.groups : x.labels \cap c # {}}}] : c \in mapping}
      rest(f) == {b \in {[a EXCEPT !.labels = @ \ old] : a \in f.groups} : b.labels # {}}
  IN [i \in DOMAIN fs |->
        [fs[i] EXCEPT !.groups = IF i # k THEN others(fs[i])
                                 ELSE compute_locally_equivalent_labels(new(fs[i]) \cup rest(fs[i]))]]

reduce_for(T, fs, k) ==
  IF k \in DOMAIN fs THEN apply_label_reduction(fs, compute_label_mapping(T, fs, k), k) ELSE fs

\* Factors are tried in turn, removed ones too, until all but one have been
\* tried without success.
RECURSIVE ReduceInTurn(_, _, _, _, _)
ReduceInTurn(T, fs, order, left, unsuccessful) ==
  LET failed == order[1] \notin DOMAIN fs \/ compute_label_mapping(T, fs, order[1]) = {}
      next == reduce_for(T, fs, order[1])
      failures == IF failed THEN unsuccessful + 1 ELSE 0
  IN IF left = 1 \/ failures = Len(order) - 1 THEN next
     ELSE ReduceInTurn(T, next, Tail(order) \o <<order[1]>>, left - 1, failures)

reduce(T, fs, size, o, pair) ==
  LET order == IF o.reverse THEN [i \in 1 .. size |-> size + 1 - i] ELSE [i \in 1 .. size |-> i]
  IN CASE o.method = "two" -> reduce_for(T, reduce_for(T, fs, pair[1]), pair[2])
       [] o.method = "all" -> ReduceInTurn(T, fs, order, size, 0)
       [] o.method = "fixpoint" -> ReduceInTurn(T, fs, order, INFTY, 0)

-----------------------------------------------------------------------------
(* Size limits: merge_and_shrink_heuristic.cc and utils.cc.                *)

handle_shrink_limit_options_defaults(o) ==
  LET states0 == IF o.states = -1 /\ o.before = -1 THEN 50000 ELSE o.states
      before0 == IF o.before = -1 THEN states0 ELSE o.before
      states == IF states0 = -1 THEN before0 * before0 ELSE states0
  IN [states |-> states,
      before |-> Least({before0, states}),
      threshold |-> IF o.threshold = -1 THEN states ELSE Least({o.threshold, states})]

compute_shrink_sizes(size1, size2, limits) ==
  LET new1 == Least({size1, limits.before})
      new2 == Least({size2, limits.before})
      balanced == Largest({n \in 0 .. new1 * new2 : n * n <= limits.states})
  IN IF new1 * new2 <= limits.states THEN <<new1, new2>>
     ELSE IF new1 <= balanced THEN <<new1, limits.states \div new1>>
     ELSE IF new2 <= balanced THEN <<limits.states \div new2, new2>>
     ELSE <<balanced, balanced>>

-----------------------------------------------------------------------------
(* shrink_bucket_based.cc with shrink_fh.cc and shrink_random.cc: the      *)
(* partitions that can come out.                                           *)

PartitionsInto(S, n) == {{{x \in S : p[x] = i} : i \in 1 .. n} : p \in {q \in [S -> 1 .. n] : Range(q) = 1 .. n}}

\* Smallest f first or largest first, and within it by h.
Buckets(f, o) ==
  LET key(x) == <<(f.g[x] + f.h[x]) * (IF o.highF THEN -1 ELSE 1), f.h[x] * (IF o.highH THEN -1 ELSE 1)>>
      before(a, b) == a[1] < b[1] \/ (a[1] = b[1] /\ a[2] < b[2])
      keys == SetToSortSeq({key(x) : x \in f.states}, before)
  IN IF o.shrink = "random" THEN <<f.states>>
     ELSE [i \in DOMAIN keys |-> {x \in f.states : key(x) = keys[i]}]

\* What can follow the classes so far when the buckets from the i-th on are
\* divided; the last bucket that was merged as a whole may take in others.
RECURSIVE compute_abstraction(_, _, _, _, _)
compute_abstraction(buckets, i, target, classes, last) ==
  IF i > Len(buckets) THEN {classes}
  ELSE LET to_go == Cardinality(UNION {buckets[k] : k \in i + 1 .. Len(buckets)})
           remaining == target - Cardinality(classes)
           budget == remaining - to_go
           b == buckets[i]
           more(new, l) == compute_abstraction(buckets, i + 1, target, new, l)
       IN IF budget >= Cardinality(b) THEN UNION {more(classes \cup {{y} : y \in b}, {x}) : x \in b}
          ELSE IF budget > 1 THEN UNION {UNION {more(classes \cup p, c) : c \in p} : p \in PartitionsInto(b, budget)}
          ELSE IF remaining >= Len(buckets) + 1 - i \/ i = 1 THEN more(classes \cup {b}, b)
          ELSE more((classes \ {last}) \cup {last \cup b}, last \cup b)

-----------------------------------------------------------------------------
(* shrink_bisimulation.cc.                                                 *)

\* Goal states are one group, the others are grouped by their distance.
Level(f, x) == IF x \in f.goals THEN -1 ELSE f.h[x]
initialize_groups(f) == {{y \in f.states : Level(f, y) = Level(f, z)} : z \in f.states}

\* Mutant: the group a transition leads to is forgotten.
MutSignature(T, f, greedy, partition, x) == {<<a, {}>> : a \in {k \in f.groups : \E w \in k.trans : w[1] = x}}

Signature(T, f, greedy, partition, x) ==
  UNION {{<<a, CHOOSE c \in partition : w[2] \in c>> :
            w \in {k \in a.trans : k[1] = x /\ (greedy => f.h[k[2]] + get_cost(T, a) = f.h[x])}} : a \in f.groups}

\* One level of one round.  When the number of groups reaches the target the
\* code stops at once, so that of the last new group only one state has moved.
\* Which group is the last depends on the order of the signatures.
SplitLevel(T, f, o, target, old, now, level) ==
  LET greedy == o.shrink = "greedy"
      groups == {c \in now : \E x \in c : Level(f, x) = level}
      sig(x) == Signature(T, f, greedy, old, x)
      parts(c) == {{y \in c : sig(y) = sig(x)} : x \in c}
      blocks == UNION {parts(c) : c \in groups}
      new == Cardinality(blocks) - Cardinality(groups)
      budget == target - Cardinality(now)
      chosen == {X \in SUBSET blocks : Cardinality(X) = budget /\ \A c \in groups : ~ parts(c) \subseteq X}
      cut(X, last, s) ==
        LET moved == (X \ {last}) \cup {{s}} IN (now \ groups) \cup moved \cup {c \ UNION moved : c \in groups}
  IN IF new = 0 THEN {[groups |-> now, more |-> TRUE]}
     ELSE IF new < budget THEN {[groups |-> (now \ groups) \cup blocks, more |-> TRUE]}
     ELSE IF new > budget /\ o.shrink # "use_up" THEN {[groups |-> now, more |-> FALSE]}
     ELSE UNION {UNION {{[groups |-> cut(X, last, s), more |-> FALSE] : s \in last} : last \in X} : X \in chosen}

RECURSIVE SplitLevels(_, _, _, _, _, _, _)
SplitLevels(T, f, o, target, old, now, levels) ==
  IF levels = {} THEN {[groups |-> now, more |-> now # old]}
  ELSE UNION {IF r.more THEN SplitLevels(T, f, o, target, old, r.groups, levels \ {Least(levels)}) ELSE {r} :
              r \in SplitLevel(T, f, o, target, old, now, Least(levels))}

RECURSIVE Bisimulations(_, _, _, _, _)
Bisimulations(T, f, o, target, groups) ==
  IF Cardinality(groups) >= target THEN {groups}
  ELSE UNION {IF r.more THEN Bisimulations(T, f, o, target, r.groups) ELSE {r.groups} :
              r \in SplitLevels(T, f, o, target, groups, groups, {Level(f, x) : x \in f.states})}

\* The partitions that shrinking a factor to a size may apply.
shrink_transition_system(T, f, o, target, threshold) ==
  IF Cardinality(f.states) <= Least({target, threshold}) THEN {{{x} : x \in f.states}}
  ELSE IF o.shrink \in {"fh", "random"} THEN compute_abstraction(Buckets(f, o), 1, target, {}, {})
  ELSE Bisimulations(T, f, o, target, initialize_groups(f))

-----------------------------------------------------------------------------
(* merge_and_shrink_heuristic.cc: build.                                   *)

mT == Tasks[mTask]

MasInit(t) ==
  /\ mTask = t
  /\ mOptions \in MasOptions
  /\ mFactors = [v \in Vars(Tasks[t]) |-> AtomicFactor(Tasks[t], v)]
  /\ mSize = 0
  /\ mPc = "atomic"
  /\ mMerge = <<>>

\* The factor is pruned; an unsolvable one ends the construction.
FactorAdded(fs, i) ==
  LET f == compute_distances_and_prune(mT, fs[i]) IN
  /\ mFactors' = [fs EXCEPT ![i] = f]
  /\ mSize' = i
  /\ mMerge' = IF is_solvable(f) THEN <<>> ELSE <<i>>

PruneAtomic ==
  /\ mPc = "atomic"
  /\ FactorAdded(mFactors, mSize + 1)
  /\ mPc' = IF mMerge' # <<>> THEN "done" ELSE IF mSize' < Len(mT.dom) THEN "atomic" ELSE "choose"
  /\ UNCHANGED <<mTask, mOptions>>

GetNextMerge ==
  /\ mPc = "choose"
  /\ Cardinality(DOMAIN mFactors) > 1
  /\ \E i, j \in DOMAIN mFactors : i # j /\ mMerge' = <<i, j>>
  /\ mPc' = "early"
  /\ UNCHANGED <<mTask, mOptions, mFactors, mSize>>

Reduce(pc, enabled, next) ==
  /\ mPc = pc
  /\ mFactors' = IF enabled THEN reduce(mT, mFactors, mSize, mOptions, mMerge) ELSE mFactors
  /\ mPc' = next
  /\ UNCHANGED <<mTask, mOptions, mSize, mMerge>>

ReduceBeforeShrinking == Reduce("early", mOptions.early, "shrink")
ReduceBeforeMerging == Reduce("late", mOptions.late, "merge")

ShrinkBeforeMerge ==
  LET limits == handle_shrink_limit_options_defaults(mOptions)
      f(n) == mFactors[mMerge[n]]
      sizes == compute_shrink_sizes(Cardinality(f(1).states), Cardinality(f(2).states), limits)
      results(n) == shrink_transition_system(mT, f(n), mOptions, sizes[n], limits.threshold)
  IN /\ mPc = "shrink"
     /\ \E p \in results(1), q \in results(2) :
          mFactors' = [mFactors EXCEPT ![mMerge[1]] = apply_abstraction(mT, @, p), ![mMerge[2]] = apply_abstraction(mT, @, q)]
     /\ mPc' = "late"
     /\ UNCHANGED <<mTask, mOptions, mSize, mMerge>>

Merge ==
  /\ mPc = "merge"
  /\ LET product == merge(mFactors[mMerge[1]], mFactors[mMerge[2]])
         others == DOMAIN mFactors \ Range(mMerge)
     IN FactorAdded([i \in others \cup {mSize + 1} |-> IF i \in others THEN mFactors[i] ELSE product], mSize + 1)
  /\ mPc' = IF mMerge' # <<>> THEN "done" ELSE "choose"
  /\ UNCHANGED <<mTask, mOptions>>

\* set_distances: the last factor, or the unsolvable one, is kept.
Finish ==
  /\ mPc = "choose"
  /\ Cardinality(DOMAIN mFactors) = 1
  /\ mMerge' = <<mSize>>
  /\ mPc' = "done"
  /\ UNCHANGED <<mTask, mOptions, mFactors, mSize>>

MasNext ==
  PruneAtomic \/ GetNextMerge \/ ReduceBeforeShrinking \/ ShrinkBeforeMerge \/ ReduceBeforeMerging \/ Merge \/ Finish

\* compute_heuristic, once the construction is done.
MasEstimate(s) ==
  LET f == mFactors[mMerge[1]]
      X == {x \in f.states : \E p \in x : p \subseteq FactsIn(s)}
  IN IF X = {} THEN INFTY ELSE f.h[CHOOSE x \in X : TRUE]

-----------------------------------------------------------------------------
(* Properties.                                                             *)

\* Distances carried over a shrinking are those of the factor, and no state
\* is left that shrinking takes for impossible; labels are in one group
\* exactly when they have the same transitions, and all factors have the same
\* labels, of operators of one cost each.
FactorsAreCurrent ==
  \A i \in DOMAIN mFactors : LET f == mFactors[i] IN
    /\ f.h # <<>> => LET d == compute_distances(mT, f) IN
         f.g = d.g /\ f.h = d.h /\ \A x \in f.states : f.g[x] < INFTY /\ f.h[x] < INFTY
    /\ \A a, b \in f.groups : a.trans = b.trans => a = b
    /\ {a.labels : a \in f.groups} = {a.labels : a \in compute_locally_equivalent_labels(f.groups)}
    /\ UNION {a.labels : a \in f.groups} = Labels(mFactors)
    /\ UNION Labels(mFactors) = OpsOf(mT)
    /\ \A l \in Labels(mFactors) : \A o \in l : mT.ops[o].cost = get_label_cost(mT, l)

\* The transitions of all factors together, with their costs.
Product(fs) ==
  LET of(i, l) == (CHOOSE a \in fs[i].groups : l \in a.labels).trans
      I == DOMAIN fs
  IN UNION {{<<get_label_cost(mT, l), p>> : p \in {q \in [I -> UNION {of(i, l) : i \in I}] : \A i \in I : q[i] \in of(i, l)}} :
            l \in Labels(fs)}

\* Label reduction is exact: it neither adds a transition to the product of
\* the factors nor takes one away or changes its cost, though no product is
\* ever built for it.
ReductionIsExact ==
  [][(mPc \in {"early", "late"}) => (Product(mFactors)' = Product(mFactors))]_masVars

\* The heuristic never exceeds the cost of a plan, except for states that are
\* not reachable and pruned.  With exact bisimulation and without a limit
\* that bites it is perfect for every reachable state.
MasIsAdmissible ==
  mPc = "done" =>
    \A s \in StatesOf(mT) : LET e == MasEstimate(s) IN
      /\ e <= GoalDistance[mTask][s] \/ (e = INFTY /\ s \notin Reachable[mTask])
      /\ /\ mOptions.shrink = "bisimulation"
         /\ handle_shrink_limit_options_defaults(mOptions).states >= 50000
         /\ ~ has_conditional_effects(mT)
         /\ s \in Reachable[mTask]
         => e = GoalDistance[mTask][s]
=============================================================================
