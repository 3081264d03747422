------------------------------ MODULE Landmarks ------------------------------
(***************************************************************************)
(* Landmarks and the landmark-count heuristic (landmarks/): a factory      *)
(* finds landmarks and orders between them (lm_exhaust, lm_zg, lm_rhw,     *)
(* lm_hm, or several of these merged), drops what its options do not want, *)
(* approximates reasonable orders and breaks cycles.  During the search    *)
(* the heuristic is told of every transition and keeps for every state the *)
(* landmarks that were reached on all paths it has heard of; its estimate  *)
(* is computed from those of one state.                                    *)
(*                                                                         *)
(* A node of the landmark graph is the set of its facts: one fact, a       *)
(* disjunction, or in the graphs of lm_hm a conjunction.  Mutexes are      *)
(* those between values of one variable.                                   *)
(***************************************************************************)
EXTENDS SasTask

CONSTANTS
  LandmarkOptions, \* [factories, merged, admissible, alm], see the assumption
  PredicateOf(_, _) \* predicate of a fact of a task, "none" without one

FactoryOptions ==
  [kind : {"exhaust", "zg", "rhw", "hm", "merged"}, m : Nat \ {0}, causal : BOOLEAN,
   disjunctive : BOOLEAN, conjunctive : BOOLEAN, orders : BOOLEAN, reasonable : BOOLEAN]

\* merged is <<>> or the options of the factory that merges the graphs.
LandmarkOptionsAssumption ==
  \A c \in LandmarkOptions :
    /\ c.factories # <<>> /\ Range(c.factories) \cup Range(c.merged) \subseteq FactoryOptions
    /\ Len(c.merged) = IF Len(c.factories) = 1 THEN 0 ELSE 1
    /\ {c.admissible, c.alm} \subseteq BOOLEAN
    \* Interference is modelled for landmarks of one fact.
    /\ \A f \in Range(c.factories) : f.kind = "hm" /\ f.reasonable => f.m = 1
ASSUME LandmarkOptionsAssumption

VARIABLES
  kTask,      \* the task and its number
  kOptions,
  kPc,        \* "generate", "open", "discard", "acyclic", "search", "exited", "crashed"
  kGraph,     \* the graph that is built, see EmptyGraph
  kOpen,      \* open_landmarks of lm_rhw
  kGraphs,    \* graphs of the factories that are done
  kConverted, \* history: a disjunctive landmark with parents became a simple one
  kOrder,     \* the nodes in the order of their ids
  kReached    \* reached_lms: landmarks reached in every state that is known

landmarkVars == <<kTask, kOptions, kPc, kGraph, kOpen, kGraphs, kConverted, kOrder, kReached>>

kT == kTask.task
Initial == InitialState(kT)

\* edges is a function from pairs of nodes to the strength of the order;
\* first is the set of first achievers where the factory finds them itself.
greedy_necessary == 3
natural == 2
reasonable == 1
obedient_reasonable == 0
EmptyGraph == [nodes |-> {}, conj |-> FALSE, edges |-> <<>>, cost |-> <<>>, forward |-> <<>>, first |-> <<>>]

ListOf(S) == FoldSet(LAMBDA x, q : Append(q, x), <<>>, S)
Meet(S) == {x \in UNION S : \A X \in S : x \in X}

-----------------------------------------------------------------------------
(* The landmark graph.                                                     *)

conjunctive(g, n) == g.conj /\ Cardinality(n) > 1
disjunctive(g, n) == ~ g.conj /\ Cardinality(n) > 1
in_goal(g, n) == ~ disjunctive(g, n) /\ n \subseteq kT.goal
is_true_in_state(g, n, s) ==
  IF disjunctive(g, n) THEN \E f \in n : Holds(s, {f}) ELSE Holds(s, n)

Parents(g, n) == {e[1] : e \in {d \in DOMAIN g.edges : d[2] = n}}
Children(g, n) == {e[2] : e \in {d \in DOMAIN g.edges : d[1] = n}}

AchievedBy(o) == {e.fact : e \in Range(kT.ops[o].effs)}
get_operators_including_eff(f) == {o \in OpsOf(kT) : f \in AchievedBy(o)}

Without(E, D) == [e \in DOMAIN E \ D |-> E[e]]
WithEdge(E, e, t) == [d \in DOMAIN E \cup {e} |-> IF d = e THEN t ELSE E[d]]

\* A weak order gives way to a stronger one in the opposite direction and
\* replaces any other; of two orders in the same direction the stronger stays.
edge_add(g, a, b, t) ==
  LET opposite == <<b, a>> \in DOMAIN g.edges
      others == IF opposite /\ t <= reasonable THEN Without(g.edges, {<<b, a>>}) ELSE g.edges
      known == IF <<a, b>> \in DOMAIN others THEN others[<<a, b>>] ELSE t
  IN IF opposite /\ t <= reasonable /\ g.edges[<<b, a>>] > t THEN g
     ELSE [g EXCEPT !.edges = WithEdge(others, <<a, b>>, Largest({known, t}))]

landmark_add(g, n) ==
  [g EXCEPT !.nodes = g.nodes \cup {n},
            !.cost = [x \in g.nodes \cup {n} |-> IF x \in g.nodes THEN g.cost[x] ELSE 1],
            !.forward = [x \in g.nodes \cup {n} |-> IF x \in g.nodes THEN g.forward[x] ELSE {}]]

\* rm_landmark_node for all nodes but these.
Keep(g, N) ==
  [g EXCEPT !.nodes = N, !.cost = [n \in N |-> g.cost[n]], !.forward = [n \in N |-> g.forward[n]],
            !.edges = Without(g.edges, {e \in DOMAIN g.edges : {e[1], e[2]} \ N # {}})]

-----------------------------------------------------------------------------
(* Exploration of the relaxed task without some facts and operators.       *)

achieves_non_conditional(o, n) == \E e \in Range(kT.ops[o].effs) : e.cond = {} /\ e.fact \in n

\* The excluded facts n count only if an operator is excluded, too.
RECURSIVE Explored(_, _, _)
Explored(n, X, F) ==
  LET fires(e) == e.cond \subseteq F /\ (X # {} => e.fact \notin n)
      more == UNION {{e.fact : e \in {d \in Range(kT.ops[o].effs) : fires(d)}} :
                       o \in {q \in OpsOf(kT) \ X : Range(kT.ops[q].pre) \subseteq F}}
  IN IF more \subseteq F THEN F ELSE Explored(n, X, F \cup more)

compute_reachability_with_excludes(n, X) == Explored(n, X, FactsIn(Initial))

\* Facts with a level in lvl_var.
compute_predecessor_information(n) ==
  compute_reachability_with_excludes(n, {o \in OpsOf(kT) : achieves_non_conditional(o, n)})

relaxed_task_solvable(n) == kT.goal \subseteq compute_predecessor_information(n)

is_landmark_precondition(o, n) == Range(kT.ops[o].pre) \cap n # {}

is_causal_landmark(g, n) ==
  \/ in_goal(g, n)
  \/ ~ (kT.goal \subseteq compute_reachability_with_excludes({}, {o \in OpsOf(kT) : is_landmark_precondition(o, n)}))

_possibly_reaches_lm(o, F, n) ==
  /\ Range(kT.ops[o].pre) \subseteq F
  /\ \E e \in Range(kT.ops[o].effs) : e.fact \in n /\ e.cond \subseteq F

-----------------------------------------------------------------------------
(* lm_exhaust, lm_zg and lm_hm.                                            *)

GoalNodes == {{f} : f \in kT.goal}
GraphOf(N, conj) ==
  [FoldSet(LAMBDA n, g : landmark_add(g, n), EmptyGraph, N) EXCEPT !.conj = conj]

\* A fact is kept if it holds initially or the goal needs it.
ExhaustGraph ==
  GraphOf(GoalNodes \cup {{f} : f \in {x \in FactsOf(kT) : Holds(Initial, {x}) \/ ~ relaxed_task_solvable({x})}}, FALSE)

\* Labels of the facts reached: facts that hold before on every way.  An
\* operator that is not triggered in a round would not change a label.
RECURSIVE Propagated(_)
Propagated(L) ==
  LET needs(o, e) == Range(kT.ops[o].pre) \cup e.cond
      ways(f) == UNION {{UNION {L[p] : p \in needs(o, e)} :
                           e \in {d \in Range(kT.ops[o].effs) : d.fact = f /\ needs(o, d) \subseteq DOMAIN L}} :
                         o \in OpsOf(kT)}
      known(f) == IF f \in DOMAIN L THEN {L[f]} ELSE {}
      F == {f \in FactsOf(kT) : f \in DOMAIN L \/ ways(f) # {}}
      next == [f \in F |-> {f} \cup Meet(ways(f) \cup known(f))]
  IN IF next = L THEN L ELSE Propagated(next)

build_relaxed_plan_graph_with_labels == Propagated([f \in FactsIn(Initial) |-> {f}])

\* Of an unsolvable relaxed task not even the goals are landmarks.
ZhuGivanGraph ==
  LET L == build_relaxed_plan_graph_with_labels
      N == GoalNodes \cup UNION {{{l} : l \in L[f]} : f \in kT.goal}
      orders == UNION {{<<{l}, {f}>> : l \in L[f] \ {f}} : f \in kT.goal}
  IN IF kT.goal \subseteq DOMAIN L
     THEN FoldSet(LAMBDA e, g : edge_add(g, e[1], e[2], natural), GraphOf(N, FALSE), orders)
     ELSE EmptyGraph

Consistent(F) == \A f, h \in F : f[1] = h[1] => f = h
get_m_sets(m, S) == {F \in UNION {kSubset(i, S) : i \in 1 .. m} : Consistent(F)}
get_split_m_sets(m, A, B) ==
  {F \in get_m_sets(m, A \cup B) : (A = {} \/ F \cap A # {}) /\ (B = {} \/ F \cap B # {})}

get_operator_postcondition(o) ==
  AchievedBy(o) \cup {p \in Range(kT.ops[o].pre) : \A f \in AchievedBy(o) : f[1] # p[1]}

possible_noop_set(E, S) == \A f \in E, h \in S : f[1] # h[1]

\* An operator of the task P_m, and one for every set of facts that it can
\* leave as they are.
build_pm_ops(m) ==
  UNION {LET pre == Range(kT.ops[o].pre) post == get_operator_postcondition(o) IN
         {[op |-> o, pc |-> get_m_sets(m, pre), eff |-> get_m_sets(m, post)]} \cup
         {[op |-> o, pc |-> get_m_sets(m, pre) \cup get_split_m_sets(m, pre, S), eff |-> get_split_m_sets(m, post, S)] :
            S \in {X \in get_m_sets(m - 1, FactsOf(kT)) : possible_noop_set(post, X)}} : o \in OpsOf(kT)}

\* Landmarks of the sets of facts that are reached, from below the goal.
Local(p, H) == p.pc \cup UNION {H[x] : x \in p.pc}
RECURSIVE HmTable(_, _)
HmTable(P, H) ==
  LET A == {p \in P : p.pc \subseteq DOMAIN H}
      known(f) == IF f \in DOMAIN H THEN {H[f]} ELSE {}
      next == [f \in DOMAIN H \cup UNION {p.eff : p \in A} |->
                 Meet({Local(p, H) : p \in {q \in A : f \in q.eff}} \cup known(f))]
  IN IF next = H THEN H ELSE HmTable(P, next)

HmGraph(c) ==
  LET start == get_m_sets(c.m, FactsIn(Initial))
      P == build_pm_ops(c.m)
      H == HmTable(P, [f \in start |-> {}])
      landmarks(f) == IF f \in DOMAIN H THEN H[f] ELSE {}
      firsts(f) == {p \in P : p.pc \subseteq DOMAIN H /\ f \in p.eff /\ f \notin Local(p, H)}
      necessary(f) == IF f \in start THEN {} ELSE Meet({p.pc : p \in firsts(f)})
      goals == get_m_sets(c.m, kT.goal)
      N == goals \cup UNION {landmarks(f) : f \in goals}
      \* Orders that follow from others are left out, one landmark at a time.
      reduced == FoldSet(LAMBDA f, R : [R EXCEPT ![f] = (R[f] \ UNION {R[h] : h \in R[f]}) \ necessary(f)],
                         [f \in N |-> landmarks(f)], N)
      weak == UNION {{<<l, f>> : l \in reduced[f]} : f \in N}
      strong == UNION {{<<l, f>> : l \in necessary(f)} : f \in N}
  IN [GraphOf(N, TRUE) EXCEPT
        !.edges = IF c.orders THEN [e \in weak \cup strong |-> IF e \in strong THEN greedy_necessary ELSE natural]
                  ELSE <<>>,
        !.first = [n \in N |-> {p.op : p \in firsts(n)}]]

-----------------------------------------------------------------------------
(* lm_rhw: backchaining from the goals.                                    *)

\* Facts that hold whenever the operator is the first to achieve n.
get_greedy_preconditions_for_lm(n, o) ==
  LET op == kT.ops[o]
      pre == Range(op.pre)
      \* A variable with two values still has the initial one.
      two == {<<v, Initial[v]>> : v \in {f[1] : f \in {x \in AchievedBy(o) \cap n :
                /\ kT.dom[x[1]] = 2 /\ ~ Holds(Initial, {x}) /\ \A p \in pre : p[1] # x[1]}}}
      \* Conditions are intersected over all effects, also on other facts.
      conds == IF Cardinality(AchievedBy(o)) = 1 THEN Meet({e.cond : e \in Range(op.effs)}) ELSE {}
  IN pre \cup two \cup {c \in conds : \A p \in pre \cup two : p[1] # c[1]}

FirstAchievers(n, F) == {o \in UNION {get_operators_including_eff(f) : f \in n} : _possibly_reaches_lm(o, F, n)}

compute_shared_preconditions(n, F) == Meet({get_greedy_preconditions_for_lm(n, o) : o \in FirstAchievers(n, F)})

\* Sets with a fact of the same predicate from every operator and no landmark.
compute_disjunctive_preconditions(g, n, F) ==
  LET facts(o, c) == {p \in get_greedy_preconditions_for_lm(n, o) : PredicateOf(kTask.no, p) = c /\ {p} \notin g.nodes}
      A == FirstAchievers(n, F)
      classes == {PredicateOf(kTask.no, f) : f \in FactsOf(kT)} \ {"none"}
  IN {S \in {UNION {facts(o, c) : o \in A} : c \in {d \in classes : A # {} /\ \A o \in A : facts(o, d) # {}}} :
        Cardinality(S) \in 2 .. 4}

\* Mutant: operators that reach both facts are not looked for.
Mut_find_forward_orders(n, F) == {f \in FactsOf(kT) \ F : f \notin n}

find_forward_orders(n, F) ==
  {f \in FactsOf(kT) \ F :
     \A l \in n : f # l /\ get_operators_including_eff(f) \cap get_operators_including_eff(l) = {}}

\* Changes of the value of a variable.
dtg_successors(v, d) ==
  {e.fact[2] : e \in UNION {{x \in Range(kT.ops[o].effs) :
      /\ x.fact[1] = v
      /\ \A c \in Range(kT.ops[o].pre) \cup x.cond : c[1] = v => c[2] = d} : o \in OpsOf(kT)}} \ {d}

RECURSIVE ConnectedWithout(_, _, _)
ConnectedWithout(v, X, D) ==
  LET more == UNION {dtg_successors(v, d) : d \in D} \ X
  IN IF more \subseteq D THEN D ELSE ConnectedWithout(v, X, D \cup more)

domain_connectivity(f, X) ==
  Initial[f[1]] \notin X /\ f[2] \in ConnectedWithout(f[1], X, {Initial[f[1]]})

\* x holds the graph, the open landmarks and the history variable.
found_simple_lm_and_order(x, f, b, t) ==
  LET g == x.graph
      D == {n \in g.nodes : f \in n}
  IN IF {f} \in g.nodes THEN [x EXCEPT !.graph = edge_add(g, {f}, b, t)]
     ELSE IF D = {}
     THEN [x EXCEPT !.graph = edge_add(landmark_add(g, {f}), {f}, b, t), !.open = Append(x.open, {f})]
     ELSE LET d == CHOOSE n \in D : TRUE
              into == {e \in DOMAIN g.edges : e[2] = d}
              from == {e \in DOMAIN g.edges : e[1] = d}
              rest == Keep(g, g.nodes \ {d})
              \* The orders before the disjunction become orders before f.
              simple == [landmark_add(rest, {f}) EXCEPT
                           !.cost[{f}] = g.cost[d],
                           !.edges = [e \in DOMAIN rest.edges \cup {<<i[1], {f}>> : i \in into} |->
                                        IF e[2] = {f} THEN g.edges[<<e[1], d>>] ELSE g.edges[e]]]
              open == [i \in DOMAIN x.open |-> IF x.open[i] = d THEN {f} ELSE x.open[i]]
          IN [graph |-> edge_add(simple, {f}, b, t),
              open |-> IF d \in Range(x.open) THEN open ELSE Append(open, {f}),
              converted |-> x.converted \/ into # {}]

found_disj_lm_and_order(x, S, b, t) ==
  LET g == x.graph
      D == {n \in g.nodes : n \cap S # {}}
  IN IF \E f \in S : Holds(Initial, {f}) \/ {f} \in g.nodes THEN x
     ELSE IF D = {}
     THEN [x EXCEPT !.graph = edge_add(landmark_add(g, S), S, b, t), !.open = Append(x.open, S)]
     ELSE IF \E d \in D : S \subseteq d
     THEN [x EXCEPT !.graph = edge_add(g, CHOOSE d \in D : S \subseteq d, b, t)]
     ELSE x

min_cost_for_landmark(n, F) == Least({kT.ops[o].cost : o \in FirstAchievers(n, F)} \cup {INFTY})

-----------------------------------------------------------------------------
(* Options of a graph and reasonable orders.                               *)

\* Facts that every operator with effect f has as an unconditional effect on
\* another variable.
SharedEffects(f) ==
  Meet({{e.fact : e \in {d \in Range(kT.ops[o].effs) : d.cond = {} /\ d.fact[1] # f[1]}} :
          o \in get_operators_including_eff(f)})

is_mutex(f, h) == f[1] = h[1] /\ f[2] # h[2]

\* Landmark b would have to be deleted to achieve a.
interferes(a, b) ==
  \E f \in a, h \in b : is_mutex(f, h) \/ \E e \in SharedEffects(f) : e # f /\ is_mutex(e, h)

OrdersToFollow(g, obedient) ==
  {e \in DOMAIN g.edges : g.edges[e] >= natural \/ (obedient /\ g.edges[e] = reasonable)}

RECURSIVE Ancestors(_, _)
Ancestors(E, N) ==
  LET more == {e[1] : e \in {d \in E : d[2] \in N}} IN IF more \subseteq N THEN N ELSE Ancestors(E, N \cup more)

\* Landmarks to order before n: of a goal all others, else what is before the
\* landmarks that need n.
interesting_nodes(g, n, obedient) ==
  LET E == OrdersToFollow(g, obedient)
      needing == {c \in Children(g, n) : g.edges[<<n, c>>] >= greedy_necessary}
      before == {e[1] : e \in {d \in E : d[2] \in needing /\ d[1] # n /\ ~ disjunctive(g, d[1])}}
  IN IF ~ obedient /\ in_goal(g, n) THEN g.nodes ELSE Ancestors(E, before)

\* The first landmark in the order of the ids that holds initially ends it.
approximate_reasonable_orders(g, order, obedient) ==
  LET simple == SelectSeq(order, LAMBDA n : ~ disjunctive(g, n))
      ends == {i \in DOMAIN simple : is_true_in_state(g, simple[i], Initial)}
      seen == SubSeq(simple, 1, IF ends = {} THEN Len(simple) ELSE Least(ends) - 1)
      ordered(h, n) ==
        FoldSet(LAMBDA a, x : edge_add(x, a, n, IF obedient THEN obedient_reasonable ELSE reasonable), h,
                {a \in interesting_nodes(h, n, obedient) \ {n} : ~ disjunctive(h, a) /\ interferes(a, n)})
  IN FoldLeft(ordered, g, seen)

\* Addresses order the nodes: one order of them, or its reverse.
IdsOf(N) == {ListOf(N), Reverse(ListOf(N))}

Processed(g, c) ==
  Keep(g, {n \in g.nodes : /\ c.causal => is_causal_landmark(g, n)
                           /\ c.disjunctive \/ ~ disjunctive(g, n)
                           /\ c.conjunctive \/ ~ conjunctive(g, n)})

Ordered(g, c, order) ==
  IF ~ c.orders THEN [g EXCEPT !.edges = <<>>]
  ELSE IF c.reasonable
  THEN approximate_reasonable_orders(approximate_reasonable_orders(g, order, FALSE), order, TRUE)
  ELSE g

-----------------------------------------------------------------------------
(* Generation.                                                             *)

LandmarksInit(t) ==
  /\ kTask = [no |-> t, task |-> Tasks[t]] /\ kOptions \in LandmarkOptions /\ kPc = "generate"
  /\ kGraph = EmptyGraph /\ kOpen = <<>> /\ kGraphs = <<>> /\ kConverted = FALSE
  /\ kOrder = <<>> /\ kReached = <<>>

Factories == kOptions.factories \o kOptions.merged
Factory == Factories[Len(kGraphs) + 1]

Generate ==
  /\ kPc = "generate" /\ Factory.kind \in {"exhaust", "zg", "hm"}
  /\ kGraph' = CASE Factory.kind = "exhaust" -> ExhaustGraph
                 [] Factory.kind = "zg" -> ZhuGivanGraph
                 [] Factory.kind = "hm" -> HmGraph(Factory)
  /\ kPc' = "discard"
  /\ UNCHANGED <<kTask, kOptions, kOpen, kGraphs, kConverted, kOrder, kReached>>

\* lm_rhw begins with the goals, by variable.
StartBackchaining ==
  /\ kPc = "generate" /\ Factory.kind = "rhw"
  /\ kGraph' = GraphOf(GoalNodes, FALSE)
  /\ \E goals \in SetToSeqs(kT.goal) :
       /\ \A i, j \in DOMAIN goals : i < j => goals[i][1] < goals[j][1]
       /\ kOpen' = [i \in DOMAIN goals |-> {goals[i]}]
  /\ kPc' = "open"
  /\ UNCHANGED <<kTask, kOptions, kGraphs, kConverted, kOrder, kReached>>

\* One landmark of the queue; simple and disjunctive landmarks are found in
\* the order of a hash map.
Backchain ==
  /\ kPc = "open" /\ kOpen # <<>>
  /\ LET b == Head(kOpen)
         F == compute_predecessor_information(b)
         x == [graph |-> kGraph, open |-> Tail(kOpen), converted |-> kConverted]
         shared(y, f) == found_simple_lm_and_order(y, f, b, greedy_necessary)
         disjunction(y, S) == found_disj_lm_and_order(y, S, b, greedy_necessary)
         v == (CHOOSE f \in b : TRUE)[1]
         d == (CHOOSE f \in b : TRUE)[2]
         unreached == {e \in 0 .. kT.dom[v] - 1 : <<v, e>> \notin F} \ {d}
         crucial == SelectSeq([i \in 1 .. kT.dom[v] |-> i - 1],
                              LAMBDA e : e # d /\ e \notin unreached /\ ~ domain_connectivity(<<v, d>>, unreached \cup {e}))
         lookahead(y) == IF disjunctive(kGraph, b) THEN y
                         ELSE FoldLeft(LAMBDA z, e : found_simple_lm_and_order(z, <<v, e>>, b, natural), y, crucial)
     IN IF is_true_in_state(kGraph, b, Initial)
        THEN kOpen' = Tail(kOpen) /\ UNCHANGED <<kGraph, kConverted>>
        ELSE \E order \in SetToSeqs(compute_shared_preconditions(b, F)) :
             \E y \in {lookahead(FoldLeft(shared, x, order))} :
             \E classes \in SetToSeqs(compute_disjunctive_preconditions(y.graph, b, F)) :
             \E z \in {FoldLeft(disjunction, y, classes)} :
               /\ kGraph' = [z.graph EXCEPT !.forward[b] = find_forward_orders(b, F),
                                            !.cost[b] = min_cost_for_landmark(b, F)]
               /\ kOpen' = z.open /\ kConverted' = z.converted
  /\ UNCHANGED <<kTask, kOptions, kPc, kGraphs, kOrder, kReached>>

\* Facts that are only reached after a landmark, if they became landmarks.
add_lm_forward_orders ==
  /\ kPc = "open" /\ kOpen = <<>>
  /\ LET orders == UNION {{<<n, {f}>> : f \in {h \in kGraph.forward[n] : {h} \in kGraph.nodes}} : n \in kGraph.nodes}
     IN kGraph' = FoldSet(LAMBDA e, g : edge_add(g, e[1], e[2], natural), kGraph, orders)
  /\ kPc' = "discard"
  /\ UNCHANGED <<kTask, kOptions, kOpen, kGraphs, kConverted, kOrder, kReached>>

\* Simple landmarks of all graphs, then disjunctive ones without a fact that
\* is known, then the orders between nodes that exist.
MergedNodes ==
  LET simple == UNION {{n \in g.nodes : Cardinality(n) = 1} : g \in Range(kGraphs)}
  IN FoldLeft(LAMBDA N, g : FoldSet(LAMBDA n, K : IF \E x \in K : x \cap n # {} THEN K ELSE K \cup {n}, N,
                                    {n \in g.nodes : disjunctive(g, n)}), simple, kGraphs)

\* exact_same_disj_landmark_exists is content with a part of the node.
Matching(N, n) == {x \in N : n \subseteq x /\ (Cardinality(n) = 1 => x = n)}

ConjunctiveKnown == \E g \in Range(kGraphs) : \E n \in g.nodes : conjunctive(g, n)

MergeGraphs ==
  /\ kPc = "generate" /\ Factory.kind = "merged" /\ ~ ConjunctiveKnown
  /\ LET N == MergedNodes
         added(g, h) ==
           FoldSet(LAMBDA e, x : FoldSet(LAMBDA p, y : edge_add(y, p[1], p[2], h.edges[e]), x,
                                         Matching(N, e[1]) \X Matching(N, e[2])), g, DOMAIN h.edges)
     IN kGraph' = FoldLeft(added, GraphOf(N, FALSE), kGraphs)
  /\ kPc' = "discard"
  /\ UNCHANGED <<kTask, kOptions, kOpen, kGraphs, kConverted, kOrder, kReached>>

\* generate: options, ids and reasonable orders.
Discard ==
  /\ kPc = "discard"
  /\ \E g \in {Processed(kGraph, Factory)} : \E order \in IdsOf(g.nodes) :
       kOrder' = order /\ kGraph' = Ordered(g, Factory, order)
  /\ kPc' = "acyclic"
  /\ UNCHANGED <<kTask, kOptions, kOpen, kGraphs, kConverted, kReached>>

\* Edges on a cycle whose other edges are at least this strong.
OnCycle(g, strength) ==
  LET E == {e \in DOMAIN g.edges : g.edges[e] >= strength}
  IN {e \in E : e[1] # e[2] /\ e[2] \in Ancestors(E, {e[1]})}

\* remove_first_weakest_cycle_edge; which cycle is met depends on addresses.
BreakCycle ==
  /\ kPc = "acyclic"
  /\ \E e \in OnCycle(kGraph, obedient_reasonable) :
       /\ kGraph.edges[e] <= reasonable
       /\ e \in OnCycle(kGraph, kGraph.edges[e])
       /\ kGraph' = [kGraph EXCEPT !.edges = Without(kGraph.edges, {e})]
  /\ UNCHANGED <<kTask, kOptions, kPc, kOpen, kGraphs, kConverted, kOrder, kReached>>

\* A cycle without an edge to remove: the null pointer is followed.
NoWeakEdge ==
  /\ kPc = "acyclic" /\ OnCycle(kGraph, natural) # {}
  /\ kPc' = "crashed"
  /\ UNCHANGED <<kTask, kOptions, kGraph, kOpen, kGraphs, kConverted, kOrder, kReached>>

\* Where lm_hm has not found them already, achievers are computed at the end.
possible_achievers(g, n) ==
  LET all == UNION {get_operators_including_eff(f) : f \in n}
      allows(o, f) == \/ f \in AchievedBy(o)
                      \/ \A h \in get_operator_postcondition(o) \cup Range(kT.ops[o].pre) : ~ is_mutex(f, h)
  IN IF g.conj THEN {o \in all : \A f \in n : allows(o, f)} ELSE all

calc_achievers(g) ==
  [g EXCEPT !.first = IF g.conj THEN [n \in g.nodes |-> g.first[n]]
                      ELSE [n \in g.nodes |-> FirstAchievers(n, compute_predecessor_information(n))]]

Unsupported ==
  LET all == Range(Factories) IN
  /\ kOptions.admissible
  /\ \/ Last(Factories).reasonable
     \/ has_conditional_effects(kT) /\ \E f \in all : f.kind \in {"exhaust", "hm"}

FinishGraph ==
  /\ kPc = "acyclic" /\ OnCycle(kGraph, obedient_reasonable) = {}
  /\ IF Len(kGraphs) + 1 < Len(Factories)
     THEN /\ kGraphs' = Append(kGraphs, kGraph) /\ kGraph' = EmptyGraph /\ kOrder' = <<>>
          /\ kPc' = "generate" /\ UNCHANGED kReached
     ELSE /\ kGraph' = calc_achievers(kGraph)
          /\ kPc' = IF Unsupported THEN "exited" ELSE "search"
          \* set_landmarks_for_initial_state
          /\ kReached' = [s \in {Initial} |->
                            {n \in kGraph.nodes : Parents(kGraph, n) = {} /\ is_true_in_state(kGraph, n, s)}]
          /\ UNCHANGED <<kGraphs, kOrder>>
  /\ UNCHANGED <<kTask, kOptions, kOpen, kConverted>>

ConjunctiveUnsupported ==
  /\ kPc = "generate" /\ Factory.kind = "merged" /\ ConjunctiveKnown
  /\ kPc' = "exited"
  /\ UNCHANGED <<kTask, kOptions, kGraph, kOpen, kGraphs, kConverted, kOrder, kReached>>

-----------------------------------------------------------------------------
(* The search.                                                             *)

landmark_is_leaf(n, R) == Parents(kGraph, n) \subseteq R

\* In the order of the ids: what is reached decides whether the next is.
update_reached_lms(parent, s) ==
  LET intersect == s \in DOMAIN kReached
      next(R, n) == IF intersect /\ n \notin kReached[s] THEN R \ {n}
                    ELSE IF is_true_in_state(kGraph, n, s) /\ landmark_is_leaf(n, R) THEN R \cup {n}
                    ELSE R
  IN FoldLeft(next, kReached[parent], kOrder)

\* notify_state_transition, of any state that is known and any operator.
Notify ==
  /\ kPc = "search"
  /\ \E parent \in DOMAIN kReached, o \in OpsOf(kT) :
       /\ is_applicable(kT.ops[o], parent)
       /\ LET s == successor(kT.ops[o], parent) IN
          /\ s # parent
          /\ kReached' = [x \in DOMAIN kReached \cup {s} |->
                            IF x = s THEN update_reached_lms(parent, s) ELSE kReached[x]]
  /\ UNCHANGED <<kTask, kOptions, kPc, kGraph, kOpen, kGraphs, kConverted, kOrder>>

LandmarksNext ==
  \/ Generate \/ StartBackchaining \/ Backchain \/ add_lm_forward_orders \/ MergeGraphs \/ ConjunctiveUnsupported
  \/ Discard \/ BreakCycle \/ NoWeakEdge \/ FinishGraph
  \/ Notify

not_reached(s) == kGraph.nodes \ kReached[s]

\* Mutant: any order makes a lost landmark needed again.
Mutcheck_lost_landmark_children_needed_again(n, s) == Children(kGraph, n) \cap not_reached(s) # {}

check_lost_landmark_children_needed_again(n, s) ==
  \E c \in Children(kGraph, n) \cap not_reached(s) : kGraph.edges[<<n, c>>] >= greedy_necessary

needed_again(s) ==
  {n \in kReached[s] : /\ ~ is_true_in_state(kGraph, n, s)
                       /\ in_goal(kGraph, n) \/ check_lost_landmark_children_needed_again(n, s)}

dead_end_found(s) ==
  \/ \E n \in not_reached(s) : kGraph.first[n] = {}
  \/ \E n \in needed_again(s) : possible_achievers(kGraph, n) = {}

get_achievers(s) ==
  [n \in not_reached(s) \cup needed_again(s) |->
     IF n \in not_reached(s) THEN kGraph.first[n] ELSE possible_achievers(kGraph, n)]

\* A fraction of a cost is a number of parts; 60 can be divided by 1 to 6.
PARTS == 60
cost_sharing_h_value(s) ==
  LET A == get_achievers(s)
      action_landmarks == IF kOptions.alm THEN {o \in OpsOf(kT) : \E n \in DOMAIN A : A[n] = {o}} ELSE {}
      relevant_lms == {n \in DOMAIN A : A[n] \cap action_landmarks = {}}
      achieved_lms_by_op(o) == Cardinality({n \in relevant_lms : o \in A[n]})
      shared(n) == Least({(PARTS * kT.ops[o].cost) \div achieved_lms_by_op(o) : o \in A[n]})
  IN FoldSet(LAMBDA o, h : h + PARTS * kT.ops[o].cost, 0, action_landmarks)
       + FoldSet(LAMBDA n, h : h + shared(n), 0, relevant_lms)

\* Rounded up, but for a hundredth.
Rounded(h) == (100 * h - PARTS + 100 * PARTS - 1) \div (100 * PARTS)

SumOfCosts(N) == FoldSet(LAMBDA n, c : c + kGraph.cost[n], 0, N)

LandmarkEstimate(s) ==
  IF is_goal_state(kT, s) THEN 0
  ELSE IF dead_end_found(s) THEN INFTY
  ELSE IF kOptions.admissible THEN Rounded(cost_sharing_h_value(s))
  ELSE SumOfCosts(not_reached(s)) + SumOfCosts(needed_again(s))

-----------------------------------------------------------------------------
(* Properties.                                                             *)

\* References: the states before n holds for the first time, and the steps
\* that make it hold.
RECURSIVE StatesAvoiding(_, _)
StatesAvoiding(n, S) ==
  LET more == {x[2] : x \in {y \in Transitions[kTask.no] : y[1] \in S /\ ~ is_true_in_state(kGraph, n, y[2])}}
  IN IF more \subseteq S THEN S ELSE StatesAvoiding(n, S \cup more)
Before(n) == StatesAvoiding(n, {Initial} \ {s \in {Initial} : is_true_in_state(kGraph, n, s)})
FirstSteps(n, B) == {x \in Transitions[kTask.no] : x[1] \in B /\ is_true_in_state(kGraph, n, x[2])}

\* Every plan makes every landmark true, in the orders of the graph: a
\* natural predecessor was true before, a greedy necessary one is true in the
\* state before.  Every operator that can be the first to achieve a landmark
\* is among its first achievers.
GraphIsSound ==
  \A n \in kGraph.nodes : \E B \in {Before(n)} : \E first \in {FirstSteps(n, B)} :
    /\ ~ \E s \in B : is_goal_state(kT, s)
    /\ {x[4] : x \in first} \subseteq kGraph.first[n]
    /\ \A p \in Parents(kGraph, n) :
         CASE kGraph.edges[<<p, n>>] = greedy_necessary -> \A x \in first : is_true_in_state(kGraph, p, x[1])
           [] kGraph.edges[<<p, n>>] = natural ->
                LET Q == Before(p) IN ~ is_true_in_state(kGraph, n, Initial) /\ \A x \in first : x[1] \notin Q
           [] OTHER -> TRUE

\* A conditional effect is more than some factories support.
Supported ==
  has_conditional_effects(kT) => \A f \in Range(Factories) : f.kind \notin {"exhaust", "hm"}

\* What the search is given is sound, whatever factories and options there
\* are, unless a disjunctive landmark with orders before it became a simple
\* one; and breaking the cycles ends, unless the goal cannot be reached even
\* in the relaxed task.
LandmarksAreSound ==
  /\ kPc = "search" /\ DOMAIN kReached = {Initial} /\ ~ kConverted /\ Supported => GraphIsSound
  /\ kPc = "crashed" => ~ relaxed_task_solvable({})

\* On every path and in whatever order the transitions are heard of: a state
\* that is called a dead end is one, and the estimates of admissible=true are
\* at most the cost of a plan.  Reasonable orders are not sound.
LandmarkCountIsAdmissible ==
  kPc = "search" /\ ~ kConverted /\ Supported /\ (\A f \in Range(Factories) : ~ f.reasonable) =>
    \A s \in DOMAIN kReached :
      LET h == LandmarkEstimate(s) IN
      /\ h = INFTY => GoalDistance[kTask.no][s] = INFTY
      /\ kOptions.admissible => h <= GoalDistance[kTask.no][s]

\* As documented, of admissible=true.
AdmissibleAsDocumented ==
  kPc = "search" /\ kOptions.admissible =>
    \A s \in DOMAIN kReached : LandmarkEstimate(s) <= GoalDistance[kTask.no][s]
=============================================================================
