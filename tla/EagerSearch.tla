---------------------------- MODULE EagerSearch -----------------------------
(***************************************************************************)
(* The cost-optimal planner: EagerSearch as astar() configures it (re-     *)
(* opening, no multi-path dependence, no pruning), with SearchSpace, the   *)
(* tie-breaking open list, the evaluator d of shortest=true and orbit      *)
(* space search.  cost_type is NORMAL in all calls, so that real_g is g.   *)
(* One step of the code is FetchNode and then one action per applicable    *)
(* operator, in any order.  The heuristic, the generators of the symmetry  *)
(* group, the bound and the option shortest are chosen at the start.       *)
(***************************************************************************)
EXTENDS Orbits

CONSTANTS State,       \* states of the task, numbers
          Op,          \* its operators
          s0,          \* its initial state
          Goal,        \* its goal states
          Succ,        \* partial function <<state, operator>> -> state
          Cost,        \* Cost[o]
          Infinity,    \* numeric_limits<int>::max(), above all costs of plans
          HStar,       \* cost of a cheapest plan from s, or Infinity
          Steps,       \* number of operators of a shortest such plan
          Heuristics,  \* the heuristics that the search may be given
          Groups,      \* sequences of generators that bliss may report
          Bounds,      \* values of the option bound
          Shortest,    \* values of the option shortest
          None         \* StateID::no_state, operator -1

Applicable(s) == {o \in Op : <<s, o>> \in DOMAIN Succ}

ASSUME TaskAssumption ==
  /\ State \subseteq Nat /\ s0 \in State /\ Goal \subseteq State
  /\ Cost \in [Op -> Nat] /\ Infinity \in Nat
  /\ DOMAIN Succ \subseteq State \X Op
  /\ \A x \in DOMAIN Succ : Succ[x] \in State
  /\ None \notin State /\ None \notin Op /\ None \notin Seq(Op)
  /\ Bounds \subseteq 0 .. Infinity /\ Shortest \subseteq BOOLEAN

\* HStar and Steps are what their comments say.
ASSUME PerfectAssumption ==
  /\ HStar \in [State -> 0 .. Infinity] /\ Steps \in [State -> Nat]
  /\ \A s \in Goal : HStar[s] = 0
  /\ \A s \in State : \A o \in Applicable(s) :
       HStar[Succ[<<s, o>>]] < Infinity => HStar[s] <= Cost[o] + HStar[Succ[<<s, o>>]]
  /\ \A s \in State \ Goal : HStar[s] < Infinity =>
       \E o \in Applicable(s) : /\ HStar[s] = Cost[o] + HStar[Succ[<<s, o>>]]
                                /\ Steps[Succ[<<s, o>>]] < Steps[s]

\* The heuristics are admissible: celmcut(), blind() and hmax() are.
ASSUME HeuristicAssumption ==
  \A f \in Heuristics : /\ f \in [State -> 0 .. Infinity]
                        /\ \A s \in State : f[s] <= HStar[s]

\* The costs of the operators that lead from a state to another.
CostsBetween(s, r) == {Cost[o] : o \in {q \in Applicable(s) : Succ[<<s, q>>] = r}}

\* Symmetries are permutations of the states that preserve the operators, up
\* to their names, and the goal.
IsSymmetry(p) ==
  /\ p \in [State -> State]
  /\ \A s \in State : \E r \in State : p[r] = s
  /\ \A s, r \in State : /\ p[s] = p[r] => s = r
                         /\ CostsBetween(p[s], p[r]) = CostsBetween(s, r)
  /\ \A s \in State : (p[s] \in Goal <=> s \in Goal) /\ Steps[p[s]] = Steps[s]

ASSUME SymmetryAssumption ==
  \A gs \in Groups : gs \in Seq([State -> State]) /\ \A i \in DOMAIN gs : IsSymmetry(gs[i])

VARIABLES
  h, gens, bound, shortest, \* the options
  pc,           \* where the engine stands
  result,       \* status of the search
  open_list,    \* entries [key, state]
  node_status,  \* SearchNodeInfo::status
  g,            \* SearchNodeInfo::g, -1 for a new node
  parent,       \* SearchNodeInfo::parent_state_id
  creator,      \* SearchNodeInfo::creating_operator
  d,            \* the cache of the evaluator d
  node,         \* the node being expanded
  ops,          \* its operators not yet applied
  plan          \* the plan that was set, None before

options == <<h, gens, bound, shortest>>
infos == <<node_status, g, parent, creator>>
vars == <<options, pc, result, open_list, infos, d, node, ops, plan>>

canonical(s) == get_canonical_representative(gens, State, s)
successor(s, o) == canonical(Succ[<<s, o>>])

-----------------------------------------------------------------------------
(* The open list.                                                          *)

Entry(s, gs, ds) == [key |-> <<gs + h[s], IF shortest THEN ds ELSE 0, h[s]>>, state |-> s]

\* Keys are compared as vectors.
Before(k, l) == \/ k[1] < l[1]
                \/ k[1] = l[1] /\ k[2] < l[2]
                \/ k[1] = l[1] /\ k[2] = l[2] /\ k[3] < l[3]

\* Mutant: the bucket with the largest key.
MutMinima == {e \in open_list : \A f \in open_list : ~ Before(e.key, f.key)}

Minima == {e \in open_list : \A f \in open_list : ~ Before(f.key, e.key)}

is_dead_end(s) == h[s] = Infinity

-----------------------------------------------------------------------------
(* Plan extraction.                                                        *)

\* trace_path: the operators along the parents.
TracePath(goal) ==
  LET path[s \in State] == IF creator[s] = None THEN <<>>
                           ELSE Append(path[parent[s]], creator[s])
  IN path[goal]

\* The permutation from a node to the state its parent's operator led to.
BackTo(s, r) ==
  IF s = r THEN Identity(State)
  ELSE create_permutation_from_state_to_state(gens, State, s, r)

\* reverse_permutations: from a node to the state the plan passes through.
RealState(goal) ==
  LET moved[s \in State] ==
        IF creator[s] = None THEN BackTo(s, s0)
        ELSE Then(BackTo(s, Succ[<<parent[s], creator[s]>>]), moved[parent[s]])
  IN [s \in State |-> moved[s][s]]

CheapestBetween(s, r) ==
  {o \in Applicable(s) :
     /\ Succ[<<s, o>>] = r
     /\ \A q \in Applicable(s) : Succ[<<s, q>>] = r => Cost[o] <= Cost[q]}

\* The operators found between the states of the trace; None where there is
\* none (the exit with a critical error).
TracePathWithSymmetries(goal) ==
  LET real == RealState(goal)
      between == [s \in State |-> [r \in State |->
        IF CheapestBetween(s, r) = {} THEN None ELSE CHOOSE o \in CheapestBetween(s, r) : TRUE]]
      path[s \in State] ==
        IF creator[s] = None THEN <<>>
        ELSE Append(path[parent[s]], between[real[parent[s]]][real[s]])
  IN path[goal]

trace_path(goal) ==
  IF gens = <<>> THEN TracePath(goal) ELSE TracePathWithSymmetries(goal)

-----------------------------------------------------------------------------
(* The engine.                                                             *)

Init ==
  /\ h \in Heuristics /\ gens \in Groups /\ bound \in Bounds /\ shortest \in Shortest
  /\ pc = "initialize" /\ result = "in progress"
  /\ open_list = {}
  /\ node_status = [s \in State |-> "new"]
  /\ g = [s \in State |-> -1]
  /\ parent = [s \in State |-> None] /\ creator = [s \in State |-> None]
  /\ d = [s \in State |-> Infinity]
  /\ node = s0 /\ ops = {} /\ plan = None

\* EagerSearch::initialize.
Initialize ==
  /\ pc = "initialize"
  /\ LET r == canonical(s0) IN
     /\ d' = [d EXCEPT ![r] = 0]
     /\ IF is_dead_end(r)
        THEN UNCHANGED <<open_list, node_status, g>>
        ELSE /\ node_status' = [node_status EXCEPT ![r] = "open"]
             /\ g' = [g EXCEPT ![r] = 0]
             /\ open_list' = {Entry(r, 0, 0)}
  /\ pc' = "fetch"
  /\ UNCHANGED <<options, result, parent, creator, node, ops, plan>>

\* fetch_next_node: entries of closed nodes are left from before a reopening.
SkipClosed ==
  /\ pc = "fetch"
  /\ \E e \in Minima : /\ node_status[e.state] = "closed"
                       /\ open_list' = open_list \ {e}
  /\ UNCHANGED <<options, pc, result, infos, d, node, ops, plan>>

\* The node is closed and expanded, or is a goal and ends the search.
FetchNode ==
  /\ pc = "fetch"
  /\ \E e \in Minima :
       LET s == e.state IN
       /\ node_status[s] # "closed"
       /\ open_list' = open_list \ {e}
       /\ node_status' = [node_status EXCEPT ![s] = "closed"]
       /\ node' = s
       /\ IF s \in Goal
          THEN /\ plan' = trace_path(s)
               /\ result' = "solved" /\ pc' = "step done" /\ UNCHANGED ops
          ELSE /\ ops' = Applicable(s) /\ pc' = "expand" /\ UNCHANGED <<result, plan>>
  /\ UNCHANGED <<options, g, parent, creator, d>>

\* Mutant: the status remains "in progress".
MutOpenListEmpty ==
  /\ pc = "fetch" /\ open_list = {} /\ pc' = "step done"
  /\ UNCHANGED <<options, result, open_list, infos, d, node, ops, plan>>

OpenListEmpty ==
  /\ pc = "fetch" /\ open_list = {}
  /\ result' = "failed" /\ pc' = "step done"
  /\ UNCHANGED <<options, open_list, infos, d, node, ops, plan>>

-----------------------------------------------------------------------------
(* One operator of the node being expanded.                                *)

Next_op(o) == pc = "expand" /\ o \in ops /\ ops' = ops \ {o}

\* g of the successor by way of the node.
g_over(o) == g[node] + Cost[o]

\* Mutant: the cost of the operator is added twice.
MutTightBound(o) == g_over(o) + Cost[o] < bound

WithinBound(o) == g_over(o) < bound

OverBound(o) ==
  /\ Next_op(o) /\ ~ WithinBound(o)
  /\ UNCHANGED <<options, pc, result, open_list, infos, d, node, plan>>

KnownDeadEnd(o) ==
  /\ Next_op(o) /\ WithinBound(o)
  /\ node_status[successor(node, o)] = "dead_end"
  /\ UNCHANGED <<options, pc, result, open_list, infos, d, node, plan>>

\* notify_state_transition of the evaluator d, for new states only.
d_over(o) == IF d[node] + 1 < d[successor(node, o)] THEN d[node] + 1
             ELSE d[successor(node, o)]

NewDeadEnd(o) ==
  /\ Next_op(o) /\ WithinBound(o)
  /\ LET s == successor(node, o) IN
     /\ node_status[s] = "new" /\ is_dead_end(s)
     /\ node_status' = [node_status EXCEPT ![s] = "dead_end"]
     /\ d' = [d EXCEPT ![s] = d_over(o)]
  /\ UNCHANGED <<options, pc, result, open_list, g, parent, creator, node, plan>>

\* SearchNode::open and ::reopen of the state s, by operator o.
SetNode(s, o) ==
  /\ node_status' = [node_status EXCEPT ![s] = "open"]
  /\ g' = [g EXCEPT ![s] = g_over(o)]
  /\ parent' = [parent EXCEPT ![s] = node]
  /\ creator' = [creator EXCEPT ![s] = o]

OpenNew(o) ==
  /\ Next_op(o) /\ WithinBound(o)
  /\ LET s == successor(node, o) IN
     /\ node_status[s] = "new" /\ ~ is_dead_end(s)
     /\ SetNode(s, o)
     /\ d' = [d EXCEPT ![s] = d_over(o)]
     /\ open_list' = open_list \cup {Entry(s, g_over(o), d_over(o))}
  /\ UNCHANGED <<options, pc, result, node, plan>>

\* Mutant: a path that is as cheap counts as better.
MutBetter(s, o) == node_status[s] \in {"open", "closed"} /\ g_over(o) <= g[s]

Better(s, o) == node_status[s] \in {"open", "closed"} /\ g_over(o) < g[s]

\* Mutant: closed nodes are not opened again.
MutReopen(o) ==
  /\ Next_op(o) /\ WithinBound(o)
  /\ LET s == successor(node, o) IN
     /\ Better(s, o)
     /\ IF node_status[s] = "open"
        THEN SetNode(s, o)
        ELSE /\ g' = [g EXCEPT ![s] = g_over(o)]
             /\ parent' = [parent EXCEPT ![s] = node]
             /\ creator' = [creator EXCEPT ![s] = o]
             /\ UNCHANGED node_status
     /\ open_list' = open_list \cup {Entry(s, g_over(o), d[s])}
  /\ UNCHANGED <<options, pc, result, d, node, plan>>

\* A cheaper path to an open or closed node.
Reopen(o) ==
  /\ Next_op(o) /\ WithinBound(o)
  /\ LET s == successor(node, o) IN
     /\ Better(s, o)
     /\ SetNode(s, o)
     /\ open_list' = open_list \cup {Entry(s, g_over(o), d[s])}
  /\ UNCHANGED <<options, pc, result, d, node, plan>>

NotBetter(o) ==
  /\ Next_op(o) /\ WithinBound(o)
  /\ LET s == successor(node, o) IN
     node_status[s] \in {"open", "closed"} /\ ~ Better(s, o)
  /\ UNCHANGED <<options, pc, result, open_list, infos, d, node, plan>>

Expanded ==
  /\ pc = "expand" /\ ops = {}
  /\ pc' = "step done"
  /\ UNCHANGED <<options, result, open_list, infos, d, node, ops, plan>>

\* SearchEngine::search looks at the clock after each step, whatever it did.
TimeLimit ==
  /\ pc = "step done" /\ result' = "timeout" /\ pc' = "end"
  /\ UNCHANGED <<options, open_list, infos, d, node, ops, plan>>

InTime ==
  /\ pc = "step done" /\ pc' = IF result = "in progress" THEN "fetch" ELSE "end"
  /\ UNCHANGED <<options, result, open_list, infos, d, node, ops, plan>>

Next ==
  \/ Initialize \/ SkipClosed \/ FetchNode \/ OpenListEmpty
  \/ \E o \in Op : \/ OverBound(o) \/ KnownDeadEnd(o) \/ NewDeadEnd(o)
                   \/ OpenNew(o) \/ Reopen(o) \/ NotBetter(o)
  \/ Expanded \/ TimeLimit \/ InTime

Spec == Init /\ [][Next]_vars

\* The search is sequential: it makes a step as long as it can.
FairSpec == Spec /\ WF_vars(Next)

-----------------------------------------------------------------------------
(* Properties.                                                             *)

\* Every variable has a value of its type.
TypeOK ==
  /\ h \in Heuristics /\ gens \in Groups /\ bound \in Bounds /\ shortest \in Shortest
  /\ pc \in {"initialize", "fetch", "expand", "step done", "end"}
  /\ result \in {"in progress", "solved", "failed", "timeout"}
  /\ open_list \subseteq [key : Nat \X Nat \X Nat, state : State]
  /\ node_status \in [State -> {"new", "open", "closed", "dead_end"}]
  /\ g \in [State -> Nat \cup {-1}]
  /\ parent \in [State -> State \cup {None}] /\ creator \in [State -> Op \cup {None}]
  /\ d \in [State -> Nat]
  /\ node \in State /\ ops \subseteq Op

Reached(s) == node_status[s] \in {"open", "closed"}

\* The node that ends the search has been reached at the cost of a cheapest
\* plan, although the heuristic may be inconsistent, entries of the open list
\* may be outdated and states stand for their orbits.
SolvedIsOptimal == result = "solved" => g[node] = HStar[s0]

\* The search gives up only if there is no plan below the bound.
FailedIsUnsolvable == result = "failed" => HStar[s0] >= bound

RunOf(p) ==
  LET run[i \in 0 .. Len(p)] ==
        IF i = 0 THEN s0
        ELSE IF run[i - 1] # None /\ p[i] \in Applicable(run[i - 1])
             THEN Succ[<<run[i - 1], p[i]>>] ELSE None
  IN run

CostOf(p) ==
  LET sum[i \in 0 .. Len(p)] == IF i = 0 THEN 0 ELSE sum[i - 1] + Cost[p[i]]
  IN sum[Len(p)]

\* The plan that is traced back, also through the symmetries between a node
\* and what its parent's operator leads to, is a cheapest plan of the task
\* itself.  It is kept when the time runs out in the step that found it.
PlanIsOptimal ==
  /\ result = "solved" => plan # None
  /\ plan # None => /\ RunOf(plan)[Len(plan)] \in Goal
                    /\ CostOf(plan) = HStar[s0]

ParentsHaveNoCycle ==
  \A T \in (SUBSET {s \in State : Reached(s)}) \ {{}} : \E s \in T : parent[s] \notin T

\* Following the parents ends at the initial state, so that trace_path ends,
\* also when operators cost nothing and nodes are reopened.  It is called
\* where a node is fetched.
ParentsLeadBack == pc = "fetch" => ParentsHaveNoCycle

\* An entry made outdated by a reopening is never the reason to expand a node.
PopsAreCurrent ==
  pc = "fetch" =>
    \A e \in Minima : node_status[e.state] # "closed" => e.key[1] = g[e.state] + h[e.state]

Consistent ==
  \A s \in State : \A o \in Applicable(s) : h[s] <= Cost[o] + h[successor(s, o)]

\* With a consistent heuristic no closed node is opened again (comment on
\* reopening in step()).
ConsistentNeverReopens ==
  [][\A s \in State : node_status[s] = "closed" /\ node_status'[s] # "closed" => ~ Consistent]_vars

\* shortest=true obtains a shortest one of the cheapest plans.
ShortestObtained == shortest /\ plan # None => Len(plan) = Steps[s0]

\* The search ends.
Termination == <>(pc = "end")
=============================================================================
