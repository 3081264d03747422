----------------------------- MODULE PlansGraph -----------------------------
(***************************************************************************)
(* The reformulation call for one plan: create_forbid_graph_and_dump_      *)
(* multiple_plans of forbid_iterative_search.cc on a PlansGraph            *)
(* (plans/plans_graph.cc) with the reordering NAIVE_ALL_DFS_NODUP, the     *)
(* default of plan.py, and the symmetries of the task.  The graph starts   *)
(* with the plan, gets the edges of its reorderings, loses what is not on  *)
(* a cheapest path, gets the symmetric edges, and its plans are dumped     *)
(* after each of these.  The loops over nodes of a hash table are taken in *)
(* any order; each round of a search is a step.  The greedy cleaning of    *)
(* the graph is left out: it is off unless an option asks for it.          *)
(***************************************************************************)
EXTENDS Integers, Sequences, FiniteSets, TLC

CONSTANTS Tasks,     \* the tasks, with their symmetries
          PlansOf,   \* PlansOf[t]: the plans of t that may be handed over
          Limits     \* values of number_of_plans

\* The edge that is symmetric to x.
Permuted(sym, x) == <<sym.state[x[1]], sym.op[x[2]]>>

(* A task is a transition system: succ is a partial function of states and *)
(* operators, a symmetry permutes states and operators.                    *)
ASSUME TaskAssumption ==
  \A t \in Tasks :
    /\ IsFiniteSet(t.states) /\ IsFiniteSet(t.ops)
    /\ t.syms \in Seq([state : [t.states -> t.states], op : [t.ops -> t.ops]])
    /\ t.init \in t.states /\ t.goal \subseteq t.states
    /\ t.cost \in [t.ops -> Nat]
    /\ DOMAIN t.succ \subseteq t.states \X t.ops
    /\ \A x \in DOMAIN t.succ : t.succ[x] \in t.states
    /\ \A i \in 1 .. Len(t.syms) :
         /\ \A s \in t.states : \E r \in t.states : t.syms[i].state[r] = s
         /\ \A r, s \in t.states : t.syms[i].state[r] = t.syms[i].state[s] => r = s
         /\ t.syms[i].state[t.init] = t.init
         /\ \A s \in t.states : s \in t.goal <=> t.syms[i].state[s] \in t.goal
         /\ \A o \in t.ops : t.cost[t.syms[i].op[o]] = t.cost[o]
         /\ \A x \in DOMAIN t.succ :
              /\ Permuted(t.syms[i], x) \in DOMAIN t.succ
              /\ t.succ[Permuted(t.syms[i], x)] = t.syms[i].state[t.succ[x]]

\* States along a sequence of operators from the initial state.
Trajectory(t, p) ==
  LET state[i \in 0 .. Len(p)] ==
        IF i = 0 THEN t.init ELSE t.succ[<<state[i - 1], p[i]>>]
  IN  state

PlanCost(t, p) ==
  LET sum[i \in 0 .. Len(p)] == IF i = 0 THEN 0 ELSE sum[i - 1] + t.cost[p[i]]
  IN  sum[Len(p)]

InRange(q) == {q[i] : i \in DOMAIN q}

\* Distances to the goal that no sequence of operators undercuts, up to a bound.
Potentials(t, bound) ==
  {h \in [t.states -> 0 .. bound] :
     /\ \A s \in t.goal : h[s] = 0
     /\ \A x \in DOMAIN t.succ : h[x[1]] <= h[t.succ[x]] + t.cost[x[2]]}

(* A plan that is handed over passes no state twice and a goal only at its *)
(* end, as those of a search that closes each state once; it is a cheapest *)
(* one, which distances to the goal show.                                  *)
ASSUME PlansAssumption ==
  \A t \in Tasks : \A p \in PlansOf[t] :
    LET state == Trajectory(t, p) IN
    /\ p \in Seq(t.ops)
    /\ \A i \in 1 .. Len(p) : <<state[i - 1], p[i]>> \in DOMAIN t.succ
    /\ \A i, j \in 0 .. Len(p) : state[i] = state[j] => i = j
    /\ \A i \in 0 .. Len(p) : state[i] \in t.goal <=> i = Len(p)
    /\ \E h \in Potentials(t, PlanCost(t, p)) : h[t.init] = PlanCost(t, p)

ASSUME LimitAssumption == Limits \subseteq Nat \ {0}

VARIABLES
  task, plan, limit,   \* the input
  pc,                  \* what is being computed
  nodes, edges,        \* the graph; an edge is a pair of a node and an operator
  origin,              \* origin_states_by_operators
  goal_distance, init_distance,   \* -1 where unknown
  open,                \* queue of Dijkstra's algorithm
  dfs_queue,           \* stack of the search for reorderings or for plans
  count_goal_states,   \* reorderings found
  wanted, after,       \* arguments of the current dump
  optimal_plans, non_optimal_plans,
  files,               \* the plans saved, in order
  gen, todo, visited,  \* loops over generators and nodes
  curr_change, change  \* the current pass, or the current round, changed the graph

input == <<task, plan, limit>>
graph == <<nodes, edges, origin>>
dump == <<wanted, after, optimal_plans, non_optimal_plans, files>>
symmetry == <<gen, todo, visited, curr_change, change>>
vars == <<input, pc, graph, goal_distance, init_distance, open, dfs_queue,
          count_goal_states, dump, symmetry>>

-----------------------------------------------------------------------------
Successor(s, o) == task.succ[<<s, o>>]

Applicable(s, o) == <<s, o>> \in DOMAIN task.succ

best_plan_cost == PlanCost(task, plan)

\* update_goal_distance and update_init_distance: -1 always wins, so that an
\* update with -1 is a reset.
Update(f, s, d) == IF f[s] = -1 \/ f[s] > d THEN [f EXCEPT ![s] = d] ELSE f

\* Mutant: the origin states are left alone.
MutOriginWithout(removed) == origin

\* remove_origin_state_by_op: the operator keeps its key.
OriginWithout(removed) ==
  [o \in DOMAIN origin |-> {s \in origin[o] : <<s, o>> \notin removed}]

\* add_edge for each of a set of pairs.
AddEdges(new) ==
  /\ nodes' = nodes \cup {e[1] : e \in new} \cup {task.succ[e] : e \in new}
  /\ edges' = edges \cup new
  /\ origin' = [o \in DOMAIN origin \cup {e[2] : e \in new} |->
                  (IF o \in DOMAIN origin THEN origin[o] ELSE {})
                  \cup {e[1] : e \in {x \in new \ edges : x[2] = o}}]

RemoveEdges(removed) ==
  /\ edges' = edges \ removed
  /\ origin' = OriginWithout(removed)

\* dump_plans(n): a search for plans in the graph, starting at the root.
StartDump(n, label) ==
  /\ pc' = "dump" /\ wanted' = n /\ after' = label
  /\ dfs_queue' = <<[path |-> <<task.init>>, ops |-> <<>>, cost |-> 0]>>
  /\ UNCHANGED <<optimal_plans, non_optimal_plans, files>>

-----------------------------------------------------------------------------
(* add_plan_no_reduce: the edges of the plan and the distances along it.   *)

AddFirstPlan ==
  /\ pc = "add plan"
  /\ LET state == Trajectory(task, plan) IN
     /\ AddEdges({<<state[i - 1], plan[i]>> : i \in 1 .. Len(plan)})
     /\ goal_distance' =
          [s \in task.states |->
             IF plan # <<>> /\ \E i \in 0 .. Len(plan) : state[i] = s
             THEN best_plan_cost - PlanCost(task, SubSeq(plan, 1,
                    CHOOSE i \in 0 .. Len(plan) : state[i] = s))
             ELSE -1]
  /\ StartDump(1, "start reorderings")
  /\ UNCHANGED <<input, init_distance, open, count_goal_states, symmetry>>

-----------------------------------------------------------------------------
(* add_plan_dfs_naive_no_duplicate_detection: all orders of the operators  *)
(* of the plan that are applicable and do not close a loop.                *)

StartReorderings ==
  /\ pc = "start reorderings"
  /\ pc' = "reorder"
  /\ dfs_queue' = <<[path |-> <<task.init>>, rest |-> plan]>>
  /\ UNCHANGED <<input, graph, goal_distance, init_distance, open,
                 count_goal_states, dump, symmetry>>

Top(q) == q[Len(q)]

Pop(q) == SubSeq(q, 1, Len(q) - 1)

Remove(q, i) == SubSeq(q, 1, i - 1) \o SubSeq(q, i + 1, Len(q))

\* Mutant: a state that is a node already is not entered again.
MutMoves(node) ==
  {i \in 1 .. Len(node.rest) :
     /\ \A j \in 1 .. i - 1 : node.rest[j] # node.rest[i]
     /\ Applicable(Top(node.path), node.rest[i])
     /\ Successor(Top(node.path), node.rest[i]) \notin nodes}

\* Positions of the remaining operators that lead to a new state; of equal
\* operators the first one.
Moves(node) ==
  {i \in 1 .. Len(node.rest) :
     /\ \A j \in 1 .. i - 1 : node.rest[j] # node.rest[i]
     /\ Applicable(Top(node.path), node.rest[i])
     /\ Successor(Top(node.path), node.rest[i]) \notin InRange(node.path)}

Reorder ==
  /\ pc = "reorder" /\ dfs_queue # <<>> /\ count_goal_states < limit
  /\ LET node == Top(dfs_queue)
         s == Top(node.path)
         moves == Moves(node)
         next(i) == Successor(s, node.rest[i])
         inner == {i \in moves : next(i) \notin task.goal}
     IN
     /\ AddEdges({<<s, node.rest[i]>> : i \in moves})
     /\ count_goal_states' = count_goal_states + Cardinality(moves \ inner)
     \* the successors, last operator first
     /\ \E order \in [1 .. Cardinality(inner) -> inner] :
          /\ InRange(order) = inner
          /\ \A j, k \in DOMAIN order : j < k => order[j] > order[k]
          /\ dfs_queue' = Pop(dfs_queue) \o
               [j \in 1 .. Cardinality(inner) |->
                  [path |-> Append(node.path, next(order[j])),
                   rest |-> Remove(node.rest, order[j])]]
  /\ UNCHANGED <<input, pc, goal_distance, init_distance, open, dump, symmetry>>

\* All orders are tried, or enough goals were reached: backwards_dijkstra
\* starts with the goal nodes and forgets all other distances.
StartBackward ==
  /\ pc = "reorder" /\ (dfs_queue = <<>> \/ count_goal_states >= limit)
  /\ pc' = "backward"
  /\ open' = {<<0, s>> : s \in nodes \cap task.goal}
  /\ goal_distance' =
       [s \in task.states |->
          IF s \notin nodes THEN goal_distance[s]
          ELSE IF s \in task.goal THEN Update(goal_distance, s, 0)[s] ELSE -1]
  /\ UNCHANGED <<input, graph, init_distance, dfs_queue, count_goal_states,
                 dump, symmetry>>

-----------------------------------------------------------------------------
(* The two runs of Dijkstra's algorithm.  Improvements are pushed again,   *)
(* entries that are out of date stay in the queue.                         *)

IsMinimal(x) == \A y \in open : x[1] <= y[1]

Improves(f, s, d) == f[s] = -1 \/ d < f[s]

\* The distances f after the improvements that were found, the best of each state.
Nearest(f, found) ==
  [s \in DOMAIN f |->
     LET v == {x[1] : x \in {y \in found : y[2] = s}} IN
     IF v = {} THEN f[s] ELSE CHOOSE m \in v : \A n \in v : m <= n]

Backward ==
  /\ pc = "backward"
  /\ \E x \in open :
       /\ IsMinimal(x)
       /\ LET into == {e \in edges : task.succ[e] = x[2]}
              d(e) == x[1] + task.cost[e[2]]
              better == {e \in into : Improves(goal_distance, e[1], d(e))}
              found == {<<d(e), e[1]>> : e \in better}
          IN
          /\ open' = (open \ {x}) \cup found
          /\ goal_distance' = Nearest(goal_distance, found)
  /\ UNCHANGED <<input, pc, graph, init_distance, dfs_queue,
                 count_goal_states, dump, symmetry>>

\* Mutant: an edge to a node without a distance is kept.
MutTight(e) ==
  goal_distance[task.succ[e]] = -1
  \/ goal_distance[e[1]] = goal_distance[task.succ[e]] + task.cost[e[2]]

\* The edge is on a cheapest path to the goal.
Tight(e) ==
  /\ goal_distance[e[1]] # -1 /\ goal_distance[task.succ[e]] # -1
  /\ goal_distance[e[1]] = goal_distance[task.succ[e]] + task.cost[e[2]]

\* remove_non_plans_naive: only edges along cheapest distances stay, and only
\* nodes with such an edge or in the goal.
RemoveNonPlans ==
  /\ pc = "backward" /\ open = {}
  /\ LET removed == {e \in edges : ~ Tight(e)} IN
     /\ RemoveEdges(removed)
     /\ nodes' = {s \in nodes : s \in task.goal
                                \/ \E e \in edges \ removed : e[1] = s}
  /\ pc' = "start forward"
  /\ UNCHANGED <<input, goal_distance, init_distance, open, dfs_queue,
                 count_goal_states, dump, symmetry>>

\* Mutant: the initial state is not pushed.
MutStartForward ==
  /\ pc = "start forward"
  /\ pc' = "forward"
  /\ open' = {}
  /\ init_distance' = [s \in task.states |-> IF s = task.init THEN 0
                         ELSE IF s \in nodes THEN -1 ELSE init_distance[s]]
  /\ UNCHANGED <<input, graph, goal_distance, dfs_queue, count_goal_states,
                 dump, symmetry>>

StartForward ==
  /\ pc = "start forward"
  /\ pc' = "forward"
  /\ open' = {<<0, task.init>>}
  /\ init_distance' = [s \in task.states |-> IF s = task.init THEN 0
                         ELSE IF s \in nodes THEN -1 ELSE init_distance[s]]
  /\ UNCHANGED <<input, graph, goal_distance, dfs_queue, count_goal_states,
                 dump, symmetry>>

Forward ==
  /\ pc = "forward"
  /\ \E x \in open :
       /\ IsMinimal(x)
       /\ LET out == {e \in edges : e[1] = x[2]}
              d(e) == x[1] + task.cost[e[2]]
              better == {e \in out : Improves(init_distance, task.succ[e], d(e))}
              found == {<<d(e), task.succ[e]>> : e \in better}
          IN
          /\ open' = (open \ {x}) \cup found
          /\ init_distance' = Nearest(init_distance, found)
  /\ UNCHANGED <<input, pc, graph, goal_distance, dfs_queue,
                 count_goal_states, dump, symmetry>>

RemoveInitUnreachable ==
  /\ pc = "forward" /\ open = {}
  /\ LET gone == {s \in nodes : init_distance[s] = -1} IN
     /\ RemoveEdges({e \in edges : e[1] \in gone})
     /\ nodes' = nodes \ gone
  /\ StartDump(limit, "start symmetries")
  /\ UNCHANGED <<input, goal_distance, init_distance, open,
                 count_goal_states, symmetry>>

-----------------------------------------------------------------------------
(* dump_plans: a depth-first search for plans without loops, the nearest   *)
(* goal first; plans of the best cost are saved when they are found.       *)

IsNew(p) == p \notin optimal_plans

DumpNode ==
  /\ pc = "dump" /\ dfs_queue # <<>> /\ wanted > Cardinality(optimal_plans)
  /\ LET node == Top(dfs_queue)
         s == Top(node.path)
         found == s \in task.goal
         best == node.cost = best_plan_cost
         out == {e \in edges : /\ e[1] = s
                               /\ task.succ[e] \notin InRange(node.path)
                               /\ goal_distance[task.succ[e]] # -1}
     IN
     /\ optimal_plans' = IF found /\ best THEN optimal_plans \cup {node.ops}
                         ELSE optimal_plans
     /\ non_optimal_plans' = IF found /\ ~ best
                             THEN non_optimal_plans \cup {node.ops}
                             ELSE non_optimal_plans
     /\ files' = IF found /\ best /\ IsNew(node.ops)
                 THEN Append(files, node.ops) ELSE files
     /\ \E order \in [1 .. Cardinality(out) -> out] :
          /\ InRange(order) = out
          /\ \A j, k \in DOMAIN order : j < k =>
               goal_distance[task.succ[order[j]]] >= goal_distance[task.succ[order[k]]]
          /\ dfs_queue' = Pop(dfs_queue) \o
               [j \in 1 .. Cardinality(out) |->
                  [path |-> Append(node.path, task.succ[order[j]]),
                   ops |-> Append(node.ops, order[j][2]),
                   cost |-> node.cost + task.cost[order[j][2]]]]
  /\ UNCHANGED <<input, pc, graph, goal_distance, init_distance, open,
                 count_goal_states, wanted, after, symmetry>>

\* The search is over; the plans of another cost are saved, at every dump.
DumpEnd ==
  /\ pc = "dump" /\ (dfs_queue = <<>> \/ wanted <= Cardinality(optimal_plans))
  /\ pc' = after
  /\ \E q \in [1 .. Cardinality(non_optimal_plans) -> non_optimal_plans] :
       InRange(q) = non_optimal_plans /\ files' = files \o q
  /\ UNCHANGED <<input, graph, goal_distance, init_distance, open, dfs_queue,
                 count_goal_states, wanted, after, optimal_plans,
                 non_optimal_plans, symmetry>>

-----------------------------------------------------------------------------
(* The symmetries, round after round until nothing changes.                *)

enough_plans_found == Cardinality(optimal_plans) >= limit

\* Mutant: the changes of the round before are still remembered.
MutStartRound ==
  /\ pc = "start symmetries"
  /\ IF task.syms = <<>> \/ enough_plans_found
     THEN /\ StartDump(limit, "done")
          /\ UNCHANGED symmetry
     ELSE /\ pc' = "symmetry"
          /\ gen' = 1 /\ change' = change
          /\ todo' = nodes /\ visited' = {} /\ curr_change' = FALSE
          /\ UNCHANGED <<dfs_queue, dump>>
  /\ UNCHANGED <<input, graph, goal_distance, init_distance, open, count_goal_states>>

StartRound ==
  /\ pc = "start symmetries"
  /\ IF task.syms = <<>> \/ enough_plans_found
     THEN /\ StartDump(limit, "done")
          /\ UNCHANGED symmetry
     ELSE /\ pc' = "symmetry"
          /\ gen' = 1 /\ change' = FALSE
          /\ todo' = nodes /\ visited' = {} /\ curr_change' = FALSE
          /\ UNCHANGED <<dfs_queue, dump>>
  /\ UNCHANGED <<input, graph, goal_distance, init_distance, open, count_goal_states>>

Preimage(sym, s) == CHOOSE r \in task.states : sym.state[r] = s

\* add_symmetry for some of the edges that leave a node.
PermuteEdges(from, out) ==
  LET sym == task.syms[gen]
      to == sym.state[from]
      new == {Permuted(sym, e) : e \in out} \ edges
      changed == {e \in out : Permuted(sym, e) \in new}
  IN
  /\ nodes' = nodes \cup {x \in {to} : out # {}} \cup {task.succ[e] : e \in new}
  /\ edges' = edges \cup new
  /\ origin' = [o \in DOMAIN origin \cup {e[2] : e \in new} |->
                  (IF o \in DOMAIN origin THEN origin[o] ELSE {})
                  \cup {e[1] : e \in {x \in new : x[2] = o}}]
  /\ goal_distance' =
       [s \in task.states |->
          IF \/ s = to /\ goal_distance[from] # -1
             \/ \E e \in changed : sym.state[task.succ[e]] = s
          THEN Update(goal_distance, s, goal_distance[Preimage(sym, s)])[s]
          ELSE goal_distance[s]]
  /\ curr_change' = (curr_change \/ new # {})
  /\ UNCHANGED <<input, pc, init_distance, open, dfs_queue,
                 count_goal_states, dump, gen, todo, change>>

\* add_symmetry at one node; the loop also meets nodes that it has inserted.
PermuteNode ==
  /\ pc = "symmetry"
  /\ \E from \in nodes \ visited :
       /\ PermuteEdges(from, {e \in edges : e[1] = from})
       /\ visited' = visited \cup {from}

\* At a node that the symmetry fixes, the loop over its edges inserts into the
\* map that it goes through, and may meet what it has inserted.  When it does
\* makes no difference: no other node has images of its edges there.
PermuteInserted ==
  /\ pc = "symmetry"
  /\ \E e \in edges :
       /\ e[1] \in visited /\ task.syms[gen].state[e[1]] = e[1]
       /\ Permuted(task.syms[gen], e) \notin edges
       /\ PermuteEdges(e[1], {e})
  /\ UNCHANGED visited

\* Mutant: the round forgets that the graph has changed.
MutEndOfPass ==
  /\ pc = "symmetry"
  /\ todo \subseteq visited \/ curr_change
  /\ change' = FALSE
  /\ IF curr_change
     THEN StartDump(limit, "next generator")
     ELSE pc' = "next generator" /\ UNCHANGED <<dfs_queue, dump>>
  /\ UNCHANGED <<input, graph, goal_distance, init_distance, open,
                 count_goal_states, gen, todo, visited, curr_change>>

\* The loop over the nodes ends.  Inserting into the hash table while it is
\* iterated may rehash it, so that nodes are skipped in a pass that changes it.
EndOfPass ==
  /\ pc = "symmetry"
  /\ todo \subseteq visited \/ curr_change
  /\ change' = (change \/ curr_change)
  /\ IF curr_change
     THEN StartDump(limit, "next generator")
     ELSE pc' = "next generator" /\ UNCHANGED <<dfs_queue, dump>>
  /\ UNCHANGED <<input, graph, goal_distance, init_distance, open,
                 count_goal_states, gen, todo, visited, curr_change>>

NextGenerator ==
  /\ pc = "next generator"
  /\ IF enough_plans_found \/ gen = Len(task.syms)
     THEN IF change THEN /\ pc' = "start symmetries"
                         /\ UNCHANGED <<dfs_queue, dump>>
          ELSE StartDump(limit, "done")
     ELSE pc' = "symmetry" /\ UNCHANGED <<dfs_queue, dump>>
  /\ gen' = IF pc' = "symmetry" THEN gen + 1 ELSE gen
  /\ todo' = nodes /\ visited' = {} /\ curr_change' = FALSE
  /\ UNCHANGED <<input, graph, goal_distance, init_distance, open,
                 count_goal_states, change>>

-----------------------------------------------------------------------------
Init ==
  /\ task \in Tasks /\ plan \in PlansOf[task] /\ limit \in Limits
  /\ pc = "add plan"
  /\ nodes = {} /\ edges = {} /\ origin = <<>>
  /\ goal_distance = [s \in task.states |-> -1]
  /\ init_distance = [s \in task.states |-> -1]
  /\ open = {} /\ dfs_queue = <<>> /\ count_goal_states = 0
  /\ wanted = 0 /\ after = "done"
  /\ optimal_plans = {} /\ non_optimal_plans = {} /\ files = <<>>
  /\ gen = 0 /\ todo = {} /\ visited = {} /\ curr_change = FALSE /\ change = FALSE

Next ==
  \/ AddFirstPlan \/ StartReorderings \/ Reorder
  \/ StartBackward \/ Backward \/ RemoveNonPlans
  \/ StartForward \/ Forward \/ RemoveInitUnreachable
  \/ DumpNode \/ DumpEnd
  \/ StartRound \/ PermuteNode \/ PermuteInserted \/ EndOfPass \/ NextGenerator

Spec == Init /\ [][Next]_vars

\* The program is sequential: it goes on as long as it has something to do.
FairSpec == Spec /\ WF_vars(Next)

-----------------------------------------------------------------------------
(* Reference definitions: plans without loops, by enumeration.             *)

Runs(t) ==
  LET extended(r) ==
        {[ops |-> Append(r.ops, o), path |-> Append(r.path, t.succ[<<Top(r.path), o>>])] :
           o \in {x \in t.ops : /\ <<Top(r.path), x>> \in DOMAIN t.succ
                                /\ t.succ[<<Top(r.path), x>>] \notin InRange(r.path)}}
      runs[n \in 0 .. Cardinality(t.states) - 1] ==
        IF n = 0 THEN {[ops |-> <<>>, path |-> <<t.init>>]}
        ELSE UNION {extended(r) : r \in runs[n - 1]}
  IN  UNION {runs[n] : n \in 0 .. Cardinality(t.states) - 1}

LoopFreePlans(t) == {r.ops : r \in {x \in Runs(t) : Top(x.path) \in t.goal}}

\* The cheapest plans that do not pass a goal before their end: what A* returns.
CheapestPlans(t) ==
  LET direct == {r \in Runs(t) : \A i \in 1 .. Len(r.path) :
                                   r.path[i] \in t.goal <=> i = Len(r.path)}
  IN  {r.ops : r \in {x \in direct : \A y \in direct :
                                       PlanCost(t, x.ops) <= PlanCost(t, y.ops)}}

FollowsGraph(p) ==
  \A i \in 1 .. Len(p) : <<Trajectory(task, p)[i - 1], p[i]>> \in edges

\* p uses operators of q, none more often than q has it.
SubBag(p, q) ==
  \A o \in task.ops :
    Cardinality({i \in DOMAIN p : p[i] = o}) <= Cardinality({i \in DOMAIN q : q[i] = o})

-----------------------------------------------------------------------------
(* Properties.                                                             *)

Labels == {"add plan", "dump", "start reorderings", "reorder", "backward",
           "start forward", "forward", "start symmetries", "symmetry",
           "next generator", "done"}

\* Every variable has a value of its type.
TypeOK ==
  /\ task \in Tasks /\ plan \in PlansOf[task] /\ limit \in Limits
  /\ pc \in Labels /\ after \in Labels /\ wanted \in Nat
  /\ nodes \subseteq task.states /\ edges \subseteq DOMAIN task.succ
  /\ DOMAIN origin \subseteq task.ops
  /\ \A o \in DOMAIN origin : origin[o] \subseteq task.states
  /\ goal_distance \in [task.states -> Nat \cup {-1}]
  /\ init_distance \in [task.states -> Nat \cup {-1}]
  /\ open \subseteq Nat \X task.states
  /\ count_goal_states \in Nat
  /\ \A i \in DOMAIN files : files[i] \in Seq(task.ops)
  /\ gen \in 0 .. Len(task.syms)
  /\ todo \subseteq task.states /\ visited \subseteq task.states
  /\ curr_change \in BOOLEAN /\ change \in BOOLEAN

\* The two indexes of the graph stay in agreement through insertion, pruning
\* and symmetries: an operator's origin states are those with an edge for it,
\* and edges only lead between nodes.  The forbidding task reads both.
IndexesAgree ==
  /\ TypeOK
  /\ \A e \in DOMAIN task.succ :
       e \in edges <=> e[2] \in DOMAIN origin /\ e[1] \in origin[e[2]]
  /\ \A e \in edges : e[1] \in nodes /\ task.succ[e] \in nodes

\* The graph has lost what is not on a cheapest path to the goal.
Pruned ==
  \/ pc \in {"start symmetries", "symmetry", "next generator", "done"}
  \/ pc = "dump" /\ after # "start reorderings"

\* Whenever the distances are used to guide a search for plans, they are those
\* of the nearest goal by edges of the graph, also for the nodes that the
\* symmetries added, and no search key best_plan_cost - distance is negative.
DistancesAreExact ==
  Pruned =>
    \A s \in nodes :
      /\ goal_distance[s] \in 0 .. best_plan_cost
      /\ s \in task.goal => goal_distance[s] = 0
      /\ \A e \in edges : e[1] = s =>
           goal_distance[s] = goal_distance[task.succ[e]] + task.cost[e[2]]

\* The plan that was handed over survives the pruning, so that the task built
\* from the graph forbids it; and whatever plan without a loop the final graph
\* forbids has been saved, when fewer plans than asked for were saved and a task
\* is written: no plan is lost to the iterations that follow.
ForbiddenIsSaved ==
  pc = "done" =>
    /\ FollowsGraph(plan)
    /\ ~ enough_plans_found => \A p \in LoopFreePlans(task) : FollowsGraph(p) => p \in InRange(files)

\* Nothing but plans of the best cost is saved, each of them once, and the
\* plan that was handed over comes first, so its file is only written again.
\* With fewer plans than asked for, all orders of the operators of the plan
\* that are plans without a loop are saved; and when the reordering search
\* stops early because it has seen enough goals, enough plans are saved, so
\* that no task is built from an unfinished graph.
FilesAreExact ==
  /\ \A i \in DOMAIN files : /\ files[i] \in LoopFreePlans(task)
                             /\ PlanCost(task, files[i]) = best_plan_cost
  /\ \A i, j \in DOMAIN files : files[i] = files[j] => i = j
  /\ files # <<>> => files[1] = plan
  /\ pc = "done" /\ count_goal_states >= limit => enough_plans_found
  /\ pc = "done" /\ ~ enough_plans_found =>
       \A p \in LoopFreePlans(task) :
         /\ SubBag(p, plan)
         /\ \A i \in 0 .. Len(p) - 1 : Trajectory(task, p)[i] \notin task.goal
         => p \in InRange(files)

\* Saved plans are closed under the symmetries unless enough are saved.
ClosedUnderSymmetry ==
  pc = "done" /\ ~ enough_plans_found =>
    \A p \in InRange(files), i \in DOMAIN task.syms :
      [j \in DOMAIN p |-> task.syms[i].op[p[j]]] \in InRange(files)

\* The call ends.
Termination == <>(pc = "done")
=============================================================================
