-------------------------- MODULE GraphForbidTask ---------------------------
(***************************************************************************)
(* GraphForbidReformulatedTask (tasks/graph_forbid_reformulated_task.cc):  *)
(* a planning task whose solutions are those of its parent task that leave *)
(* a given plans graph.  The parent task is any deterministic transition   *)
(* system (it may itself be a reformulated task).  The reformulation adds  *)
(* the variable "possible" (the run is still inside the graph) and one     *)
(* variable "following" per graph node (the run is at that node), and      *)
(* replaces every operator by up to three kinds of copies:                 *)
(*    type 0  not on the graph:     parent pre,             possible := 0  *)
(*    type 1  already discarded:    possible = 0                           *)
(*    type 2  discarding the graph: possible = 1 and no node following     *)
(*                                  that has the operator, possible := 0   *)
(*    type 3  one per edge:         possible = 1 and following(from),      *)
(*                                  following(from) := 0, (to) := 1        *)
(***************************************************************************)
EXTENDS Integers, Sequences, FiniteSets

CONSTANTS State,    \* states of the parent task
          NumOps,   \* its number of operators, numbered from 0
          s0,       \* its initial state
          Goal,     \* its goal states
          Succ,     \* partial function <<state, operator>> -> state
          Graphs,   \* the plans graphs that may be forbidden
          MaxLen    \* bound on the length of the runs that are explored

Op == 0 .. NumOps - 1

Edge == [op : Op, from : State, to : State]

(* A plans graph: its edges, and the keys of origin_states_by_operators,   *)
(* which keep an operator whose last edge was removed.                     *)
Graph == [edges : SUBSET Edge, keys : SUBSET Op]

\* PlansGraph::add_edge adds real transitions of the parent only, and an
\* operator has at most one edge per node because the map is keyed by it.
WellFormed(g) ==
  /\ g \in Graph
  /\ \A e \in g.edges : /\ <<e.from, e.op>> \in DOMAIN Succ
                        /\ e.to = Succ[<<e.from, e.op>>]
                        /\ e.op \in g.keys

ASSUME TaskAssumption ==
  /\ NumOps \in Nat
  /\ s0 \in State
  /\ Goal \subseteq State
  /\ DOMAIN Succ \subseteq State \X Op
  /\ \A x \in DOMAIN Succ : Succ[x] \in State
  /\ MaxLen \in Nat

ASSUME GraphAssumption == \A g \in Graphs : WellFormed(g)

VARIABLES graph,      \* the forbidden graph
          graph_ops,  \* graph_operators_indexes
          edge_ops,   \* edge_ops
          cur,        \* values of the parent's variables
          possible,   \* the variable "possible"
          following,  \* the variables "following"
          plan,       \* history: parent operators applied so far
          trace       \* history: states in which they were applied

task == <<graph, graph_ops, edge_ops>>
vars == <<graph, graph_ops, edge_ops, cur, possible, following, plan, trace>>

-----------------------------------------------------------------------------
(* The operators of the reformulated task, by index.                       *)

Nodes == {e.from : e \in graph.edges} \cup {e.to : e \in graph.edges}

from_nodes(o) == {e.from : e \in {d \in graph.edges : d.op = o}}

on_graph(o) == o \in graph.keys

get_num_operators == NumOps + Len(graph_ops) + Len(edge_ops)

get_op_type(i) ==
  IF i < NumOps THEN IF on_graph(i) THEN 1 ELSE 0
  ELSE IF i - NumOps < Len(graph_ops) THEN 2 ELSE 3

\* C++ indexes from 0, sequences from 1.
get_edge_index(i) == edge_ops[i - NumOps - Len(graph_ops) + 1]

get_parent_op_index(i) ==
  IF i < NumOps THEN i
  ELSE IF i - NumOps < Len(graph_ops) THEN graph_ops[i - NumOps + 1]
  ELSE get_edge_index(i).op

\* Mutant: a type 2 copy that does not look at the node the run is at.
MutExtraPrecondition(i) ==
  \/ get_op_type(i) = 0
  \/ get_op_type(i) = 1 /\ possible = 0
  \/ get_op_type(i) = 2 /\ possible = 1
  \/ /\ get_op_type(i) = 3
     /\ possible = 1
     /\ following[get_edge_index(i).from] = 1

ExtraPrecondition(i) ==
  \/ get_op_type(i) = 0
  \/ get_op_type(i) = 1 /\ possible = 0
  \/ /\ get_op_type(i) = 2
     /\ possible = 1
     /\ \A n \in from_nodes(get_parent_op_index(i)) : following[n] = 0
  \/ /\ get_op_type(i) = 3
     /\ possible = 1
     /\ following[get_edge_index(i).from] = 1

Applicable(i) ==
  /\ <<cur, get_parent_op_index(i)>> \in DOMAIN Succ
  /\ ExtraPrecondition(i)

\* Mutant: the goal fact of the reformulation is forgotten.
MutGoalReached == cur \in Goal

GoalReached == cur \in Goal /\ possible = 0

-----------------------------------------------------------------------------
(* The constructor: the operators and the nodes are numbered in whatever   *)
(* order the hash tables of the graph yield.                               *)

Enumerates(q, S) ==
  /\ q \in Seq(S) /\ Len(q) = Cardinality(S)
  /\ \A x \in S : \E i \in 1 .. Len(q) : q[i] = x
  /\ \A i, j \in 1 .. Len(q) : q[i] = q[j] => i = j

Enumerations(S) == {q \in [1 .. Cardinality(S) -> S] : Enumerates(q, S)}

Init ==
  /\ graph \in Graphs
  /\ graph_ops \in Enumerations(graph.keys)
  /\ edge_ops \in Enumerations(graph.edges)
  /\ cur = s0
  /\ possible = 1
  /\ following = [n \in Nodes |-> IF n = s0 THEN 1 ELSE 0]
  /\ plan = <<>> /\ trace = <<>>

\* The parent's part of applying a copy of operator o.
ParentStep(o) ==
  /\ Len(plan) < MaxLen
  /\ cur' = Succ[<<cur, o>>]
  /\ plan' = Append(plan, o)
  /\ trace' = Append(trace, cur)
  /\ UNCHANGED task

OffGraph(i) ==
  /\ get_op_type(i) = 0 /\ Applicable(i)
  /\ possible' = 0
  /\ ParentStep(get_parent_op_index(i))
  /\ UNCHANGED following

AlreadyDiscarded(i) ==
  /\ get_op_type(i) = 1 /\ Applicable(i)
  /\ ParentStep(get_parent_op_index(i))
  /\ UNCHANGED <<possible, following>>

\* Mutant: a type 2 copy without its effect.
MutDiscard(i) ==
  /\ get_op_type(i) = 2 /\ Applicable(i)
  /\ ParentStep(get_parent_op_index(i))
  /\ UNCHANGED <<possible, following>>

Discard(i) ==
  /\ get_op_type(i) = 2 /\ Applicable(i)
  /\ possible' = 0
  /\ ParentStep(get_parent_op_index(i))
  /\ UNCHANGED following

Follow(i) ==
  /\ get_op_type(i) = 3 /\ Applicable(i)
  /\ following' = [following EXCEPT ![get_edge_index(i).from] = 0,
                                    ![get_edge_index(i).to] = 1]
  /\ ParentStep(get_parent_op_index(i))
  /\ UNCHANGED possible

Next == \E i \in 0 .. get_num_operators - 1 :
          OffGraph(i) \/ AlreadyDiscarded(i) \/ Discard(i) \/ Follow(i)

Spec == Init /\ [][Next]_vars

-----------------------------------------------------------------------------
(* Properties.                                                             *)

\* Every variable has a value of its type; the numbering covers the graph.
TypeOK ==
  /\ graph \in Graphs
  /\ Enumerates(graph_ops, graph.keys)
  /\ Enumerates(edge_ops, graph.edges)
  /\ cur \in State
  /\ possible \in {0, 1}
  /\ following \in [Nodes -> {0, 1}]
  /\ plan \in Seq(Op) /\ trace \in Seq(State) /\ Len(trace) = Len(plan)
  /\ Len(plan) <= MaxLen

FollowsGraph ==
  \A i \in 1 .. Len(plan) :
    \E e \in graph.edges : e.from = trace[i] /\ e.op = plan[i]

\* "possible" says exactly whether every step of the run so far is an edge of
\* the graph; a run that is discarded never becomes possible again and one
\* that stayed inside is never discarded, whatever the order of the steps.
PossibleIsExact == (possible = 1) <=> FollowsGraph

\* While the run is inside the graph, the "following" variables that hold are
\* those of the node it is at (none when the graph does not have that node),
\* so type 2 and type 3 copies look at the right node.
FollowingIsCurrent ==
  possible = 1 => \A n \in Nodes : (following[n] = 1) <=> (n = cur)

\* The reformulated task neither loses a run of its parent nor has it twice:
\* of the copies of an operator that the parent can apply exactly one is
\* applicable, so a plan outside the graph has exactly one counterpart.
OneCopyApplies ==
  \A o \in Op : <<cur, o>> \in DOMAIN Succ =>
    \E i \in 0 .. get_num_operators - 1 :
      /\ Applicable(i) /\ get_parent_op_index(i) = o
      /\ \A j \in 0 .. get_num_operators - 1 :
           Applicable(j) /\ get_parent_op_index(j) = o => j = i

\* The strengthening under which the invariants above are inductive.
IInv == TypeOK /\ PossibleIsExact /\ FollowingIsCurrent

\* The reformulated task implements the parent task without the plans of the
\* graph: the same runs, and as solutions those that leave the graph.
Abs == INSTANCE ForbiddenPlans
         WITH edges <- graph.edges, solved <- GoalReached
AbsSpec == Abs!Spec
=============================================================================
