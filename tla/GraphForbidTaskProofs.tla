----------------------- MODULE GraphForbidTaskProofs ------------------------
(***************************************************************************)
(* Proofs about GraphForbidTask for every parent task and every well-      *)
(* formed plans graph.  The inductive invariant is IInv: the history is a  *)
(* path of the graph exactly while "possible" holds, and then "following"  *)
(* marks the current state; the second conjunct is what makes the guards   *)
(* of the type 2 and type 3 copies complementary.                          *)
(***************************************************************************)
EXTENDS GraphForbidTask, TLAPS

USE DEF Op, Edge, Graph

\* What the index arithmetic of get_op_type and get_parent_op_index yields:
\* every index stands for an operator of the parent, of the kind its type says.
LEMMA IndexKinds ==
  ASSUME TypeOK, NEW i \in 0 .. get_num_operators - 1
  PROVE  /\ i \in Int
         /\ get_parent_op_index(i) \in Op
         /\ get_op_type(i) \in {0, 1, 2, 3}
         /\ get_op_type(i) = 0 =>
              i \in Op /\ get_parent_op_index(i) = i /\ ~ on_graph(i)
         /\ get_op_type(i) = 1 =>
              i \in Op /\ get_parent_op_index(i) = i /\ on_graph(i)
         /\ get_op_type(i) = 2 =>
              /\ i - NumOps + 1 \in 1 .. Len(graph_ops)
              /\ get_parent_op_index(i) = graph_ops[i - NumOps + 1]
              /\ on_graph(get_parent_op_index(i))
         /\ get_op_type(i) = 3 =>
              /\ i - NumOps - Len(graph_ops) + 1 \in 1 .. Len(edge_ops)
              /\ get_edge_index(i) \in graph.edges
              /\ get_parent_op_index(i) = get_edge_index(i).op
<1> USE TaskAssumption, GraphAssumption
<1>1. /\ NumOps \in Nat
      /\ graph_ops \in Seq(graph.keys) /\ edge_ops \in Seq(graph.edges)
      /\ graph.keys \subseteq Op /\ graph.edges \subseteq Edge
  BY DEF TypeOK, Enumerates, WellFormed
<1>2. Len(graph_ops) \in Nat /\ Len(edge_ops) \in Nat
  BY <1>1
<1>3. i \in Int /\ i >= 0 /\ i < NumOps + Len(graph_ops) + Len(edge_ops)
  BY <1>1, <1>2 DEF get_num_operators
<1>4. CASE i < NumOps
  BY <1>1, <1>3, <1>4 DEF get_op_type, get_parent_op_index, on_graph
<1>5. CASE ~ (i < NumOps) /\ i - NumOps < Len(graph_ops)
  <2>1. i - NumOps + 1 \in 1 .. Len(graph_ops)
    BY <1>1, <1>2, <1>3, <1>5
  <2>2. graph_ops[i - NumOps + 1] \in graph.keys
    BY <1>1, <2>1
  <2>3. QED
    BY <1>1, <1>3, <1>5, <2>1, <2>2 DEF get_op_type, get_parent_op_index, on_graph
<1>6. CASE ~ (i < NumOps) /\ ~ (i - NumOps < Len(graph_ops))
  <2>1. i - NumOps - Len(graph_ops) + 1 \in 1 .. Len(edge_ops)
    BY <1>1, <1>2, <1>3, <1>6
  <2>2. get_edge_index(i) \in graph.edges
    BY <1>1, <2>1 DEF get_edge_index
  <2>3. get_edge_index(i).op \in Op
    BY <1>1, <2>2
  <2>4. QED
    BY <1>1, <1>3, <1>6, <2>1, <2>2, <2>3 DEF get_op_type, get_parent_op_index
<1>7. QED
  BY <1>4, <1>5, <1>6

\* A run that is extended by an operator follows the graph iff it did and the
\* operator labels an edge that leaves the state it is applied in.
LEMMA FollowsAppend ==
  ASSUME TypeOK, NEW o \in Op,
         plan' = Append(plan, o), trace' = Append(trace, cur), graph' = graph
  PROVE  FollowsGraph' <=>
           FollowsGraph /\ \E e \in graph.edges : e.from = cur /\ e.op = o
<1>1. /\ plan \in Seq(Op) /\ trace \in Seq(State)
      /\ Len(trace) = Len(plan) /\ Len(plan) \in Nat /\ cur \in State
  BY DEF TypeOK
<1>2. /\ Len(plan') = Len(plan) + 1
      /\ plan'[Len(plan) + 1] = o /\ trace'[Len(plan) + 1] = cur
      /\ \A i \in 1 .. Len(plan) : plan'[i] = plan[i] /\ trace'[i] = trace[i]
  BY <1>1
<1>3. 1 .. Len(plan') = (1 .. Len(plan)) \cup {Len(plan) + 1}
  BY <1>1, <1>2
<1>4. QED
  BY <1>2, <1>3 DEF FollowsGraph

LEMMA InitIInv == Init => IInv
<1> SUFFICES ASSUME Init PROVE IInv
  OBVIOUS
<1> USE TaskAssumption, GraphAssumption DEF Init
<1>1. Enumerates(graph_ops, graph.keys) /\ Enumerates(edge_ops, graph.edges)
  BY DEF Enumerations
<1>2. following \in [Nodes -> {0, 1}]
  OBVIOUS
<1>3. plan \in Seq(Op) /\ trace \in Seq(State) /\ Len(plan) = 0 /\ Len(trace) = 0
  OBVIOUS
<1>4. TypeOK
  BY <1>1, <1>2, <1>3 DEF TypeOK
<1>5. PossibleIsExact
  BY <1>3 DEF PossibleIsExact, FollowsGraph
<1>6. FollowingIsCurrent
  BY DEF FollowingIsCurrent
<1>7. QED
  BY <1>4, <1>5, <1>6 DEF IInv

\* The history part of the type invariant, common to the four kinds of steps.
LEMMA ParentStepType ==
  ASSUME TypeOK, NEW o \in Op, <<cur, o>> \in DOMAIN Succ, ParentStep(o)
  PROVE  /\ graph' = graph /\ graph_ops' = graph_ops /\ edge_ops' = edge_ops
         /\ Nodes' = Nodes
         /\ cur' \in State
         /\ plan' \in Seq(Op) /\ trace' \in Seq(State)
         /\ Len(trace') = Len(plan') /\ Len(plan') <= MaxLen
<1>1. graph' = graph /\ graph_ops' = graph_ops /\ edge_ops' = edge_ops
  BY DEF ParentStep, task
<1>2. cur' \in State
  BY TaskAssumption DEF ParentStep
<1>3. /\ plan \in Seq(Op) /\ trace \in Seq(State) /\ cur \in State
      /\ Len(trace) = Len(plan) /\ Len(plan) \in Nat
  BY DEF TypeOK
<1>4. /\ plan' \in Seq(Op) /\ trace' \in Seq(State)
      /\ Len(plan') = Len(plan) + 1 /\ Len(trace') = Len(trace) + 1
  BY <1>3 DEF ParentStep
<1>5. Len(plan') <= MaxLen
  BY <1>3, <1>4, TaskAssumption DEF ParentStep
<1>6. QED
  BY <1>1, <1>2, <1>3, <1>4, <1>5 DEF Nodes

\* The type invariant is preserved by a step that changes possible and
\* following within their types.
LEMMA StepType ==
  ASSUME TypeOK, NEW o \in Op, <<cur, o>> \in DOMAIN Succ, ParentStep(o),
         possible' \in {0, 1}, following' \in [Nodes -> {0, 1}]
  PROVE  TypeOK'
<1>1. /\ graph' = graph /\ graph_ops' = graph_ops /\ edge_ops' = edge_ops
      /\ Nodes' = Nodes
      /\ cur' \in State
      /\ plan' \in Seq(Op) /\ trace' \in Seq(State)
      /\ Len(trace') = Len(plan') /\ Len(plan') <= MaxLen
  BY ParentStepType
<1>2. graph \in Graphs
      /\ Enumerates(graph_ops, graph.keys) /\ Enumerates(edge_ops, graph.edges)
  BY DEF TypeOK
<1>3. Enumerates(graph_ops', graph'.keys) /\ Enumerates(edge_ops', graph'.edges)
  BY <1>1, <1>2
<1>4. QED
  BY <1>1, <1>2, <1>3 DEF TypeOK

LEMMA StepIInv ==
  ASSUME IInv, Next
  PROVE  IInv'
<1> USE TaskAssumption, GraphAssumption
<1>0. TypeOK /\ PossibleIsExact /\ FollowingIsCurrent
  BY DEF IInv
<1>1. PICK i \in 0 .. get_num_operators - 1 :
        OffGraph(i) \/ AlreadyDiscarded(i) \/ Discard(i) \/ Follow(i)
  BY DEF Next
<1> DEFINE o == get_parent_op_index(i)
<1>2. o \in Op /\ <<cur, o>> \in DOMAIN Succ /\ ParentStep(o)
  BY <1>0, <1>1, IndexKinds
     DEF OffGraph, AlreadyDiscarded, Discard, Follow, Applicable
<1>3. /\ graph' = graph /\ graph_ops' = graph_ops /\ edge_ops' = edge_ops
      /\ Nodes' = Nodes
  BY <1>0, <1>2, ParentStepType
<1>4. plan' = Append(plan, o) /\ trace' = Append(trace, cur)
      /\ cur' = Succ[<<cur, o>>]
  BY <1>2 DEF ParentStep
<1>5. FollowsGraph' <=>
        FollowsGraph /\ \E e \in graph.edges : e.from = cur /\ e.op = o
  BY <1>0, <1>2, <1>3, <1>4, FollowsAppend
<1>6. /\ WellFormed(graph) /\ graph.edges \subseteq Edge
      /\ possible \in {0, 1} /\ following \in [Nodes -> {0, 1}]
  BY <1>0 DEF TypeOK, WellFormed
<1> HIDE DEF o
<1>7. CASE OffGraph(i)
  <2>1. o \notin graph.keys
    BY <1>0, <1>7, IndexKinds DEF OffGraph, on_graph, o
  <2>2. possible' = 0 /\ following' = following
    BY <1>7 DEF OffGraph
  <2>3. ~ FollowsGraph'
    BY <1>5, <1>6, <2>1 DEF WellFormed
  <2>4. TypeOK'
    BY <1>0, <1>2, <1>6, <2>2, StepType
  <2>5. QED
    BY <2>2, <2>3, <2>4 DEF IInv, PossibleIsExact, FollowingIsCurrent
<1>8. CASE AlreadyDiscarded(i)
  <2>1. possible = 0 /\ possible' = 0 /\ following' = following
    BY <1>8 DEF AlreadyDiscarded, Applicable, ExtraPrecondition
  <2>2. ~ FollowsGraph'
    BY <1>0, <1>5, <2>1 DEF PossibleIsExact
  <2>3. TypeOK'
    BY <1>0, <1>2, <1>6, <2>1, StepType
  <2>4. QED
    BY <2>1, <2>2, <2>3 DEF IInv, PossibleIsExact, FollowingIsCurrent
<1>9. CASE Discard(i)
  <2>1. /\ possible = 1 /\ possible' = 0 /\ following' = following
        /\ \A n \in from_nodes(o) : following[n] = 0
    BY <1>9 DEF Discard, Applicable, ExtraPrecondition, o
  <2>2. ~ \E e \in graph.edges : e.from = cur /\ e.op = o
    <3> SUFFICES ASSUME NEW e \in graph.edges, e.from = cur, e.op = o
                 PROVE  FALSE
      OBVIOUS
    <3>1. cur \in from_nodes(o) /\ cur \in Nodes
      BY DEF from_nodes, Nodes
    <3>2. following[cur] = 1
      BY <1>0, <2>1, <3>1 DEF FollowingIsCurrent
    <3>3. QED
      BY <2>1, <3>1, <3>2
  <2>3. ~ FollowsGraph'
    BY <1>5, <2>2
  <2>4. TypeOK'
    BY <1>0, <1>2, <1>6, <2>1, StepType
  <2>5. QED
    BY <2>1, <2>3, <2>4 DEF IInv, PossibleIsExact, FollowingIsCurrent
<1>10. CASE Follow(i)
  <2> DEFINE d == get_edge_index(i)
  <2>1. d \in graph.edges /\ o = d.op
    BY <1>0, <1>10, IndexKinds DEF Follow, o
  <2>2. /\ possible = 1 /\ possible' = possible
        /\ following[d.from] = 1
        /\ following' = [following EXCEPT ![d.from] = 0, ![d.to] = 1]
    BY <1>10 DEF Follow, Applicable, ExtraPrecondition
  <2> HIDE DEF d
  <2>3. d.from \in Nodes /\ d.to \in Nodes
    BY <2>1 DEF Nodes
  <2>4. cur = d.from
    BY <1>0, <2>2, <2>3 DEF FollowingIsCurrent
  <2>5. cur' = d.to
    BY <1>4, <1>6, <2>1, <2>4 DEF WellFormed
  <2>6. FollowsGraph'
    BY <1>0, <1>5, <2>1, <2>2, <2>4 DEF PossibleIsExact
  <2>7. following' \in [Nodes -> {0, 1}]
    BY <1>6, <2>2
  <2>8. TypeOK'
    BY <1>0, <1>2, <1>6, <2>2, <2>7, StepType
  <2>9. \A n \in Nodes : (following'[n] = 1) <=> (n = cur')
    BY <1>0, <1>6, <2>2, <2>3, <2>4, <2>5 DEF FollowingIsCurrent
  <2>10. FollowingIsCurrent'
    BY <1>3, <2>9 DEF FollowingIsCurrent
  <2>11. QED
    BY <2>2, <2>6, <2>8, <2>10 DEF IInv, PossibleIsExact
<1>11. QED
  BY <1>1, <1>7, <1>8, <1>9, <1>10

LEMMA StutterIInv ==
  ASSUME IInv, UNCHANGED vars
  PROVE  IInv'
BY DEF IInv, TypeOK, PossibleIsExact, FollowingIsCurrent, FollowsGraph, vars, Nodes, Enumerates

\* Every reachable state satisfies the inductive invariant.
THEOREM Invariance == Spec => []IInv
<1>1. Init => IInv
  BY InitIInv
<1>2. IInv /\ [Next]_vars => IInv'
  BY StepIInv, StutterIInv
<1>3. QED
  BY <1>1, <1>2, PTL DEF Spec

\* Type correctness of the reformulated task.
THEOREM TypeCorrect == Spec => []TypeOK
BY Invariance, PTL DEF IInv

\* "possible" is exact: for every task and graph it holds in a reachable state
\* iff the run so far is a path of the graph.
THEOREM PossibleCorrect == Spec => []PossibleIsExact
BY Invariance, PTL DEF IInv

\* While a run stays in the graph the variable of the node it is at is the only
\* one that is set, for every task and graph and however often it comes back.
THEOREM FollowingCorrect == Spec => []FollowingIsCurrent
BY Invariance, PTL DEF IInv

\* The edge at the current state that is labelled with an operator, if any, is
\* the only one: edges are keyed by operator.
LEMMA EdgeIsUnique ==
  ASSUME TypeOK, NEW d \in graph.edges, NEW e \in graph.edges,
         d.from = e.from, d.op = e.op
  PROVE  d = e
<1>1. WellFormed(graph) /\ d \in Edge /\ e \in Edge
  BY GraphAssumption DEF TypeOK, WellFormed
<1>2. d.to = e.to
  BY <1>1 DEF WellFormed
<1>3. QED
  BY <1>1, <1>2

\* The copy of an operator that is applicable, as a function of the state.
LEMMA CopyExists ==
  ASSUME IInv, NEW o \in Op, <<cur, o>> \in DOMAIN Succ
  PROVE  \E i \in 0 .. get_num_operators - 1 :
           Applicable(i) /\ get_parent_op_index(i) = o
<1> USE TaskAssumption, GraphAssumption
<1>1. /\ TypeOK /\ FollowingIsCurrent /\ WellFormed(graph)
      /\ possible \in {0, 1} /\ following \in [Nodes -> {0, 1}]
      /\ Enumerates(graph_ops, graph.keys) /\ Enumerates(edge_ops, graph.edges)
  BY DEF IInv, TypeOK
<1>2. /\ NumOps \in Nat /\ Len(graph_ops) \in Nat /\ Len(edge_ops) \in Nat
  BY <1>1 DEF Enumerates
<1>3. CASE o \notin graph.keys \/ possible = 0
  <2>1. o \in 0 .. get_num_operators - 1 /\ o < NumOps
    BY <1>2 DEF get_num_operators
  <2>2. get_parent_op_index(o) = o
    BY <2>1 DEF get_parent_op_index
  <2>3. ExtraPrecondition(o)
    BY <1>3, <2>1 DEF ExtraPrecondition, get_op_type, on_graph
  <2>4. QED
    BY <2>1, <2>2, <2>3 DEF Applicable
<1>4. CASE /\ possible = 1
           /\ \E e \in graph.edges : e.from = cur /\ e.op = o
  <2>1. PICK e \in graph.edges : e.from = cur /\ e.op = o
    BY <1>4
  <2>2. PICK k \in 1 .. Len(edge_ops) : edge_ops[k] = e
    BY <1>1 DEF Enumerates
  <2> DEFINE i == NumOps + Len(graph_ops) + k - 1
  <2>3. /\ i \in 0 .. get_num_operators - 1
        /\ ~ (i < NumOps) /\ ~ (i - NumOps < Len(graph_ops))
        /\ i - NumOps - Len(graph_ops) + 1 = k
    <3>1. k \in Int /\ 1 <= k /\ k <= Len(edge_ops)
      BY <1>2
    <3>2. i >= NumOps + Len(graph_ops)
          /\ i <= NumOps + Len(graph_ops) + Len(edge_ops) - 1
      BY <1>2, <3>1
    <3>3. QED
      BY <1>2, <3>1, <3>2 DEF get_num_operators
  <2>4. get_edge_index(i) = e
    BY <2>2, <2>3 DEF get_edge_index
  <2> HIDE DEF i
  <2>5. get_parent_op_index(i) = o /\ get_op_type(i) = 3
    BY <2>1, <2>3, <2>4 DEF get_parent_op_index, get_op_type
  <2>6. following[e.from] = 1
    BY <1>1, <1>4, <2>1 DEF FollowingIsCurrent, Nodes
  <2>7. ExtraPrecondition(i)
    BY <1>4, <2>4, <2>5, <2>6 DEF ExtraPrecondition
  <2>8. QED
    BY <2>3, <2>5, <2>7 DEF Applicable
<1>5. CASE /\ possible = 1 /\ o \in graph.keys
           /\ ~ \E e \in graph.edges : e.from = cur /\ e.op = o
  <2>1. PICK k \in 1 .. Len(graph_ops) : graph_ops[k] = o
    BY <1>1, <1>5 DEF Enumerates
  <2> DEFINE i == NumOps + k - 1
  <2>2. /\ i \in 0 .. get_num_operators - 1
        /\ ~ (i < NumOps) /\ i - NumOps < Len(graph_ops)
        /\ i - NumOps + 1 = k
    BY <1>2 DEF get_num_operators
  <2> HIDE DEF i
  <2>3. get_parent_op_index(i) = o /\ get_op_type(i) = 2
    BY <2>1, <2>2 DEF get_parent_op_index, get_op_type
  <2>4. \A n \in from_nodes(o) : n \in Nodes /\ n # cur
    BY <1>5 DEF from_nodes, Nodes
  <2>5. \A n \in from_nodes(o) : following[n] = 0
    BY <1>1, <1>5, <2>4 DEF FollowingIsCurrent
  <2>6. ExtraPrecondition(i)
    BY <1>5, <2>3, <2>5 DEF ExtraPrecondition
  <2>7. QED
    BY <2>2, <2>3, <2>6 DEF Applicable
<1>6. QED
  BY <1>1, <1>3, <1>4, <1>5

LEMMA CopyUnique ==
  ASSUME IInv, NEW i \in 0 .. get_num_operators - 1,
         NEW j \in 0 .. get_num_operators - 1,
         Applicable(i), Applicable(j),
         get_parent_op_index(i) = get_parent_op_index(j)
  PROVE  i = j
<1> DEFINE o == get_parent_op_index(i)
<1>1. /\ TypeOK /\ FollowingIsCurrent
      /\ possible \in {0, 1} /\ following \in [Nodes -> {0, 1}]
      /\ Enumerates(graph_ops, graph.keys) /\ Enumerates(edge_ops, graph.edges)
  BY DEF IInv, TypeOK
<1>2. NumOps \in Nat /\ Len(graph_ops) \in Nat /\ Len(edge_ops) \in Nat
  BY <1>1, TaskAssumption DEF Enumerates
<1>3. \A x \in {i, j} :
        /\ get_op_type(x) \in {0, 1, 2, 3}
        /\ get_op_type(x) = 0 => ~ on_graph(o)
        /\ get_op_type(x) \in {1, 2} => on_graph(o)
        /\ get_op_type(x) = 3 => on_graph(o)
  <2>1. \A e \in graph.edges : e.op \in graph.keys
    BY <1>1, GraphAssumption DEF TypeOK, WellFormed
  <2>2. QED
    BY <1>1, <2>1, IndexKinds DEF on_graph
\* A type 2 copy and a type 3 copy exclude each other.
<1>4. ASSUME NEW x \in {i, j}, NEW y \in {i, j},
             get_op_type(x) = 2, get_op_type(y) = 3
      PROVE  FALSE
  <2>1. get_edge_index(y) \in graph.edges /\ get_edge_index(y).op = o
    BY <1>1, <1>4, IndexKinds
  <2>2. get_edge_index(y).from \in from_nodes(o)
    BY <2>1 DEF from_nodes
  <2>3. following[get_edge_index(y).from] = 1
    BY <1>4 DEF Applicable, ExtraPrecondition
  <2>4. \A n \in from_nodes(o) : following[n] = 0
    BY <1>4 DEF Applicable, ExtraPrecondition
  <2>5. QED
    BY <2>2, <2>3, <2>4
<1>5. get_op_type(i) = get_op_type(j)
  <2>1. \A x \in {i, j} : get_op_type(x) = 1 => possible = 0
    BY DEF Applicable, ExtraPrecondition
  <2>2. \A x \in {i, j} : get_op_type(x) \in {2, 3} => possible = 1
    BY DEF Applicable, ExtraPrecondition
  <2>3. QED
    BY <1>3, <1>4, <2>1, <2>2
<1>6. CASE get_op_type(i) \in {0, 1}
  BY <1>1, <1>5, <1>6, IndexKinds
<1>7. CASE get_op_type(i) = 2
  <2>1. /\ i - NumOps + 1 \in 1 .. Len(graph_ops)
        /\ j - NumOps + 1 \in 1 .. Len(graph_ops)
        /\ graph_ops[i - NumOps + 1] = graph_ops[j - NumOps + 1]
    <3>1. get_op_type(i) = 2 /\ get_op_type(j) = 2
      BY <1>5, <1>7
    <3>2. /\ i - NumOps + 1 \in 1 .. Len(graph_ops)
          /\ get_parent_op_index(i) = graph_ops[i - NumOps + 1]
      BY <1>1, <3>1, IndexKinds
    <3>3. /\ j - NumOps + 1 \in 1 .. Len(graph_ops)
          /\ get_parent_op_index(j) = graph_ops[j - NumOps + 1]
      BY <1>1, <3>1, IndexKinds
    <3>4. QED
      BY <3>2, <3>3
  <2>2. i - NumOps + 1 = j - NumOps + 1
    BY <1>1, <2>1 DEF Enumerates
  <2>3. QED
    BY <1>2, <2>2
<1>8. CASE get_op_type(i) = 3
  <2>1. /\ i - NumOps - Len(graph_ops) + 1 \in 1 .. Len(edge_ops)
        /\ j - NumOps - Len(graph_ops) + 1 \in 1 .. Len(edge_ops)
        /\ get_edge_index(i) \in graph.edges /\ get_edge_index(j) \in graph.edges
        /\ get_edge_index(i).op = get_edge_index(j).op
    BY <1>1, <1>5, <1>8, IndexKinds
  <2>2. get_edge_index(i).from \in Nodes /\ get_edge_index(j).from \in Nodes
    BY <2>1 DEF Nodes
  <2>3. get_edge_index(i).from = cur /\ get_edge_index(j).from = cur
    BY <1>1, <1>5, <1>8, <2>2 DEF FollowingIsCurrent, Applicable, ExtraPrecondition
  <2>4. get_edge_index(i) = get_edge_index(j)
    BY <1>1, <2>1, <2>3, EdgeIsUnique
  <2>5. i - NumOps - Len(graph_ops) + 1 = j - NumOps - Len(graph_ops) + 1
    BY <1>1, <2>1, <2>4 DEF Enumerates, get_edge_index
  <2>6. QED
    BY <1>2, <2>5
<1>9. QED
  BY <1>3, <1>6, <1>7, <1>8

\* No run of the parent is lost and none is doubled: in every reachable state
\* exactly one copy of each applicable parent operator is applicable.
THEOREM CopiesCorrect == Spec => []OneCopyApplies
<1>1. IInv => OneCopyApplies
  BY CopyExists, CopyUnique DEF OneCopyApplies
<1>2. QED
  BY <1>1, Invariance, PTL

\* The reformulated task implements the parent task without the plans of the
\* graph: every step is a step of the parent, and the goal of the reformulated
\* task holds exactly in the runs that reach a parent goal off the graph.
THEOREM Refinement == Spec => AbsSpec
<1>1. Init => Abs!Init
  BY DEF Init, Abs!Init, Abs!Solution, Abs!Follows, GoalReached
<1>2. ASSUME IInv, IInv', Next
      PROVE  Abs!Next
  <2>0. TypeOK
    BY <1>2 DEF IInv
  <2>1. PICK i \in 0 .. get_num_operators - 1 :
          OffGraph(i) \/ AlreadyDiscarded(i) \/ Discard(i) \/ Follow(i)
    BY <1>2 DEF Next
  <2>2. /\ get_parent_op_index(i) \in Op
        /\ <<cur, get_parent_op_index(i)>> \in DOMAIN Succ
        /\ ParentStep(get_parent_op_index(i))
    BY <2>0, <2>1, IndexKinds
       DEF OffGraph, AlreadyDiscarded, Discard, Follow, Applicable
  <2>3. graph' = graph
    BY <2>2 DEF ParentStep, task
  <2>4. GoalReached' = Abs!Solution(graph.edges, cur', plan', trace')
    BY <1>2, <2>3 DEF IInv, TypeOK, PossibleIsExact, FollowsGraph, GoalReached,
                      Abs!Solution, Abs!Follows
  <2>5. Abs!Apply(get_parent_op_index(i))
    BY <2>2, <2>3, <2>4 DEF Abs!Apply, ParentStep
  <2>6. QED
    BY <2>2, <2>5 DEF Abs!Next
<1>3. UNCHANGED vars => UNCHANGED Abs!vars
  BY DEF vars, Abs!vars, GoalReached
<1>4. QED
  BY <1>1, <1>2, <1>3, Invariance, PTL DEF Spec, AbsSpec, Abs!Spec
=============================================================================
