------------------------- MODULE MCGraphForbidTask --------------------------
(* Every well-formed graph over a task with a cycle, a self-loop, two ways  *)
(* to the goal and operators that leave the goal.                           *)
EXTENDS GraphForbidTask, TLC

CONSTANTS a, b, g

MCState == {a, b, g}
MCGoal == {g}
MCSucc ==   (<<a, 0>> :> b) @@ (<<b, 0>> :> a) @@ (<<b, 1>> :> g)
         @@ (<<a, 1>> :> g) @@ (<<g, 1>> :> b) @@ (<<g, 0>> :> g)

\* Edges of the parent's transitions.
MCEdges == {[op |-> x[2], from |-> x[1], to |-> MCSucc[x]] : x \in DOMAIN MCSucc}

\* All edge sets; the key set may keep one operator whose edges are all gone.
MCGraphs == {[edges |-> E, keys |-> K] :
               E \in SUBSET MCEdges, K \in SUBSET {0, 1}}
MCWellFormedGraphs == {h \in MCGraphs : \A e \in h.edges : e.op \in h.keys}
=============================================================================
