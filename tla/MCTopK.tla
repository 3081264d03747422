------------------------------- MODULE MCTopK -------------------------------
(* Six plans in three classes of reorderings, at three costs.               *)
EXTENDS TopK, TLC

CONSTANTS p1, p2, p3, p4, p5, p6

MCPlan == {p1, p2, p3, p4, p5, p6}
MCCost == [p \in MCPlan |-> IF p = p1 THEN 1 ELSE IF p \in {p2, p3, p4} THEN 2 ELSE 3]
MCClass == [p \in MCPlan |-> {q \in MCPlan : MCCost[q] = MCCost[p]}]

Scenario(k, keep, F, f) == 
  [number_of_plans |-> k, keep_tasks |-> keep, clean_folder |-> ~ keep, faults |-> F, folder |-> f]

\* The base directory, in which an earlier run left two plan files.
Used == 1 :> p1 @@ 2 :> p5

\* Every fault, no fault with more plans asked for than any has reorderings,
\* and the special number two with tasks kept, in a new or a used folder.
MCScenarios ==
  {Scenario(3, FALSE, {"timeout", "raise", "crash", "no_verdict"}, <<>>),
   Scenario(4, FALSE, {}, <<>>),
   Scenario(2, TRUE, {"partial_verdict"}, <<>>),
   Scenario(2, TRUE, {"crash"}, Used)}

MCManyReorderings == {Scenario(3, FALSE, {}, <<>>)}
=============================================================================
