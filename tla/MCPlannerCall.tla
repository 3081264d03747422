--------------------------- MODULE MCPlannerCall ----------------------------
(* The small tasks of both parts.  The parent of the reformulation counts to*)
(* two: three interchangeable operators count on (and do nothing at the     *)
(* goal), a fourth one starts again at zero.                                *)
EXTENDS PlannerCall, MCTranslator

MCState == 0 .. 2
MCGoal == {2}
MCSucc == [x \in MCState \X (0 .. 3) |-> IF x[2] = 3 THEN 0 ELSE IF x[1] = 2 THEN 2 ELSE x[1] + 1]

\* Plans with and without repetition, two of them equal as multisets.
MCPlans == {<<0, 0>>, <<0, 1>>, <<1, 0>>, <<2, 0, 0>>, <<3, 1, 1>>}
MCInputs == {<<p>> : p \in MCPlans} \cup {q \in MCPlans \X MCPlans : q[1] # q[2]}

Perm(p) == [o \in 0 .. 3 |-> p[o + 1]]
MCGroups == {<<>>, <<Perm(<<1, 2, 0, 3>>)>>, <<Perm(<<1, 0, 2, 3>>), Perm(<<0, 2, 1, 3>>)>>}
MCKinds == {"plan", "multiset", "multisets"}
MCLimits == {-1, 4}
=============================================================================
