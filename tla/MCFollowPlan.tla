---------------------------- MODULE MCFollowPlan -----------------------------
(* A key that is taken and a door that is opened with it, in any of two     *)
(* ways; steps that undo others and some that cost nothing.                 *)
EXTENDS FollowPlan, TLC

MCOp == {"take", "drop", "open", "force", "wait"}
MCState == {"start", "key", "open", "open with key"}
MCSucc ==    <<"start", "take">> :> "key" @@ <<"key", "drop">> :> "start"
          @@ <<"key", "open">> :> "open with key" @@ <<"start", "force">> :> "open"
          @@ <<"key", "force">> :> "open with key"
          @@ <<"open with key", "drop">> :> "open" @@ <<"open", "take">> :> "open with key"
          @@ <<"start", "wait">> :> "start" @@ <<"open", "wait">> :> "start"
MCCost == "take" :> 1 @@ "drop" :> 1 @@ "open" :> 1 @@ "force" :> 2 @@ "wait" :> 0
MCGoal == {"open", "open with key"}

\* Every plan of up to MaxActions actions, as the planner saves it.
MaxActions == 6

IsPlan(p) ==
  LET run[i \in 0 .. Len(p)] ==
        IF i = 0 THEN {"start"}
        ELSE {MCSucc[<<s, p[i]>>] : s \in {r \in run[i - 1] : <<r, p[i]>> \in DOMAIN MCSucc}}
  IN run[Len(p)] \cap MCGoal # {}

MCPlanFiles ==
  {Append(p, Comment) : p \in {q \in UNION {[1 .. n -> MCOp] : n \in 0 .. MaxActions} : IsPlan(q)}}
=============================================================================
