CONSTANTS
  State <- MCState
  Op <- MCOp
  s0 = "start"
  Goal <- MCGoal
  Succ <- MCSucc
  Cost <- MCCost
  PlanFiles <- MCPlanFiles
  Comment = Comment
  Words = 101
SPECIFICATION Spec
CHECK_DEADLOCK FALSE
INVARIANT RelevantIsJustified
