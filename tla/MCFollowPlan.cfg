CONSTANTS
  State <- MCState
  Op <- MCOp
  s0 = "start"
  Goal <- MCGoal
  Succ <- MCSucc
  Cost <- MCCost
  PlanFiles <- MCPlanFiles
  Comment = Comment
  Words = 7
SPECIFICATION Spec
CHECK_DEADLOCK FALSE
INVARIANTS RunsArePartsOfPlan EveryLineCanFollow VerdictIsRight
