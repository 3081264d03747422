CONSTANTS
  None = None
  State <- MCState
  Op <- MCOp
  s0 = 3
  Goal <- MCGoal
  Succ <- MCSucc
  Cost <- MCCost
  Infinity = 99
  HStar <- MCHStar
  Steps <- MCSteps
  Heuristics <- MCHeuristics
  Groups <- MCGroups
  Bounds <- MCBounds
  Shortest <- MCShortest
SPECIFICATION FairSpec
CHECK_DEADLOCK FALSE
INVARIANTS
  SolvedIsOptimal FailedIsUnsolvable ParentsLeadBack PlanIsOptimal
PROPERTIES ConsistentNeverReopens Termination
