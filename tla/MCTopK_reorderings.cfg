CONSTANTS
  p1 = p1
  p2 = p2
  p3 = p3
  p4 = p4
  p5 = p5
  p6 = p6
  Broken = Broken
  NoFile = NoFile
  Plan <- MCPlan
  Cost <- MCCost
  Class <- MCClass
  Scenarios <- MCManyReorderings
SPECIFICATION Spec
CHECK_DEADLOCK FALSE
INVARIANT NoNewTaskMeansAllFound
