CONSTANTS
  p1 = p1
  p2 = p2
  p3 = p3
  p4 = p4
  p5 = p5
  p6 = p6
  Broken = Broken
  NoFile = NoFile
  Plan <- MCPlan
  Cost <- MCCost
  Class <- MCClass
  Scenarios <- MCScenarios
SPECIFICATION FairSpec
CHECK_DEADLOCK FALSE
INVARIANTS ForbiddenIsProcessed Accounted AssertionHoldsInNewFolder CompleteAtEnd
PROPERTIES PromiseKept Termination
