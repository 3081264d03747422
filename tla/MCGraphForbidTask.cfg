CONSTANTS
  a = a
  b = b
  g = g
  State <- MCState
  NumOps = 2
  s0 = a
  Goal <- MCGoal
  Succ <- MCSucc
  Graphs <- MCWellFormedGraphs
  MaxLen = 4
SPECIFICATION Spec
CHECK_DEADLOCK FALSE
INVARIANTS
  PossibleIsExact
  OneCopyApplies
PROPERTY
  AbsSpec
