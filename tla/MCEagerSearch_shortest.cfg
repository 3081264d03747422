CONSTANTS
  None = None
  State <- MCShortState
  Op <- MCShortOp
  s0 = 0
  Goal <- MCShortGoal
  Succ <- MCShortSucc
  Cost <- MCShortCost
  Infinity = 99
  HStar <- MCShortHStar
  Steps <- MCShortSteps
  Heuristics <- MCShortHeuristics
  Groups <- MCNoGroups
  Bounds <- MCBounds
  Shortest <- MCOn
SPECIFICATION Spec
CHECK_DEADLOCK FALSE
INVARIANT ShortestObtained
