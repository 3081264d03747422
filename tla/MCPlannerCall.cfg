CONSTANTS
  State <- MCState
  NumOps = 4
  s0 = 0
  Goal <- MCGoal
  Succ <- MCSucc
  Inputs <- MCInputs
  Groups <- MCGroups
  Kinds <- MCKinds
  Limits <- MCLimits
  MaxLen = 4
  PddlTasks <- MCPddlTasks
  TranslatorOptions <- MCOptions
SPECIFICATION CallSpec
CHECK_DEADLOCK FALSE
INVARIANTS SolutionsAreExact OneCopyApplies GroundingIsExact TranslationIsExact
