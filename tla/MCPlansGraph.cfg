CONSTANTS
  Tasks <- MCTasks
  PlansOf <- MCPlansOf
  Limits <- MCLimits
SPECIFICATION FairSpec
CHECK_DEADLOCK FALSE
INVARIANTS
  IndexesAgree DistancesAreExact
  ForbiddenIsSaved FilesAreExact ClosedUnderSymmetry
PROPERTY Termination
