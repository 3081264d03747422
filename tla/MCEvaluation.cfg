CONSTANTS
  Tasks <- MCTasks
  Evaluators <- MCEvaluators
  MAX_COST_VALUE = 7
  M = 2
  MasOptions <- MCMasOptions
  CegarOptions <- MCCegarOptions
  LandmarkOptions <- MCLandmarkOptions
  PredicateOf <- MCPredicateOf
  MAX_ABSTRACT_STATES = 5
  PDB_MAX_SIZE = 12
  COLLECTION_MAX_SIZE = 40
SPECIFICATION Spec
INVARIANTS
  EstimatesAdmissible
  ExplorationIsExact
  CutsAreLandmarks
  FactorsAreCurrent
  MasIsAdmissible
  AbstractionIsExact
  CegarIsAdmissible
  PruningKeepsPlans
  PatternEstimatesAdmissible
  LandmarksAreSound
  LandmarkCountIsAdmissible
PROPERTY
  ReductionIsExact
CHECK_DEADLOCK FALSE
