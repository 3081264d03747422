CONSTANTS
  Tasks <- LandmarkTasks
  Evaluators <- LandmarkEvaluators
  MAX_COST_VALUE = 7
  M = 2
  MasOptions <- MCMasOptions
  CegarOptions <- MCCegarOptions
  LandmarkOptions <- Backchained
  PredicateOf <- MCPredicateOf
  MAX_ABSTRACT_STATES = 5
  PDB_MAX_SIZE = 12
  COLLECTION_MAX_SIZE = 40
SPECIFICATION Spec
INVARIANT
  AdmissibleAsDocumented
CHECK_DEADLOCK FALSE
