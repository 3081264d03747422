CONSTANTS
  Tasks <- MCTasks
  Evaluators <- MCEvaluators
  MAX_COST_VALUE = 7
  M = 2
  MasOptions <- MCMasOptions
  CegarOptions <- MCCegarOptions
  LandmarkOptions <- MCLandmarkOptions
  PredicateOf <- MCPredicateOf
  MAX_ABSTRACT_STATES = 5
  PDB_MAX_SIZE = 12
  COLLECTION_MAX_SIZE = 40
SPECIFICATION Spec
INVARIANT
  CegarIsConsistent
CHECK_DEADLOCK FALSE
