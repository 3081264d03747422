---------------------------- MODULE PlannerCall -----------------------------
(***************************************************************************)
(* One call of the planner: the translator writes the task that the search *)
(* reads (driver/run_components.py), and forbid_iterative_search           *)
(* reformulates it.  In a behaviour one of them is at work on one of its   *)
(* tasks and the other one is idle.                                        *)
(***************************************************************************)
EXTENDS ForbidTasks, Translator

TranslatorIdle ==
  /\ tTask = 1 /\ tOptions = <<>> /\ tPc = "idle"
  /\ tPddl = <<>> /\ tProgram = <<>> /\ tModel = <<>> /\ tPopped = 0 /\ tGround = <<>>
  /\ tCandidates = <<>> /\ tSeen = {} /\ tInvariants = {}
  /\ tQueue = <<>> /\ tGroups = <<>> /\ tMutexes = <<>> /\ tEncoding = <<>> /\ tSas = <<>>

ReformulationIdle ==
  /\ kind = "multiset" /\ gens = <<>> /\ number_of_plans = -1 /\ input = <<>> /\ pc = "idle"
  /\ plans = <<>> /\ plans_sets = {} /\ frontier = <<>> /\ new_frontier = <<>> /\ generator = 1 /\ position = 1
  /\ extra = <<>> /\ cur = s0 /\ run = <<>>

CallInit ==
  \/ TranslatorInit /\ ReformulationIdle
  \/ Init /\ TranslatorIdle

CallNext ==
  \/ TranslatorNext /\ UNCHANGED vars
  \/ Next /\ UNCHANGED translatorVars

CallSpec == CallInit /\ [][CallNext]_<<vars, translatorVars>>
=============================================================================
