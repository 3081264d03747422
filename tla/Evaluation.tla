----------------------------- MODULE Evaluation ------------------------------
(***************************************************************************)
(* What the search asks of a state: a heuristic evaluates it, and stubborn *)
(* sets prune the operators that are applied in it.  Heuristics that are   *)
(* built before the search starts do so once for a task; landmark count is *)
(* then told of the transitions.  In a behaviour one of them is at work for*)
(* one of the tasks and the others are idle.                               *)
(***************************************************************************)
EXTENDS Heuristics, MergeAndShrink, Cegar, StubbornSets, PatternDatabases, Landmarks

CONSTANT Evaluators \* for every task, those that are asked

EvaluatorsAssumption ==
  /\ DOMAIN Evaluators = DOMAIN Tasks
  /\ \A t \in DOMAIN Tasks :
       Evaluators[t] \subseteq {"hmax", "add", "lmcut", "merge_and_shrink", "cegar", "simple", "ec", "ipdb", "lmcount"}
ASSUME EvaluatorsAssumption

vars == <<relaxationVars, lmCutVars, masVars, cegarVars, stubbornVars, pdbVars, landmarkVars>>

-----------------------------------------------------------------------------
RelaxationIdle(t) ==
  /\ rTask = t /\ rState = <<>> /\ rOps = <<>> /\ rKind = "none"
  /\ rCost = <<>> /\ rBy = <<>> /\ rUnsat = <<>> /\ rOpCost = <<>>
  /\ rQueue = {} /\ rUnsolved = 0 /\ rDone = TRUE

MasIdle(t) ==
  /\ mTask = t /\ mOptions = <<>> /\ mPc = "idle"
  /\ mFactors = <<>> /\ mSize = 0 /\ mMerge = <<>>

PdbIdle(t) ==
  /\ dTask = t /\ dPc = "idle"
  /\ dPatterns = {} /\ dGenerated = {} /\ dCandidates = {}

LandmarksIdle(t) ==
  /\ kTask = <<>> /\ kOptions = <<>> /\ kPc = "idle"
  /\ kGraph = EmptyGraph /\ kOpen = <<>> /\ kGraphs = <<>> /\ kConverted = FALSE
  /\ kOrder = <<>> /\ kReached = <<>>

Init ==
  \E t \in DOMAIN Tasks : \E k \in Evaluators[t] :
    LET S == StatesOf(Tasks[t]) IN
    /\ IF k \in {"hmax", "add"} THEN \E s \in S : RelaxationInit(t, s, k) ELSE RelaxationIdle(t)
    /\ IF k = "lmcut" THEN \E s \in S : LmCutInit(t, s) ELSE LmCutIdle(t)
    /\ IF k = "merge_and_shrink" THEN MasInit(t) ELSE MasIdle(t)
    /\ IF k = "cegar" THEN CegarInit(t) ELSE CegarIdle(t)
    /\ IF k \in {"simple", "ec"} THEN \E s \in S : StubbornInit(t, s, k) ELSE StubbornIdle(t)
    /\ IF k = "ipdb" THEN PdbInit(t) ELSE PdbIdle(t)
    /\ IF k = "lmcount" THEN LandmarksInit(t) ELSE LandmarksIdle(t)

Next ==
  \/ RelaxationNext /\ UNCHANGED <<lmCutVars, masVars, cegarVars, stubbornVars, pdbVars, landmarkVars>>
  \/ LmCutNext /\ UNCHANGED <<relaxationVars, masVars, cegarVars, stubbornVars, pdbVars, landmarkVars>>
  \/ MasNext /\ UNCHANGED <<relaxationVars, lmCutVars, cegarVars, stubbornVars, pdbVars, landmarkVars>>
  \/ CegarNext /\ UNCHANGED <<relaxationVars, lmCutVars, masVars, stubbornVars, pdbVars, landmarkVars>>
  \/ StubbornNext /\ UNCHANGED <<relaxationVars, lmCutVars, masVars, cegarVars, pdbVars, landmarkVars>>
  \/ PdbNext /\ UNCHANGED <<relaxationVars, lmCutVars, masVars, cegarVars, stubbornVars, landmarkVars>>
  \/ LandmarksNext /\ UNCHANGED <<relaxationVars, lmCutVars, masVars, cegarVars, stubbornVars, pdbVars>>

Spec == Init /\ [][Next]_vars
=============================================================================
