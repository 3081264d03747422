-------------------------------- MODULE TopK --------------------------------
(***************************************************************************)
(* find_plans of plan.py with the planner object of --planner topk, the    *)
(* PlanManager, the TaskManager and the files they share with the planner  *)
(* processes they start.  Python is sequential, so a step is the stretch   *)
(* from one external call to the next; the interleaving is between these   *)
(* steps and the outcomes of the calls: success, a planner that dies and   *)
(* leaves no plan, part of a plan or part of a task (fast-downward.py      *)
(* returns 0 all the same, driver/main.py has the exit commented out), a   *)
(* timeout, an exception.                                                  *)
(*                                                                         *)
(* A task is abstracted to the set of plans it forbids.  The A* call finds *)
(* a cheapest plan that is not forbidden; the reformulation call dumps the *)
(* plans of the graph it builds from the last plan (reorderings and        *)
(* symmetric plans, all of the same cost) and forbids them, or writes no   *)
(* task when it has dumped as many as it was asked for.  GraphForbidTask   *)
(* is the module about how plans are forbidden.                            *)
(***************************************************************************)
EXTENDS Integers, Sequences, FiniteSets

CONSTANTS Plan,        \* plans of the task
          Cost,        \* Cost[p]
          Class,       \* Class[p]: the plans in the graph built from p
          Scenarios,   \* records of the options, the faults that may happen
                       \* and what the run finds in its folder
          Broken,      \* a file that was not written to its end
          NoFile       \* a file that does not exist

ASSUME ConstantAssumption ==
  /\ \A p \in Plan : /\ Cost[p] \in Nat
                     /\ p \in Class[p] /\ Class[p] \subseteq Plan
                     /\ \A q \in Class[p] : Cost[q] = Cost[p]
                     /\ IsFiniteSet(Class[p])
  /\ \A sc \in Scenarios :
       /\ sc.number_of_plans \in Nat \ {0} /\ sc.keep_tasks \in BOOLEAN
       /\ sc.clean_folder \in BOOLEAN /\ ~ (sc.keep_tasks /\ sc.clean_folder) \* plan.py
       /\ sc.faults \subseteq {"timeout", "raise", "crash", "no_verdict", "partial_verdict"}
       /\ sc.folder \in Seq(Plan \cup {Broken})
       /\ \A i \in 1 .. Len(sc.folder) - 1 : sc.folder[i] # Broken
  /\ Broken # NoFile /\ {Broken, NoFile} \cap Plan = {}
  /\ \A F \in SUBSET Plan : F # Broken /\ F # NoFile

VARIABLES
  number_of_plans, \* --number-of-plans
  keep_tasks,   \* --keep-intermediate-tasks
  clean_folder, \* --use-local-folder and --clean-local-folder
  faults,       \* the faults of this run
  new_folder,   \* it starts without plan files of an earlier run
  relevant,     \* the plans that the relevance check accepts
  pc,           \* the call find_plans makes next, or where it stands
  first,        \* in the first iteration, before the while loop
  plan_costs,   \* PlanManager._plan_costs
  at,           \* loop counter of process_new_plans
  so_far,       \* num_plans_so_far of process_new_plans
  incomplete,   \* had_incomplete_plan of process_new_plans
  local,        \* sas_plan.<i> in the local folder
  final,        \* sas_plan.<i> in the results folder
  filtered,     \* ia_plan.<i> in filtered_plans
  unfiltered,   \* unfiltered_plan.<i> in unfiltered_plans
  output,       \* content of a new task file: the set of plans it forbids
  task_counter, \* TaskManager._task_counter, -1 for None
  tasks,        \* reformulated_output.sas.<i>
  folder,       \* the local folder exists
  status        \* how the run ended

setting == <<number_of_plans, keep_tasks, clean_folder, faults, new_folder, relevant>>
manager == <<plan_costs, at, so_far, incomplete>>
results == <<final, filtered, unfiltered>>
taskfiles == <<output, task_counter, tasks>>
vars == <<setting, pc, first, manager, local, results, taskfiles, folder, status>>

plan_counter == Len(plan_costs)

\* forget_last_processed_plan: del self._plan_costs[-1]
Forget(s) == SubSeq(s, 1, Len(s) - 1)

\* A folder with one more or one less file, or with other content in file i.
With(f, i, x) == [j \in DOMAIN f \cup {i} |-> IF j = i THEN x ELSE f[j]]
Without(f, i) == [j \in DOMAIN f \ {i} |-> f[j]]

get_number_valid_plans == Cardinality(DOMAIN final)

enough_plans_found == get_number_valid_plans >= number_of_plans

\* Mutant: the number that is commented out in get_reformulation_callstring.
MutNumRemaining == number_of_plans - get_number_valid_plans

\* num_remaining_plans of get_reformulation_callstring
num_remaining_plans == IF number_of_plans = 2 THEN 3 ELSE number_of_plans

-----------------------------------------------------------------------------
(* How a run ends.  cleanup removes the local folder if the options say    *)
(* so, as those of the script do; it is not reached from the exits inside  *)
(* process_new_plans that end the interpreter at once.                     *)

Exit(s) ==
  /\ pc' = "exited" /\ status' = s /\ folder' = IF clean_folder THEN FALSE ELSE folder

ExitWithoutCleanup(s) ==
  /\ pc' = "exited" /\ status' = s /\ UNCHANGED folder

Goto(label) == pc' = label /\ UNCHANGED <<folder, status>>

-----------------------------------------------------------------------------
(* The call of the cost-optimal planner.                                   *)

Forbidden == IF task_counter = -1 THEN {} ELSE tasks[task_counter]

\* Mutant: a planner that returns any plan.
MutOptimal(F) == Plan \ F

\* A* returns a cheapest plan of the current task.
Optimal(F) == {p \in Plan \ F : \A q \in Plan \ F : Cost[p] <= Cost[q]}

Solvable == Forbidden # Broken /\ Optimal(Forbidden) # {}

\* The translator writes output.sas when the call starts from PDDL.
Translate == output' = IF task_counter = -1 THEN {} ELSE output

StartProcessing ==
  /\ at' = plan_counter + 1 /\ so_far' = plan_counter /\ incomplete' = FALSE

PlanFound ==
  /\ pc = "plan" /\ Solvable
  /\ \E p \in Optimal(Forbidden) : local' = With(local, plan_counter + 1, p)
  /\ Translate
  /\ StartProcessing
  /\ Goto("process_plan")
  /\ UNCHANGED <<setting, first, plan_costs, results, task_counter, tasks>>

\* The task is unsolvable, or its file cannot be read.
PlanNotFound ==
  /\ pc = "plan" /\ ~ Solvable
  /\ Translate
  /\ StartProcessing
  /\ Goto("process_plan")
  /\ UNCHANGED <<setting, first, plan_costs, local, results, task_counter, tasks>>

\* The planner dies before it has a plan or while it writes it.
PlanCrash ==
  /\ pc = "plan" /\ "crash" \in faults
  /\ \/ UNCHANGED local
     \/ local' = With(local, plan_counter + 1, Broken)
  /\ Translate
  /\ StartProcessing
  /\ Goto("process_plan")
  /\ UNCHANGED <<setting, first, plan_costs, results, task_counter, tasks>>

CallTimeout ==
  /\ pc \in {"plan", "reformulate"} /\ "timeout" \in faults
  /\ Exit("timeout")
  /\ UNCHANGED <<setting, first, manager, local, results, taskfiles>>

CallRaises ==
  /\ pc \in {"plan", "reformulate"} /\ "raise" \in faults
  /\ Exit("raised")
  /\ UNCHANGED <<setting, first, manager, local, results, taskfiles>>

-----------------------------------------------------------------------------
(* process_new_plans: one step per iteration of its loop over plan files.  *)

\* Mutant: the plans of the reformulation are not processed.
MutProcessingDone ==
  /\ pc \in {"process_plan", "process_reform"}
  /\ \/ pc = "process_reform"
     \/ enough_plans_found
     \/ at \notin DOMAIN local
     \/ incomplete
  /\ Goto(IF pc = "process_plan" THEN "after_plan" ELSE "after_reform")
  /\ UNCHANGED <<setting, first, manager, local, results, taskfiles>>

\* The loop ends; find_plans goes on with the number of plans processed.
ProcessingDone ==
  /\ pc \in {"process_plan", "process_reform"}
  /\ \/ enough_plans_found
     \/ at \notin DOMAIN local
     \/ incomplete
  /\ Goto(IF pc = "process_plan" THEN "after_plan" ELSE "after_reform")
  /\ UNCHANGED <<setting, first, manager, local, results, taskfiles>>

\* There is a next plan file to look at.
PlanToProcess ==
  /\ pc \in {"process_plan", "process_reform"}
  /\ ~ enough_plans_found /\ at \in DOMAIN local /\ ~ incomplete

ProcessIncomplete ==
  /\ PlanToProcess /\ local[at] = Broken
  /\ local' = Without(local, at)
  /\ incomplete' = TRUE
  /\ at' = at + 1
  /\ UNCHANGED <<setting, pc, first, plan_costs, so_far, results, taskfiles,
                 folder, status>>

\* Mutant: the filtered plan is numbered by the plans counted before it.
MutFilterNumber ==
  /\ PlanToProcess /\ local[at] # Broken
  /\ LET p == local[at] IN
     /\ IF p \in relevant
        THEN /\ final' = With(final, at, p)
             /\ UNCHANGED filtered
        ELSE /\ filtered' = With(filtered, plan_counter, p)
             /\ UNCHANGED final
     /\ plan_costs' = Append(plan_costs, Cost[p])
  /\ at' = at + 1
  /\ UNCHANGED <<setting, pc, first, so_far, incomplete, local, unfiltered,
                 taskfiles, folder, status>>

\* The relevance check found a plan of the follow-plan task; its cost decides.
\* The copies are numbered by the plan file and by the plan counter.
ProcessChecked ==
  /\ PlanToProcess /\ local[at] # Broken
  /\ LET p == local[at] IN
     /\ IF p \in relevant
        THEN /\ final' = With(final, at, p)
             /\ UNCHANGED filtered
        ELSE /\ filtered' = With(filtered, plan_counter + 1, p)
             /\ UNCHANGED final
     /\ plan_costs' = Append(plan_costs, Cost[p])
  /\ at' = at + 1
  /\ UNCHANGED <<setting, pc, first, so_far, incomplete, local, unfiltered,
                 taskfiles, folder, status>>

\* The file of the relevance check has no cost line: the plan is neither
\* accepted nor filtered, but it is counted.
ProcessPartialVerdict ==
  /\ PlanToProcess /\ local[at] # Broken /\ "partial_verdict" \in faults
  /\ plan_costs' = Append(plan_costs, Cost[local[at]])
  /\ at' = at + 1
  /\ UNCHANGED <<setting, pc, first, so_far, incomplete, local, results,
                 taskfiles, folder, status>>

\* The relevance check left no plan: exit(-1), nothing is cleaned up.
ProcessNoVerdict ==
  /\ PlanToProcess /\ local[at] # Broken /\ "no_verdict" \in faults
  /\ unfiltered' = With(unfiltered, plan_counter + 1, local[at])
  /\ ExitWithoutCleanup("no_verdict")
  /\ UNCHANGED <<setting, first, manager, local, final, filtered, taskfiles>>

ProcessTimeout ==
  /\ PlanToProcess /\ local[at] # Broken /\ "timeout" \in faults
  /\ Exit("timeout")
  /\ UNCHANGED <<setting, first, manager, local, results, taskfiles>>

\* Any other exception of the check is raised again, past find_plans.
ProcessRaises ==
  /\ PlanToProcess /\ local[at] # Broken /\ "raise" \in faults
  /\ ExitWithoutCleanup("raised_in_check")
  /\ UNCHANGED <<setting, first, manager, local, results, taskfiles>>

processed == plan_counter - so_far

-----------------------------------------------------------------------------
(* TaskManager.add_task: the new file becomes the current task.            *)

DeleteCurrent ==
  IF ~ keep_tasks /\ task_counter > 0 THEN Without(tasks, task_counter) ELSE tasks

AddTask ==
  /\ output # NoFile
  /\ tasks' = With(DeleteCurrent, task_counter + 1, output)
  /\ task_counter' = task_counter + 1
  /\ output' = NoFile

-----------------------------------------------------------------------------
(* find_plans between the calls.                                           *)

\* After the cost-optimal planner: nothing found, too much found, done, or on
\* to the reformulation, whose call string forgets the last plan.
NoPlanFound ==
  /\ pc = "after_plan" /\ processed = 0
  /\ Exit("no_plan_found")
  /\ UNCHANGED <<setting, first, manager, local, results, taskfiles>>

AssertionFails ==
  /\ pc = "after_plan" /\ processed > 1
  /\ ExitWithoutCleanup("assertion_failed")
  /\ UNCHANGED <<setting, first, manager, local, results, taskfiles>>

EnoughAfterPlan ==
  /\ pc = "after_plan" /\ processed = 1
  /\ IF first THEN number_of_plans = 1 ELSE enough_plans_found
  /\ Exit("success")
  /\ UNCHANGED <<setting, first, manager, local, results, taskfiles>>

PrepareReformulation ==
  /\ pc = "after_plan" /\ processed = 1
  /\ IF first THEN number_of_plans # 1 /\ AddTask
     ELSE ~ enough_plans_found /\ UNCHANGED taskfiles
  /\ plan_counter \in DOMAIN local
  /\ plan_costs' = Forget(plan_costs)
  /\ Goto("reformulate")
  /\ UNCHANGED <<setting, first, at, so_far, incomplete, local, results>>

\* The reformulation call has read its task.
Reformulating == pc = "reformulate" /\ Forbidden # Broken

\* The plan that is reformulated: the file of the plan just forgotten.
last_plan == local[plan_counter + 1]

GraphPlans == {last_plan} \cup (Class[last_plan] \ Forbidden)

\* The plan files after the reformulation call has dumped the plans of q; the
\* first of them is the plan it was given.
Dumped(q) ==
  LET new == {plan_counter + j : j \in DOMAIN q} IN
  [i \in DOMAIN local \cup new |-> IF i \in new THEN q[i - plan_counter] ELSE local[i]]

DumpOrders(n) ==
  {q \in [1 .. n -> GraphPlans] :
     q[1] = last_plan /\ \A i, j \in 1 .. n : q[i] = q[j] => i = j}

\* Mutant: only the plan that was found is forbidden, not the plans dumped.
MutReformulate ==
  /\ Reformulating
  /\ Cardinality(GraphPlans) < num_remaining_plans
  /\ \E q \in DumpOrders(Cardinality(GraphPlans)) : local' = Dumped(q)
  /\ output' = Forbidden \cup {last_plan}
  /\ StartProcessing
  /\ Goto("process_reform")
  /\ UNCHANGED <<setting, first, plan_costs, results, task_counter, tasks>>

\* All plans of the graph are dumped and forbidden.
Reformulate ==
  /\ Reformulating
  /\ Cardinality(GraphPlans) < num_remaining_plans
  /\ \E q \in DumpOrders(Cardinality(GraphPlans)) : local' = Dumped(q)
  /\ output' = Forbidden \cup GraphPlans
  /\ StartProcessing
  /\ Goto("process_reform")
  /\ UNCHANGED <<setting, first, plan_costs, results, task_counter, tasks>>

\* As many plans as were asked for are dumped; no task is written.
DumpEnough ==
  /\ Reformulating
  /\ Cardinality(GraphPlans) >= num_remaining_plans
  /\ \E q \in DumpOrders(num_remaining_plans) : local' = Dumped(q)
  /\ StartProcessing
  /\ Goto("process_reform")
  /\ UNCHANGED <<setting, first, plan_costs, results, taskfiles>>

\* The reformulation dies while it dumps plans, or while it writes the task.
ReformulateCrash ==
  /\ Reformulating /\ "crash" \in faults
  /\ LET n == IF Cardinality(GraphPlans) < num_remaining_plans
              THEN Cardinality(GraphPlans) ELSE num_remaining_plans IN
     \E q \in DumpOrders(n), d \in 0 .. n :
       \/ local' = Dumped(SubSeq(q, 1, d)) /\ UNCHANGED output
       \/ d > 0 /\ local' = Dumped([SubSeq(q, 1, d) EXCEPT ![d] = Broken])
                /\ UNCHANGED output
       \/ n < num_remaining_plans /\ d = n /\ local' = Dumped(q) /\ output' = Broken
  /\ StartProcessing
  /\ Goto("process_reform")
  /\ UNCHANGED <<setting, first, plan_costs, results, task_counter, tasks>>

\* A new task: the next iteration, or the end when there are enough plans.
NextIteration ==
  /\ pc = "after_reform" /\ AddTask
  /\ first' = FALSE
  /\ IF enough_plans_found THEN Exit("success") ELSE Goto("plan")
  /\ UNCHANGED <<setting, manager, local, results>>

\* Mutant: without a new task the loop is left only with enough plans.
MutNoNewTask ==
  /\ pc = "after_reform" /\ output = NoFile /\ enough_plans_found
  /\ Exit("success")
  /\ UNCHANGED <<setting, first, manager, local, results, taskfiles>>

\* No new task: the run ends, whatever the number of plans.
NoNewTask ==
  /\ pc = "after_reform" /\ output = NoFile
  /\ Exit(IF enough_plans_found THEN "success" ELSE "no_new_task")
  /\ UNCHANGED <<setting, first, manager, local, results, taskfiles>>

-----------------------------------------------------------------------------
Init ==
  /\ \E sc \in Scenarios :
       /\ number_of_plans = sc.number_of_plans /\ keep_tasks = sc.keep_tasks
       /\ clean_folder = sc.clean_folder
       /\ faults = sc.faults
       /\ local = sc.folder /\ new_folder = (sc.folder = <<>>)
  /\ relevant \in SUBSET Plan
  /\ pc = "plan" /\ first = TRUE
  /\ plan_costs = <<>> /\ at = 1 /\ so_far = 0 /\ incomplete = FALSE
  /\ final = <<>> /\ filtered = <<>> /\ unfiltered = <<>>
  /\ output = NoFile /\ task_counter = -1 /\ tasks = <<>>
  /\ folder = TRUE /\ status = "running"

Next ==
  \/ PlanFound \/ PlanNotFound \/ PlanCrash \/ CallTimeout \/ CallRaises
  \/ ProcessingDone \/ ProcessIncomplete \/ ProcessChecked
  \/ ProcessPartialVerdict \/ ProcessNoVerdict \/ ProcessTimeout \/ ProcessRaises
  \/ NoPlanFound \/ AssertionFails \/ EnoughAfterPlan \/ PrepareReformulation
  \/ Reformulate \/ DumpEnough \/ ReformulateCrash
  \/ NextIteration \/ NoNewTask

Spec == Init /\ [][Next]_vars

\* Every call returns or is ended by its time limit, so the program goes on.
FairSpec == Spec /\ WF_vars(Next)

-----------------------------------------------------------------------------
(* Properties.                                                             *)

PlanOrBroken == Plan \cup {Broken}

IsFolder(f, S) ==
  /\ DOMAIN f \subseteq Nat \ {0}
  /\ \A i \in DOMAIN f : f[i] \in S

Labels == {"plan", "process_plan", "after_plan", "reformulate",
           "process_reform", "after_reform", "exited"}

\* Every variable has a value of its type.
TypeOK ==
  /\ relevant \subseteq Plan /\ pc \in Labels /\ first \in BOOLEAN
  /\ plan_costs \in Seq({Cost[p] : p \in Plan})
  /\ at \in Nat \ {0} /\ so_far \in 0 .. plan_counter /\ incomplete \in BOOLEAN
  /\ IsFolder(local, PlanOrBroken)
  /\ IsFolder(final, relevant) /\ IsFolder(filtered, Plan \ relevant)
  /\ IsFolder(unfiltered, Plan)
  /\ output \in (SUBSET Plan) \cup {Broken, NoFile}
  /\ task_counter \in Nat \cup {-1}
  /\ task_counter # -1 => task_counter \in DOMAIN tasks
  /\ \A i \in DOMAIN tasks : tasks[i] \in (SUBSET Plan) \cup {Broken}
  /\ folder \in BOOLEAN

\* When the cost-optimal planner is called, the plans its task forbids are
\* those of the plan files 1 .. plan_counter, one file each: no plan was
\* forbidden that process_new_plans did not look at, and none that was looked
\* at can be found again, although the last plan was forgotten and dumped anew.
ForbiddenIsProcessed ==
  pc = "plan" /\ Forbidden # Broken =>
    /\ 1 .. plan_counter \subseteq DOMAIN local
    /\ Forbidden = {local[i] : i \in 1 .. plan_counter}
    /\ Cardinality(Forbidden) = plan_counter

\* Between two calls every plan that is counted is either delivered or
\* filtered, under the number of its plan file and with the plan of that file,
\* unless the relevance check left a file without a cost line.
Accounted ==
  /\ TypeOK
  /\ pc \in {"plan", "after_plan", "after_reform"} /\ "partial_verdict" \notin faults =>
       \A i \in 1 .. plan_counter :
         /\ i \in DOMAIN local /\ local[i] \in Plan
         /\ plan_costs[i] = Cost[local[i]]
         /\ \/ i \in DOMAIN final /\ i \notin DOMAIN filtered /\ final[i] = local[i]
            \/ i \in DOMAIN filtered /\ i \notin DOMAIN final /\ filtered[i] = local[i]

\* The assertion after each call of the cost-optimal planner, in a new folder:
\* there is never a second new plan file, whatever crash came before.
AssertionHoldsInNewFolder == new_folder => status # "assertion_failed"

delivered == {final[i] : i \in DOMAIN final}

\* The plans in the results folder implement the promise of a relevant top-k
\* planner at every moment, under every crash, timeout and exception.
Promise == INSTANCE TopKPromise WITH in_order <- new_folder /\ "partial_verdict" \notin faults
PromiseKept == Promise!Spec

\* A run with no fault that stops short of the number of plans has delivered
\* every relevant plan there is, if no plan has as many reorderings as plans
\* are asked for.
CompleteAtEnd ==
  /\ pc = "exited" /\ get_number_valid_plans < number_of_plans
  /\ faults = {} /\ new_folder
  /\ \A p \in Plan : Cardinality(Class[p]) < number_of_plans
  => relevant \subseteq delivered

\* The loop ends without a new task only if all plans are found (comment on
\* the break in find_plans): enough of them, or all the relevant ones.
NoNewTaskMeansAllFound ==
  status = "no_new_task" => relevant \subseteq delivered

\* find_plans ends: no chain of outcomes of the calls keeps it going forever,
\* because each iteration forbids at least the plan it found.
Termination == <>(pc = "exited")
=============================================================================
