# Verification of the relevant ForbidIterative planner

The repository plans *iteratively by forbidding*: a cost-optimal planner finds a
plan, the plan and all its valid reorderings are compiled into a new task that
has every solution but those, and the planner runs again. `plan.py` drives the
loop for the top-k problem and keeps, among the plans it is given, the
*relevant* ones: those in which no action can be left out for less cost.

This directory holds TLA+ modules of the parts that carry this logic, TLC
configurations that check them on small instances, and TLAPS proofs that hold
for every instance. Paths below are relative to the repository (`src/` here).

- [1. The system](#1-the-system)
- [2. Modules and how they correspond to the code](#2-modules-and-how-they-correspond-to-the-code)
- [3. What is checked](#3-what-is-checked)
- [4. What is proved](#4-what-is-proved)
- [5. Findings](#5-findings)
- [6. What is not modelled](#6-what-is-not-modelled)
- [7. Plan](#7-plan)

## 1. The system

| Component | State it keeps | Operations | Talks to |
|---|---|---|---|
| **Top-k loop** (`plan.py`, `iterative/`, `planner_call.py`) | counters of processed, delivered (`done`) and filtered (`filtered_out`) plans and their costs; the plan files, the task file, the result files | `find_plans`: plan, process the new plans, reformulate, repeat; `TopKPlanner.enough_plans_found`, `finalize`, `cleanup` | runs every program below as a subprocess and reads back only files |
| **Graph of plans** (`search/plans/plans_graph.cc`, `forbid_iterative_search.cc`) | nodes, edges and their four indexes; distances to the goal; which states have a plan | one reformulation call: insert the plans found, search for their reorderings, compute distances, prune, extend by symmetries, save the plans in it | is read by the reformulation |
| **Reformulated task** (`search/tasks/graph_forbid_reformulated_task.cc`) | per run of the task: the parent's state, the variable *possible*, a variable per node | constructor: up to four copies of each operator, by edge and by whether the run is in the graph | written to a file, which the next search solves |
| **Relevance check** (`pddl_parser/`) | the compiled domain and problem | compile a plan into a task whose cheapest solution leaves out the most; parse its answer | called for each new plan by the loop |
| **Cost-optimal search** (`search/search_engines/eager_search.cc`, `search_space.cc`, `open_lists/tiebreaking_open_list.cc`) | open list, node status, g-values, parents | A* with re-opening; plan extraction | solves the task files of the loop |
| **Multiset and single-plan reformulations** (`plan_forbid_reformulated_task.cc`, `multisets_forbid_reformulated_task.cc`) | as the graph reformulation, with counters | the same, for the other planners | used by top-quality and diverse planning |
| **Driver** (`driver/`) | time and memory limits, the list of components, the portfolio's schedule | run translate, search, validate; combine exit codes | between `plan.py` and the search |
| **Structural symmetries** (`search/structural_symmetries/`) | generators of the symmetry group of the task | find generators, map operators and states | used by the graph of plans and by the search |
| **Delete-relaxation and landmark-cut heuristics** (`search/heuristics/`) | costs of propositions, supporters, a queue; what is left of the costs of operators | evaluate a state: hmax, add, ff, hm, celmcut; celmcut is what the loop runs A\* with | evaluated by the search |
| **Merge-and-shrink** (`search/merge_and_shrink/`) | factors (transition systems), labels, distances | shrink, reduce labels, merge, prune; built once for a task | evaluated by the search |
| **Cartesian abstractions** (`search/cegar/`) | the graph of abstract states, the costs that are left | refine until no flaw is found, saturate the costs, next subtask | evaluated by the search |
| **Pattern databases** (`search/pdbs/`) | the collection of patterns and its additive sets | project, regress, combine, hill climbing, systematic patterns | evaluated by the search |
| **Landmarks** (`search/landmarks/`) | the landmark graph; for every state the landmarks that were reached on all paths known to it | find landmarks and orders, drop some, break cycles, share costs; learn of a transition | told of every transition by the search, evaluated by it |
| **Pruning** (`search/pruning/`) | stubborn operators and those not yet handled | prune the applicable operators of a state | called by the search |
| **Translator** (`translate/`) | the planning task as it is read, normalized, grounded; the candidates for mutex groups; the finite-domain task | parse, normalize, explore, instantiate, find mutex groups and choose variables, encode, simplify and order | run by the driver before each search; writes the task file |
| **Rest of the planner library** (potentials, operator counting, other engines, open lists, options) | | | inherited from Fast Downward |

### What is hard in it

There is one thread of control: `plan.py` starts a program, waits for it, and
reads files. What is hard lies elsewhere.

1. *Everything goes through files with numbers in their names.* The search
   forgets its last plan and dumps it again under the old number; plans,
   costs, delivered copies, filtered copies and the graph are kept by counters
   of their own, in different languages (`plan_manager.py:129-291`).
2. *Failures are invisible.* `driver/main.py:45` drops the exit code. A planner
   that died, one that ran out of time and one that found nothing all look
   alike. Files may be missing or cut off at any call.
3. *The reformulation forbids more than it was given.* All reorderings, and all
   symmetric plans, are forbidden unseen, so they must also have been saved
   unseen; and the search for them may be stopped by a count of plans.
4. *The graph is several redundant tables.* Pruning and extension must keep
   them in step; the loops of the symmetry extension, over nodes and over the
   edges of a node, insert into the hash tables they walk over.
5. *The compiled task has stale variables.* Once a run leaves the graph, the
   variables of the nodes keep their values; no operator may look at them.
6. *A\* with an inconsistent heuristic* reopens closed nodes, leaves outdated
   entries in its open list, changes parents under operators that cost nothing,
   and with symmetries searches representatives only, so that the plan has to be
   put together afterwards.
7. *Abstractions are changed in place.* Merge-and-shrink and CEGAR never rebuild
   a transition system; they rewire, relabel and shrink the one they have, keep
   distances that are still right and compute the others anew, a step that is
   wrong in one case showing only many steps later as an estimate that is too
   high. The landmark-cut heuristic repairs its costs after every cut.
8. *Costs are divided.* Cuts, saturated costs, additive patterns and zero-one
   cost partitioning each charge an operator once for what it may help in
   several places.
9. *Termination* of the loop rests on each reformulation forbidding something
   new, or on its writing no task at all.

### What makes it correct

- Reformulated task: it has the parent's runs, one copy per application, and
  exactly the solutions that are not paths of the graph.
- Search: the plan is a cheapest one of the task itself, also when the search
  went through representatives, and giving up means that there is no plan below
  the bound. The loop's order of delivery rests on it.
- Graph of plans: its indexes agree, distances are exact, what is saved are
  distinct cheapest plans, and **what is forbidden has been saved**.
- Heuristics: an estimate never exceeds the cost of a plan, also where costs are
  divided, and an abstraction is exactly that of the task: the search relies on
  it for its cheapest plans.
- Pruning: among the operators that are left is one a best plan starts with.
- Loop: plans are delivered in order of cost, each relevant and each once,
  nothing is forbidden that was not judged, and at the end the answer is
  complete unless a limit or a failure cut it short.

## 2. Modules and how they correspond to the code

```
ForbiddenPlans  <--implements--  GraphForbidTask  <--EXTENDS--  GraphForbidTaskProofs
                                      ^  the graph it reads
                                 PlansGraph            (one reformulation call)
                                      ^  its outcome: files saved, plans forbidden
TopKPromise     <--implements--  TopK                  (the loop)
                                      ^  a cheapest plan of the current task
FollowPlan  <--EXTENDS--  FollowPlanProofs             (the relevance check of a plan)
                                      ^  a cheapest run of the compiled task
Orbits  <--EXTENDS--  EagerSearch  <--EXTENDS--  EagerSearchProofs
                                      ^  an admissible heuristic
SasTask <- Relaxation <- LmCut <- Heuristics  \    (LmCut, Cegar, StubbornSets
        <- MergeAndShrink                      \     <--EXTENDS--  EvaluatorProofs)
        <- Cegar                                > Evaluation  (the composition)
        <- StubbornSets                        /
        <- PatternDatabases                   /
        <- Landmarks                         /
ForbidTasks  <--EXTENDS--  ForbidTasksProofs           (the other reformulation call)
     \
      PlannerCall                                      (the composition: one call)
     /
Translator  <- SasSimplify <- SasEncoding <- Invariants, Instantiate <- Datalog
            <- Normalize <- Pddl;  AxiomEvaluator, PddlMeaning (what is meant)

PlansGraph  <--EXTENDS--  PlansGraphProofs
TopK        <--EXTENDS--  TopKProofs
RecursionLemmas: functions defined by recursion, and induction, for the proofs
```

The modules meet at files in the program and at results in the model: `TopK`
uses of a reformulation what `PlansGraph` checks (what it forbids it has saved;
it says when it stopped early), of a search what `EagerSearch` checks (its plan
is a cheapest one, and no plan means there is none), and of a relevance check
that it gives each plan one verdict; `PlansGraph` uses of the reformulated task
what `GraphForbidTaskProofs` proves (exactly the paths of the graph are
forbidden);
`FollowPlan` uses of the search that it returns a cheapest run; `EagerSearch`
assumes of its heuristic what `Evaluation` checks (`HeuristicAssumption`).

### `ForbiddenPlans` and `GraphForbidTask`

`ForbiddenPlans` is what a reformulation promises: a run of the parent task that
remembers its history (`path`) and may be accepted as a solution at a goal of the
parent whenever the history is not one of `ForbiddenPaths`.

`GraphForbidTask` is `graph_forbid_reformulated_task.cc`, executed: its state is
the state of the new task (`state`, `possible`, `following`, the last two being
the variables `possible` and one binary variable per node), and its actions are
applications of the operator copies the constructor makes. The constructor
itself (how edges and operators are numbered, which copy gets which
precondition and effect) is translated index by index: the operators of the new
task are the numbers `0 .. get_num_operators - 1`, `get_op_type`,
`get_edge_index` and `get_parent_op_index` decode a number as the code does, and
the orders in which the hash tables yield edges and operators are chosen in
`Init`. Parent states and operators are model values: their
values matter to nothing in this code. The graph is chosen in `Init` among all
the graphs that the plans graph may hand over.

### `PlansGraph`

One call of the reformulation, `forbid_iterative_search.cc:195-261` with the
options that `plan.py` passes by default (`NAIVE_ALL_DFS_NODUP`, and symmetries
as `plan_topk.sh` asks for): `add_plan`, both Dijkstra runs, the depth-first
search for reorderings with its stack and its early stop, pruning, the symmetry
extension, and the three or more dumps. A state of the module is the object
`PlansGraph`: nodes, edges, origins, distances and the indexes, plus the files
written. The search is one action per node taken off the stack, and the order in
which a hash table is walked is a choice. The symmetry extension is one action per
node (`PermuteNode`). Where the symmetry fixes the node, the images of its edges go
into the table that is walked, and `PermuteInserted` is the loop meeting one of
them, or not.

### `TopKPromise` and `TopK`

`TopKPromise` is the answer of a top-k planner as a machine: it delivers
relevant plans one by one, never twice, never a dearer one before a cheaper, at
most K.

`TopK` is `find_plans` of `plan.py` with the objects `TopKPlanner`,
`PlanManager` and `TaskManager`. `pc` names the call that comes next; every
statement that runs a program is an action (`Plan`, `Reformulate`, the relevance
check of one plan, `Finalize`...), with every outcome the program can have:
success, nothing, death in the middle of writing, the limit of time, an
exception. A plan is a number of its class of reorderings and of itself; what a
plan file says besides its identity is abstract. Two options matter to the loop:
whether the task files are kept and whether the folder is removed at the end
(`Exit`), which `plan.py:346` does not allow together. Relevance is a set chosen in
`Init`, so that every subset of the plans is tried.

### `Orbits` and `EagerSearch`

`EagerSearch` is the A\* that every call of the loop runs: `eager_search.cc` as
`astar()` sets it up (reopening, tie-breaking open list, no pruning, no
multi-path dependence), with `SearchSpace` and the per-state evaluator `d` that
`shortest=true` adds. One step of the code is `FetchNode` (or `SkipClosed`,
`OpenListEmpty`) followed by one action per applicable operator in any order:
`OverBound`, `KnownDeadEnd`, `NewDeadEnd`, `OpenNew`, `Reopen`, `NotBetter` are
the branches of the loop over the operators, and `TimeLimit` or `InTime` is the
look at the clock after the step. Entries of one key are interchangeable, so any
of them may be fetched.

The heuristic, the generators of the symmetry group, the bound and the option
`shortest` are chosen in `Init`. `HStar` and `Steps` are not part of the program:
they are the yardstick, tied to the task by `PerfectAssumption`. What the search
relies on is assumed of its inputs, and only that: the heuristic never
overestimates (`HeuristicAssumption`; it may be inconsistent and need not
recognise dead ends), and generators are symmetries, permutations of the states
that preserve the goal and the operators between states up to their names
(`IsSymmetry`, `SymmetryAssumption`). With generators, `Orbits` gives the canonical
representatives, the traces through the generators and the permutation between
two states of an orbit; `trace_path` then rebuilds a plan of the task from the
chain of representatives, or fails with the code's critical error.

### `FollowPlan`

The relevance check of one plan, without its failures (those are in `TopK`).
`Parse` is `parse` of `PDDL.py`: it numbers the lines of the plan file, the last
of which is the cost, and writes the facts `last`, `before` and `plan-action`.
`NoWord` is its `IndexError` when `N2W` has no word for the last line. `Apply`
is one action of the compiled task: the three added preconditions and two added
effects on top of those of the original action. `Check` compares the costs as
`plan_manager.py:217` does. The planner in between is external to the module:
`RunCosts` are the costs of its runs, computed from the compiled facts, and
`Check` takes only a run that costs no more than any of them. The original task
is a graph of states and ground actions, given by constants; reading and writing
PDDL is abstracted.
`followed` and `through` are history variables.

### `ForbidTasks`

The reformulation call that forbids multisets of operators
(`reformulate_and_dump_multiset`), for the other planners of `--planner`, and
the runs of the task it builds. The call adds the images of the plans under the
generators a frontier at a time: `ReadPlan` takes one plan file, `AllRead` ends
the reading, `StartRound` makes what is new the frontier, `PermutePlan` adds the
image of one plan of the frontier and stops as soon as there are enough,
`NextGenerator` and `EndOfRound` move on. Then it builds
`MultisetForbidReformulatedTask` or `MultisetsForbidReformulatedTask` (`Build`)
or nothing (`NoTask`); `Apply` is a step of a run of that task. The third class, `PlanForbidReformulatedTask`, is built
directly: the constructor of the search engine rejects its option
(`forbid_iterative_search.cc`, `FORBID_SINGLE_PLAN`), so that only its own
promise can be checked. A copy of an operator is the operator with the extra
preconditions and effects, functions on the extra variables.

### `SasTask`

Tasks of the search code with variables, operators with preconditions and
conditional effects, and costs; and the yardsticks for all that follows: the
cost of a cheapest plan from every state (`GoalDistance`, Bellman-Ford until
nothing changes) and the reachable states. What a task has to be is `IsTask`,
the only assumption of this module. Preconditions are sequences because
an operator read from a file has a precondition as often as it has effects on
its variable (`global_operator.cc`), which additive costs count twice.

### `Relaxation`, `LmCut` and `Heuristics`

`Relaxation` is the exploration of hmax, add and ff. Unary operators are built
and simplified as `relaxation_heuristic.cc` does, which compares preconditions as
sorted sequences where a fact may occur twice, so as multisets here (`PreWithin`); one action takes an entry off
the queue (`Pop`, any of the cheapest, with the branch for a stale entry) until
the goals are reached or the queue is empty (`QueueEmpty`). ff follows the
supporters that were recorded (`Marked`, `relaxed_plan`).

`LmCut` is the landmark-cut heuristic for tasks with conditional effects: the
first exploration, then cuts (`Cut` finds the goal zone, the cut and its cost,
and charges every operator once) and after each the incremental repair of the
costs (`PopIncremental`). Supporters with equal costs are a choice. The goal zone
(`mark_goal_plateau`) and what is before it (`second_exploration`) are recursive
functions on sets of propositions, which lose nothing of the exploration by a stack, since
the result does not depend on its order. `LmCutSpec` is one call of `compute_landmarks`
on its own, as the theorems are about it.

`Heuristics` has those that are functions of a state (blind, goalcount, hm) and
the properties of all.

### `MergeAndShrink`

The loop of `merge_and_shrink_heuristic.cc`, one action per stage: the atomic
factors are pruned (`PruneAtomic`), then again and again a pair is chosen
(`GetNextMerge`, any pair: the merge strategies differ in nothing else), labels
are reduced before or after shrinking, both factors are shrunk, and merged.
Factors are records of groups of labels, transitions, goals and distances, which
are *kept* where the code keeps them (`must_recompute`), not computed anew. The
three kinds of shrinking are translated with their limits: equal buckets by f
and h or at random, and bisimulation, exact or greedy. What the code leaves to a
random number or to the order of a hash table is a choice.

### `Cegar`

One action starts an abstraction (`StartAbstraction`, which also separates the
facts that are unreachable before a landmark, for all variables or, when time or
memory is up, for the first ones only, with no refinement after that), one is a round of refinement
(`Refine`: a cheapest abstract plan, its first flaw, any split that repairs it),
one ends it for whatever reason (`Stop`: a limit, the time, no plan), and
`FinishAbstraction` computes the saturated costs, keeps the function if it is
above zero in the initial state and goes on with the next subtask. A Cartesian
set is a function from variables to sets of values. Transitions are rewired by
the three case distinctions of `transition_updater.cc`. What the code does in a loop
(separating facts, following a plan, extracting the distances along it) is a function
of the round. `CegarAssumption` says that conditions and effects have one value per
variable: the translator asserts it of what it writes (`SASTask.validate`), and says that
it should hold of effects that are not conditional (`sas_tasks.py:305`), to which
`verify_no_conditional_effects` restricts this heuristic. `CegarSpec` is the
construction on its own.

### `StubbornSets`

One action handles an operator that is marked and not yet handled
(`handle_stubborn_operator`), by the rules of the simple variant or of the
expansion core. The code handles the last one first; here the order is a choice,
because the code gives no reason for it and the marks of the expansion core
depend on it. Which values a variable may reach from its current one, a recursive
search in the code, is the least set that is closed under the arcs between its
values (`IsClosed`, `recurse_forwards`). `StubbornSpec` is the pruning of one state
on its own, as the theorems are about it; in `Evaluation` it runs among the other
evaluators.

### `PatternDatabases`

`create_pdb` regresses through the abstract operators as
`build_abstract_operators` pairs them; maximal additive sets come from the clique
algorithm of the code, vertex by vertex. Hill climbing is a machine: `AddPdb`
adds any candidate that fits and improves some sample, `StopClimbing` may come
at any time. Samples are states reached by a random walk, so any reachable state
that is not a dead end. Systematic patterns are functions, compared with the
naive ones.

### `Landmarks`

The five factories (`lm_exhaust`, `lm_zg`, `lm_hm`, `lm_rhw` and merged graphs),
what the options drop, reasonable orders, the breaking of cycles, and the
landmark-count heuristic. A node is the set of its facts and the graph a record
that every step changes as the code does, orders being replaced or kept by their
strength (`edge_add`). `lm_rhw` is a machine: `Backchain` takes any open landmark,
finds what all (or one of some) operators that achieve it first need, and adds it
with its orders, turning a disjunction into a simple landmark where it must;
`add_lm_forward_orders` adds the orders that were remembered. `Discard` to
`FinishGraph` prepare the graph, `BreakCycle` dropping any weakest order of any
cycle. `Notify` is `notify_state_transition` for any known state and any operator,
so that a state hears of several paths in any order; `LandmarkEstimate` is the
heuristic, in fractions of `PARTS` where costs are shared. `kConverted` is a history
variable: a disjunctive landmark with orders before it became a simple one.

### `Pddl` to `SasSimplify`, `AxiomEvaluator` and `Translator`

`Translator` is `translate.py`: `Parse` and `Normalize` (`Pddl`, `Normalize`:
negation normal form, quantifiers, disjunctions split off), `Explore` builds the
logic program and `PopAtom` takes one atom off the queue of `build_model.py`
(`Datalog`), `Instantiate` grounds the task by the model (`Instantiate`),
`StartInvariants` and `CheckCandidate` find mutex groups, one candidate at a time
(`Invariants`), `Group`, `ChooseGroup` and `CoverRest` choose the variables,
`Encode` makes the finite-domain task (`SasEncoding`), `Simplify` and `Order`
remove what cannot matter and put the rest in order (`SasSimplify`, where the
assertions of `simplify.py` are assertions of the model that stop the run); `Abort`
is the exit with an unsolvable task. The options of the command line are chosen in
`Init`. What the code takes from the order of a hash table is a choice: which
action refuses a candidate first, which of the largest groups is chosen.
`PddlMeaning` is the reference, the semantics of a planning task on the trees of
its input; `AxiomEvaluator` is `axioms.cc` of the search, with which the file
that was written is read back.

### `PlannerCall`

The composition of the two programs of a call: the translator writes the task
file, `forbid_iterative_search` reformulates it. In a behaviour one of them is at
work and the other is idle; they share nothing but the file.

### `Evaluation`

The composition: for one of the tasks one of the evaluators is at work, in a
state where it needs one, and the others are idle (`RelaxationIdle`,
`LmCutIdle`...). Evaluators do not share state in the code; what they share is
the task.

## 3. What is checked

| Run | Shows | Instance |
|---|---|---|
| `graph_forbid_task` | the reformulated task implements the parent task without the forbidden plans (`AbsSpec`); `possible` is exact; exactly one copy of each applicable operator applies | a parent task of 3 states and 6 transitions, *every* well-formed graph over it, runs of up to `MaxLen` = 4 operators |
| `plans_graph` | for the files saved and the graph handed on: indexes agree, distances are exact, the files are distinct cheapest plans, with all orders of the plan found unless the search stopped early (`FilesAreExact`), what is forbidden is saved and includes the plan found, the search stopped early only with enough plans, the graph is closed under symmetry; the call ends | 6 tasks, every plan A* may return for them, limits 1, 3 and 9 |
| `topk` | whatever is forbidden was processed (`ForbiddenIsProcessed`), plans, costs and files stay accounted for (`Accounted`), the first assertion holds in a new folder (`AssertionHoldsInNewFolder`), a run without faults that ends short of K has delivered every relevant plan, the answer implements `TopKPromise` (`PromiseKept`), and every run ends | 6 plans in classes of 1 to 3, *every* set of relevant plans, four scenarios: every fault with K = 3; no fault with K = 4, more than any plan has reorderings; K = 2 with tasks and folder kept and verdicts cut off; K = 2 in a folder with two old plan files; without kept tasks the folder is removed |
| `topk_reorderings` | a finding of section 5 | a scenario of its own |
| `eager_search` | the node that ends the search is reached at the least cost, giving up means no plan below the bound, parents lead back to the initial state, the plan (put together from representatives when there are symmetries) is a cheapest plan of the task itself, a consistent heuristic never reopens; the search ends | a task of three interchangeable copies with a circle of cost zero, a cheap detour and a dead end; 16 admissible heuristics, consistent and not; no symmetries, a rotation (whose representatives differ inside an orbit), all permutations; bounds at and above the cost of a plan, `shortest` on and off |
| `eager_search_shortest` | a finding of section 5 | the smallest instance |
| `follow_plan` | runs of the compiled task are parts of the plan that can be executed, every such part is a run, by one ground action per line, and the plan is filtered iff a part of it is a cheaper plan (by definition, over all subsets of its actions) | a task of 4 states with two ways to the goal, steps that undo others and one of cost zero; *every* plan of up to `MaxActions` = 6 actions; `Words` = 7 |
| `follow_plan_justified` | a finding of section 5 | the same task, all plans |
| `planner_call` | *reformulation:* the solutions of the task that is built are those of the parent that are not forbidden, in whatever order the operators come, and what is forbidden is the closure of the plans under symmetry (`SolutionsAreExact`); the copies split the applications and the extra variables stay in their domains (`OneCopyApplies`). *Translator:* the exploration finds every atom that its rules yield before they are split into joins, and no other unless a join has lost a variable (`GroundingIsExact`); the file has the runs and the solutions of the task, and its mutex groups are exclusive in every reachable state (`TranslationIsExact`) | a task with three interchangeable operators and one that starts again; one or two of 5 plans, with repeated operators and equal multisets; no symmetries, a rotation, all permutations; no limit, or 4 plans; runs of up to `MaxLen` = 4. Eleven planning tasks with quantifiers, disjunctions, conditional effects, derived predicates and types, under the options of the command line |
| `evaluation` | twelve properties of the heuristics, the abstractions and pruning, listed below | 14 tasks of 2 to 4 variables, one with an operator that has a precondition twice, in each state; `M` = 2, `MAX_COST_VALUE` = 7, `MAX_ABSTRACT_STATES` = 5, `PDB_MAX_SIZE` = 12, `COLLECTION_MAX_SIZE` = 40 |
| `cegar_consistent` | a finding of section 5 | the same tasks |
| `lmcount_admissible` | a finding of section 5 | a task made for it |

What `evaluation` checks:

- `EstimatesAdmissible`: blind, hmax, hm and celmcut never exceed the cost of a
  plan and call no solvable state a dead end; h2 and celmcut are not below hmax,
  except that celmcut may be with conditional effects.
- `ExplorationIsExact`: the exploration, which stops early, drops stale entries
  and leaves out dominated operators, finds the costs of the definition of hmax; and
  what ff collects is a plan when nothing is deleted, and costs no more than add.
- `CutsAreLandmarks`: after each repair the costs are those of hmax for what is
  left of the costs of the operators, every cut is a set of operators one of
  which any plan from the state must use, all cuts together charge an operator
  no more than it costs, and the estimate at the end is at most the cost of a plan.
- `FactorsAreCurrent`: the factors, changed in place, are what their definition
  says, distances included. `ReductionIsExact` (an action property): reducing
  labels changes no cost and no transition of the product of all factors.
  `MasIsAdmissible`: the estimate never exceeds the cost of a plan, except in
  states that are not reachable and pruned, and with exact bisimulation and no
  limit it is perfect in every reachable state.
- `AbstractionIsExact`: after every split the graph is the abstraction of the
  task by the sets; `CegarIsAdmissible`: the sum of the functions, with saturated
  costs and dropped functions, never exceeds the cost of a plan.
- `PruningKeepsPlans`: when the marks are closed, a best plan (a shortest of the
  cheapest) starts with an operator that is not pruned.
- `PatternEstimatesAdmissible`: databases hold the distances of the projection,
  sums over additive patterns and zero-one sums are admissible, and dominated
  sets, patterns that are not interesting, and candidates that improve no sample
  add nothing to the value in any state.
- `LandmarksAreSound`: what the search is given are landmarks, of every plan, in
  the orders that the graph says, with all operators that can be first to achieve
  them; and breaking cycles never meets one without an order it may drop, unless
  the task has no relaxed plan. `LandmarkCountIsAdmissible`: on every path, in
  whatever order the transitions are heard of, no solvable state is called a dead
  end, and with `admissible=true` no estimate exceeds the cost of a plan. Both
  leave out graphs with a converted landmark, which the last finding of section 5
  is about, and conditional effects for the factories that do not support them;
  the second leaves out reasonable orders, which are not meant to be sound.

**Why these bounds.** *Task of the reformulation:* the copies of an operator
depend on whether it labels an edge out of the current node, an edge elsewhere,
or none, and on whether the run is in the graph; three states with two
operators each give each combination, with branching, merging and dead-end
nodes. The proofs of section 4 remove the bound. *Plans graph:* the six tasks
are chosen so that the cases the code distinguishes occur: actions that
commute, that commute only partly, a shared suffix, several plans of one cost
through one state, non-trivial symmetries, one of them a cycle of three edges
at a node that it fixes (the loop over the edges may then meet what it has inserted),
and a plan with no reordering. The
limits are below, at and above the number of plans. *Loop:* three plans asked for with six
leaves room for a plan that ties in cost with the last delivered, one that is
irrelevant between two relevant, and classes of size 1 to K; K = 2
is the value for which the code asks for one plan more. *Search:* a node must be
reached at a high cost first, closed, and reached again at a lower cost; five
states suffice for that to happen twice in a row, and the proofs of section 4
remove the bound. *Relevance check:* a pair of actions that must be left out
together (take a key, drop it) needs two actions besides those that are needed,
a step of cost zero one more; five actions hold two such pairs, or one around a
needed action. Plans of up to five actions are checked; with seven words those
of six actions, which have seven lines, have no word for the last. *Multisets:*
two plans share a counter and differ in how often they have the operator, and
images of images are needed to close a class. *Translator:*
each task has a few of the features that some stage treats apart (a quantifier
under a negation, a variable that is renamed, two groups that overlap, an axiom
that another one negates, a goal that never changes). They leave out what the
findings noted in section 5 are about. *Heuristics:* each task was made
for what is hard in some evaluator (ties, operators of cost zero, an effect that
deletes what another needs, dead ends in one factor only, joins of conditions,
goals that block each other), and each property fails for a plausible bug in the
code on one of them. `MAX_COST_VALUE` = 7 lets the costs of add reach the clamp, five
abstract states stop some refinements and not others, and the sizes of databases
leave out some candidates and not others; merge-and-shrink is run with 45
combinations of shrinking, size limits and label reduction.

**Bounds.** Two bounds are not the program's own: `MaxLen`, the length of the
runs of the reformulated task, which would otherwise remember histories without
end, and `MaxActions`, the length of the plans whose relevance is checked. The
limits of `Evaluation` are options of the code with small values, except
`MAX_COST_VALUE`, which is a constant of the code. Faults
are chosen by the scenario and are not counted. All counters are bounded by the plans, states or operators of the instance, so that
no run needs a state constraint.

**Fairness.** The program is sequential and every call returns or is ended by a
limit, so the specification has weak fairness of the whole next-state relation
and nothing more: the program does not stop between two statements. No outcome
of a call is assumed to happen eventually. `Termination` in `PlansGraph`, `TopK`
and `EagerSearch` follows from this alone; the other modules state safety only.
That every call returns is justified by the time limit of the command line
(`planner_call.py:31-41`). Without one the loop itself need not end on a task
with infinitely many irrelevant plans and too few relevant ones; the model has
finitely many plans.

**Deadlock.** All machines stop: a run of a task where no operator applies or the
bound is reached, the others where the program ends. The configurations
therefore say `CHECK_DEADLOCK FALSE`, and `Termination` checks that the
programs stop nowhere else: it requires the last `pc`.

Each property has a *mutant* in `PROJECT.json`, a plausible bug in the mapped
definition that the run then finds: a dropped precondition, a missing effect, a
wrong index, an erased reset.

## 4. What is proved

Each theorem below holds for every value of the constants that the named
assumptions admit. The inductive invariants were first given to TLC, on the
instances of section 3, except for parts that speak of all potentials (functions to the natural
numbers), which TLC cannot enumerate. What TLC alone checks is at the end of the section.

### The reformulated task

`GraphForbidTaskProofs` proves, for every parent task and every set of
well-formed graphs:

| Theorem | States |
|---|---|
| `Invariance` | `Spec => []IInv` |
| `TypeCorrect` | `Spec => []TypeOK` |
| `PossibleCorrect` | `Spec => []PossibleIsExact`: a run satisfies the goal's `possible` exactly when it has left the graph |
| `FollowingCorrect` | `Spec => []FollowingIsCurrent`: while the run is in the graph the node variable that holds is that of its node |
| `CopiesCorrect` | `Spec => []OneCopyApplies`: the copies split the applications of each operator |
| `Refinement` | `Spec => AbsSpec`: the reformulated task is the parent task without the forbidden plans |

The argument. None of the properties is inductive: that `possible` is exact
after a step rests on the node variables pointing at the node of the current
state before it, and that holds only while the run is in the graph. The
inductive invariant is `IInv == TypeOK /\ PossibleIsExact /\ FollowingIsCurrent`,
where `FollowingIsCurrent` says that as long as the history is a path of the
graph the only node variable that is set is the one of the current state, and
says nothing afterwards. Two lemmas carry the steps: `CopyExists` (an operator
that the parent can apply has a copy that applies) and `CopyUnique` (it has no
two); both split on whether the run is in the graph and on whether the operator
labels an edge out of the node. The refinement maps every application of a copy
to one application of its operator in `ForbiddenPlans`.

Assumptions: the numbering of the graph is that of a well-formed graph (edges
join nodes of states that the operator joins, one edge per node and operator),
which `PlansGraphProofs` proves of the graphs that are made (`IndexesCorrect`).

### The search

`EagerSearchProofs` proves, for every task, admissible heuristic, group of
symmetries, bound and both values of `shortest`:

| Theorem | States |
|---|---|
| `Invariance` | `Spec => []IInv` |
| `TypeCorrect` | `Spec => []TypeOK` |
| `SolvedCorrect` | `Spec => []SolvedIsOptimal`: the goal that ends the search was reached at the cost of a cheapest plan |
| `FailedCorrect` | `Spec => []FailedIsUnsolvable`: a search that gives up has shown that no plan is cheaper than its bound |
| `PopsCorrect` | `Spec => []PopsAreCurrent`: no outdated entry makes a node be expanded |
| `ParentsCorrect` | `Spec => []ParentsLeadBack`: following parents ends at the initial state |
| `ConsistentCorrect` | `Spec => ConsistentNeverReopens`: with a consistent heuristic no closed node is opened again |
| `TraceHolds` | `Spec => []TraceInv` |
| `PlanCorrect` | `Spec => []PlanIsOptimal`: a solved search has a plan, which is a cheapest plan of the task itself |

The argument. At every moment, as long as a plan below the bound exists, some
*open* node lies on a cheapest plan, has been reached at the least cost for such
a node, and has a current entry in the open list. So the open list is not empty
(`FailedCorrect`), and when a goal comes first in it, the key of that node shows
that nothing dearer can be first (`SolvedCorrect`). To find the open node one
goes along a cheapest plan from the initial state, by lemma `NextOptimal`, as
long as nodes are closed; lemma `OptimalEntry` does this by taking, among all
nodes reached at the least cost, one with the fewest `Steps` to go
(`LeastNatural`), which must be open, since a closed one would have handed its
cost on. That last step is what none of the properties says by itself, and is
why the invariant needs its other parts: `ClosedExpanded` (a closed node has
offered its cost to every successor, except through the operators still to be
applied), `DeadEnds` (what was discarded is unsolvable), `OpenHasEntry` (each
open node has an entry with its current cost), `EntriesNotBelow` (entries are
never below the current cost), `Distances` (no cost is below that of a real
path), and `StartReached`.

That parents lead back needs a separate invariant, `PInv`. Along parents, costs
never rise, but they may stay the same when operators cost nothing, so they do
not show the absence of circles. `ParentsLeadBack` says that every non-empty set
of reached nodes contains one whose parent is outside; it is preserved because a
node gets a new parent only when its cost falls strictly below what it was, and
hence below that of everything that hangs on it (`ParentsBelow`).

`ConsistentCorrect` is about a step, not a state: `ClosedInOrder` says that no
entry of the open list is below f of a closed node. With a consistent heuristic
no successor has a lower f than its parent, so that a closed node is never
offered a lower cost.

`PlanCorrect` is about `trace_path`, which is recursive over the parents, as the
trace of a state is over the passes of the generators. Lemma `ParentRecursion`
says that such a recursion has a solution when everybody who follows the parents
comes to a root (`Grounded`). Passes come to an end because the numbers of the
states fall (`PassesEnd`), parents do because of `PInv` (`TracesEnd`). A pass, a
trace and the permutation from a representative to its state are then symmetries
(`PassIs`, `Traced`, `BackFrom`), and a representative is its own
(`SettledTrace`). `CreatorsInv` is the invariant of the infos of the nodes: a node
is the start, or what its creator leads to from its parent has it as
representative, at no more than the cost of the node ("no more", since the parent
may have been reopened). The permutation of a node extends that of its parent by
the one to what the creator led to; so the two real states lie next to each
other and have an operator of the cost of the creator between them
(`RealStates`). The search for one among the applicable operators therefore never
comes to its exit with a critical error, finds one that is no dearer
(`CheapestFound`), and the sequence is a run from the initial state to a goal at a
cost of at most that of the node (`TraceLeads`), hence exactly (`NoPlanCheaper`).
That representatives are as far from the goal as their states is a lemma
(`AsFar`), not an assumption.

Assumptions: those named in `EagerSearch` and described in section 2.

### The relevance check

`FollowPlanProofs` proves, for every task, every set of plan files and every
number of words:

| Theorem | States |
|---|---|
| `Invariance` | `Spec => []IInv` |
| `TypeCorrect` | `Spec => []TypeOK` |
| `PartsCorrect` | `Spec => []RunsArePartsOfPlan`: a run executes lines of the plan in its order, none twice, none that is the cost |
| `LinesCorrect` | `Spec => []EveryLineCanFollow`: whatever later line can be executed has exactly one ground action |
| `VerdictCorrect` | `Spec => []VerdictIsRight`: the plan is filtered iff some of its actions can be left out so that the rest is a plan that costs less |

The argument for the first two: that lines grow along a run follows from the
fact `before` only if `last` holds of the line followed last and of nothing else
(`LastIsCurrent`), and that the line of an action is the one in the plan only if
the facts are those of the compilation (`Compiled`); the four are inductive
together. Lemma `LinesGrow` then turns "later than all lines followed" into
"later than the last".

The verdict compares two minima that are defined differently: that of the runs
of the compiled task, and that of the subsets of the plan's actions that can be
executed. `RunIsPart` says that a run has got as far, and at the same cost, as
every part of the plan that begins with its lines; `Answered` is what is known
when the planner has returned a cheapest run. Costs and states of a part are
recursive functions; `RecursionLemmas` has what is needed of these (that a
function with the recursion equations exists, and that two of them agree),
proved by taking a least counterexample in place of an induction.

Assumptions: the successors of states are states, costs are natural numbers, and
the line with the cost is not an action.

### The multiset reformulations

`ForbidTasksProofs` proves, for every parent task, every set of plans that are
read, every group of permutations of the operators, every limit and all three
classes of tasks:

| Theorem | States |
|---|---|
| `Invariance` | `Spec => []IInv` |
| `TypeCorrect` | `Spec => []TypeOK` |
| `SolutionsCorrect` | `Spec => []SolutionsAreExact`: a task that is built forbids the smallest set that has the plans read and all their symmetric images, and has all other solutions of its parent |
| `CopiesCorrect` | `Spec => []OneCopyApplies`: the copies split the applications of each operator, and the extra variables stay in their domains |

The argument has two halves. While images are added, the invariant
`ExtensionInv` relates three sets: what is known, the frontier and the new
frontier. Only plans of a frontier may have images that are not known (`Done`),
a round learns these one by one (`Applied`), and nothing is known that a set
closed under the generators could be without (`Least`); so that when a round
brings nothing new, what is known is closed (`Complete`) and the smallest such
set. While a run of the task goes on, `TaskInv` gives each extra variable its
meaning in terms of the run: a counter is the number of times its operator was
used, up to one more than any forbidden plan has it (`PlanState`, `UnionState`,
`MultisetsState`). Lemma `Counting` carries the steps: adding one operator adds
one to one counter. For the second class the largest counters are a maximum over
the plans, which `Largest` finds.

Assumptions: the plans are sequences of operators, successors of states are
states, and generators are permutations of the operators.

### The loop

`TopKProofs` proves, for every set of plans with classes of reorderings, every
scenario (the number of plans asked for, which faults may strike, the options),
every set of relevant plans and every folder the run may find:

| Theorem | States |
|---|---|
| `Invariance` | `Spec => []Inv` |
| `TypeCorrect` | `Spec => []TypeOK` |
| `ForbiddenProcessed` | `Spec => []ForbiddenIsProcessed`: the current task forbids exactly the plans of the files that were processed |
| `AllAccounted` | `Spec => []Accounted`: each counted plan is delivered or filtered, once, under the number of its file |
| `AssertionHolds` | `Spec => []AssertionHoldsInNewFolder`: the assertion of `plan.py:108-109` cannot fail in a new folder |
| `Complete` | `Spec => []CompleteAtEnd`: a run without faults that ends short of K has delivered every relevant plan, unless some plan has as many reorderings as plans were asked for |
| `KeepsPromise` | `Spec => PromiseKept`: the loop implements `TopKPromise` |

The argument. Between any two calls the state of the loop is spread over files,
and the counters say what the files should be. Three things make the invariant
more than the sum of the properties. (1) Plan files have no gaps and only the
last of them can be cut off, with a different bound at each point of the loop
(`FilesAtPlan` to `FilesAfterReform`); a used folder with too many files breaks
this, but only until the assertion ends the run in its first iteration. (2) The
plan found last is forgotten and dumped again by the reformulation, under the
same number: meanwhile one more copy exists than the counter says (`Top`,
`Copies`). (3) Delivery in order of cost rests on what the search promises of
the *current* task, so the invariant says that whatever is cheaper than a plan
yet to be processed is forbidden already (`CheaperAreForbidden`), hence was
processed (`ForbiddenFiles`), hence delivered if relevant (`Counted`). A plan
that has been found but not yet reformulated must not be forbidden (`FoundIsNew`),
or it would be counted twice. `NoFaults` says for a run without faults that no
file is cut off and that the loop ends only with all plans forbidden, which with
the rest gives `CompleteAtEnd`. One lemma per action shows that the invariant is
preserved. For the refinement, delivered plans are the copies in the final folder;
each action changes them as `Deliver` does or not at all.

Assumption: `ConstantAssumption`, that the plans of a class have the same cost
and are finitely many. Classes of reorderings need not be disjoint, and there
may be infinitely many plans. What the calls do is part of the actions: `Plan`
finds a cheapest plan that is not forbidden, or nothing if there is none
(`SolvedCorrect` and `FailedCorrect`), `Reformulate` saves what it forbids
(`ForbiddenCorrect` below).

### The graph of plans

`PlansGraphProofs` proves, for every task, every cheapest plan without loops,
every limit and every set of generators:

| Theorem | States |
|---|---|
| `InvariantHolds` | `Spec => []Inv` |
| `IndexesCorrect` | `Spec => []IndexesAgree`: the origins of each operator are those of its edges, and edges lead from nodes to nodes |
| `DistancesCorrect` | `Spec => []DistancesAreExact`: from the first pruning on, the distance of a node is the cost of the cheapest way to the goal |
| `SavedHolds` | `Spec => []SavedInv` |
| `ForbiddenCorrect` | `Spec => []ForbiddenIsSaved`: the plan that was handed over is in the graph, and unless enough plans were saved, every plan without a loop that the graph forbids was saved |
| `ClosedCorrect` | `Spec => []ClosedUnderSymmetry`: unless enough plans were saved, the images of saved plans are saved |
| `OrdersHold` | `Spec => []OrdersInv` |
| `FilesCorrect` | `Spec => []FilesAreExact`: the saved files are distinct cheapest plans, the plan that was handed over first; all its orders are among them unless enough plans were saved |

Distances. That distances are exact is not inductive: while the first Dijkstra
search runs they are not, and those that the symmetry extension gives to a new
node come from another node, not from a search. What is preserved by every step
is that no distance is *too small*: it is at least the value of each function
that is zero at goals and rises over an operator by no more than its cost
(`Lower`, with `Potentials`). A distance that is also the cost of some way is
then exact. `Settling` is the invariant of Dijkstra's algorithm: what has been
taken from the queue is settled, and every distance is supported by an edge.
`Reaching` says the same of the second search, along edges that lead towards the
goal, and `ExactGraph` is what is left after the pruning. An image of a node has
the distance of the node since the generators preserve costs and goals, hence
potentials.

Saved plans. The depth-first search for the plans of a graph has on its stack
only runs along edges, with their costs (`Entries`); every plan of the graph has
been saved or has an entry on the stack that it begins with (`Searching`); and
since all edges lead along exact distances (`Guided`), a run that reaches the
goal has the cost of the best plan, so that none is dropped. What is in the
files is what is in the set, once each (`Saved`), and all of it is a path of the
graph (`Follow`). For the symmetries, a round of generators that changes nothing
leaves a graph that each generator maps into itself (`Rounds`); the code looks
for the images of the edges of each node while it inserts new nodes into the
table it walks over, so the invariant says which nodes have been visited. At a visited
node that a generator fixes the images are among its own edges, of which the loop
may have met some (`PermuteInserted`); that adds images only. When
the last search is finished, every plan of the graph is saved (`Finished`), in
particular the images of saved plans, which are paths of the graph (`ImageOfRun`).
The set of plans of a graph is recursively defined; `RunsAre` and `PlansAre`
characterize it by runs, again by least counterexamples.

Orders of the plan. An entry of the search for reorderings stands for the
operators along its path, with what is left of the plan as its rest (`OrdersInv`).
Four facts make it exhaustive and count each order once. No label begins with
another or with a plan that was found (`Apart`), so that the children of an entry
lie apart. Every order that is a plan has been found, or begins with the label of
an entry and goes on with no more operators than that entry has left (`Remaining`,
`Fits`: as multisets, since the plan may repeat operators). The cost of the path and that
of the rest are together the best cost, and with potentials no goal is cheaper, so
an entry that reaches a goal is a cheapest plan with nothing but free operators
left (`GoalReached`). And the runs that were counted stay in the graph through
both prunings (`RunIsTight`), so that each of them is saved later: the early stop
leaves at least as many files as were counted.

Assumptions: the task has finitely many states and operators, its costs are
natural numbers, its generators are permutations that preserve successors, costs
and goals; the plan has no loop and meets a goal only at its end, and it is a
cheapest one. The last is stated by a certificate, a function of distances that
shows it (`Potentials`), which for any task and cheapest plan exists.

### Pruning

`EvaluatorProofs` proves, for every list of tasks, every state of theirs and both
variants of stubborn sets:

| Theorem | States |
|---|---|
| `StubbornHolds` | `StubbornSpec => []StubbornInv` |
| `PruningCorrect` | `StubbornSpec => []PruningKeepsPlans`: when the queue is empty, an operator with which a best plan starts is stubborn |

The invariant is about the marks in between. A fact is *guarded* (`Guarded`) when
it is false and all its achievers that may ever become applicable are stubborn.
Some goal is guarded; a stubborn operator that was handled has, if it is not
applicable, a guarded precondition, and, if it is, every active operator that
conflicts with it or may disable it among the stubborn ones, and of each that it
may disable either the operator or a guarded precondition (`IsHandled`). The
expansion core notes the facts for which it has marked the achievers and does not
mark them twice, so these must be guarded too (`MarksAre`). All of this is
preserved when more operators are marked (`MoreGuarded`, `MoreHandled`); `SimpleIs`
and `EcIs` say that handling an operator does what `IsHandled` asks, the latter by
an induction over the loop on the disabled operators (`LoopIs`).

When the queue is empty, the stubborn operators are closed, and `ClosedKeepsPlans`
shows that a best plan starts with one. Follow any best plan as long as its
operators are not stubborn (`OnTheWay`). None of them makes a guarded fact true,
disables a stubborn operator that is applicable, or conflicts with one; and a
stubborn operator that continues a best plan could as well have been applied at
the start (`OnAndOn`, with `SuccessorsCommute` and `StaysApplicable`). So no goal is
reached on the way, and at the state on the way with the least measure the next
operator must be stubborn. It cannot have a guarded precondition, so it was
applicable from the start. The expansion core only looks at *active* operators;
that no others become applicable on the way is `WithinActive`.

The measure is the cost of a plan and, among equally cheap ones, its length,
computed by Bellman and Ford's rounds. That these end and give the least measures
(`DistancesAre`) is proved for any finite set of steps: the rounds lower functions
from a finite set to the numbers, among which any set has a minimal one
(`MinimalFunction`). Plans count whose measure is below `INFTY`, as in the run.

Assumption: `TasksAssumption`, that tasks are well formed. Nothing is assumed of
the order in which operators are handled.

### The landmark-cut heuristic

`EvaluatorProofs` also proves, for every list of tasks (with conditional effects and
operators of cost zero) and every state:

| Theorem | States |
|---|---|
| `LmCutHolds` | `LmCutSpec => []LmCutInv` |
| `LmCutCorrect` | `LmCutSpec => []CutsAreLandmarks`: when an exploration ends, supporters are valid and the costs are hmax of what is left of the costs, every cut is a landmark, no operator is charged more than it costs, and the estimate is at most the cost of a plan |

Costs. That the costs are hmax holds only when the queue is empty; while it is not, they
are too large. As for the distances of the plans graph, what every step preserves is
the other side: no *potential*, a function that is zero in the state and that no operator
raises by more than it costs, is above the costs (`NeverBelow`, `IsPotential`). In the
first exploration each relaxed operator counts the preconditions that are not yet
closed (`FirstHolds`, `Open`), and what is closed costs no more than anything in the
queue. In the repair the order of costs no longer helps: operators have become cheaper
in the middle. There the cost recorded for an operator bounds all its preconditions and,
with its own cost, its effects (`Supported`), and it is the cost of the supporter unless
the supporter has an entry in the queue with its new cost (`MidHolds`, `Current`).
The code updates an operator only when its supporter is popped; this says why
that is enough. With an empty queue the costs are themselves the largest potential, and
`HmaxHolds` shows that the rounds of the definition of hmax end there.

Cuts. If the goal costs something, the propositions before the goal zone hold the state
and not the goal, and no operator leaves them but those of the cut, which all cost
something (`Separates`, `CutIs`, from the supporters and nothing else). So without the
operators of the cut the goal cannot be reached even if nothing is deleted
(`AddedStays`, `CutIsLandmark`). A free operator may have no supporter at all,
which the code provides for and `GoalZone` does too.

The estimate. What operators cost is what is left and what they were charged
(`CutsHold`). The invariant says that the charges already pay for the total: there is
a function of *states* that is zero at goals, that no transition lowers by more than its
operator was charged, and that is at least the total in the state
(`PartitionHolds`). A cut adds its cost to this function in the states whose facts are all
before the goal zone: to leave them an operator of the cut is needed, which has been
charged (`PartitionGrows`). Such a function is never above the distance to the goal
(`PartitionBounds`, with what the proof about pruning knows of the distances). A dead end has
the value `INFTY`, which any function of this kind may have where no goal can be
reached (`DeadEndHolds`).

Assumption: `TasksAssumption` again. Of the queue nothing is assumed but that it yields
one of the cheapest entries.

### The Cartesian abstractions

The last part of `EvaluatorProofs` is about `Cegar`, for every list of tasks, every
combination of subtasks, both kinds of costs and every limit, whichever plan is found
and whichever split is picked:

| Theorem | States |
|---|---|
| `CegarHolds` | `CegarSpec => []CegarInv` |
| `AbstractionCorrect` | `CegarSpec => []AbstractionIsExact`: the sets of an abstraction are a partition of the states, its transitions are exactly those of the task, the initial state and all goal states are where they should be, and no distance is too large |

Transitions. Some state of `a` is led into `b` by an operator exactly if the sets agree
with what the operator asks for and sets, variable by variable (`Links`, `LinksAre`).
So a split in one variable changes only conditions on that variable, and the three
kinds of rewiring give exactly the links of the parts (`IncomingOfIs`,
`OutgoingOfIs`, `LoopsOfIs`, `RewiredAre`). This needs one value per variable in
conditions and effects (`IsConsistent`), for otherwise no single value comes after an
operator.

Splits. That every split leaves two sets that are not empty is an assertion of the code
(`AbstractState::split`), and it is not obvious: it depends on what a flaw is. The plan
can be followed up to its first flaw (`FollowedIs`), so the state is in the abstract
state that is split. If an operator is not applicable or leads elsewhere, what is wanted
meets the abstract state because the abstract transition exists (`StepFails`).
If the goal is missing in the end, the wanted value is there because an abstract goal
state has the goal in it (`GoalsHold`). This last fact has an exception, on which the
invariant turns: after facts that are unreachable before the only goal were separated,
*all* states are goals, and some have neither the goal nor a state that can be reached
before it (`Beyond`). No plan that fails in its last state ends there: it has
passed no goal, so it has reached only facts that are possible before it
(`EndsBefore`). Then "v2 is never the new initial state and v1 is never a goal state"
(`abstraction.cc:202`) holds too, and all goal states stay covered (`GoalSplit`,
`Covers`).

Distances. The search is steered by distances that are updated along each plan and
inherited by parts. The distance of the whole is a potential of the refined
abstraction (`RefineGuides`), and along a cheapest plan the extracted distances
are the true ones at most (`ExtractedIs`, by induction from its end; it uses that a
plan visits no state twice). This in turn needs costs that are not negative, which is
the second assertion the invariant carries: no operator is charged more than it
costs, for general costs too (`SaturatedIs`, `RemainingCostsAre`).

Assumptions: `TasksAssumption` and `CegarAssumption` (section 2). That the *sum* of the
functions is admissible (`CegarIsAdmissible`) is left to TLC: with general costs what
is left of a cost can grow, with large enough costs up to `INFTY` (in the code, out of
the range of `int`), so that a proof needs a bound on costs that the code does
not state.

### Only model-checked

- The heuristics and abstractions other than `LmCut`, `StubbornSets` and
  `AbstractionIsExact` (`EstimatesAdmissible`, which compares celmcut with hmax and hm,
  `ExplorationIsExact`, `CegarIsAdmissible`, and the properties of `MergeAndShrink`,
  `PatternDatabases` and `Landmarks`), and the translator: most of them compute with
  recursive operators, as the code does, which the prover cannot reason about. In
  `Relaxation`, `LmCut` and `Cegar` these are recursive functions instead; what
  `Relaxation` does with them (dominated operators, the early stop, ff) is still left
  to TLC.
- Liveness (`Termination` in three modules), since fairness and `ENABLED` are
  out of the prover's reach.

## 5. Findings

- **Reorderings end the run** (`topk_reorderings`). A reformulation that dumps
  as many plans as asked for writes no task, and the loop takes this for "all
  plans are found" (`plan.py:308`) although the limit is commented to make that
  impossible (`iterative/planners.py:150`). A plan with that many reorderings
  ends the run with relevant plans never looked for.
- **Not the shortest** (`eager_search_shortest`). `shortest=true`, which the
  other planners of `iterative/planners.py` set, is documented to "obtain
  shortest solution by tie breaking with distance from goal"
  (`eager_search.cc:438`). The distance is the one from the initial state, and a
  path of the same cost with fewer steps that is found later changes neither the
  parent nor the distance (`eager_search.cc:234`): of a plan of three steps and
  one of four at the same cost, the search returns the longer. (Together with
  symmetries the option fails the assertion `heuristics.size() == 1` at
  `eager_search.cc:89` in debug builds; no run is about that.)
- **Relevant but not justified** (`follow_plan_justified`). Plans "are required
  to be relevant (perfectly-justified)" (`README.md:7`), but a plan is filtered
  only if a part of it costs less (`plan_manager.py:217`): with actions of cost
  zero, a plan with an action that can be left out is delivered. In tasks whose
  actions all cost something the two agree, since then a part of a plan always
  costs less (`VerdictIsRight`).

- **Not consistent** (`cegar_consistent`). The additive CEGAR heuristic is
  documented as consistent (`additive_cartesian_heuristic.cc:90`, with a comment
  in doubt). A function that is zero in the initial state is dropped
  (`cost_saturation.cc:163`) after its saturated costs have been charged; with
  `use_general_costs` (the default) these may be negative, so that an operator
  after which the dropped function rises is dearer for the others than it is.
  The run shows an operator of cost 0 over which the estimate falls from 5 to 0.
  It stays admissible (`CegarIsAdmissible`), and A\* reopens.

- **Not admissible** (`lmcount_admissible`). Landmark count is documented as
  admissible with `admissible=true` (`landmark_count_heuristic.cc:307`). A
  disjunctive landmark that turns out to be a simple one is changed in place
  (`landmark_factory_rpg_sasp.cc:190`): orders to its children are dropped, greedy
  necessary orders from its parents stay, although they were found for the
  disjunction. In the run a fact that was needed for the disjunction is lost with
  the first operator of the cheapest plan (cost 5), counts as needed again since
  the simple landmark is not reached, and has no achiever left: the state is a
  dead end for the heuristic, and an optimal search with it returns a plan of
  cost 6.

Noted while modelling, without a run: the assertion "we have exactly one plan"
(`plan.py:108-109`) fails when the folder holds files of an earlier run, whose
deletion is commented out at `plan.py:68`. The loop of label reduction "until no more
labels can be reduced" ends when all factors but one brought nothing in a row
(`label_reduction.cc:231`); if no reduction came before, the last factor has not
been asked, and less is reduced than documented, which does no other harm.
Shrinking by bisimulation stops as soon as it has
the number of groups it may have, in the middle of splitting one, so that only
the first state moves to the last new group (`shrink_bisimulation.cc:318-327`).
hm ignores the conditions of effects. `get_fact_name` of the multiset task
asserts `fact.value <= 1`, which counters of two and more violate in debug
builds. `exit(-1)` in `plan_manager.py:253` skips the cleanup that
`--clean-local-folder` promises, so the local folder stays (`ProcessNoVerdict`). The bound of the search is documented as exclusive
(`search_engine.cc:105`) but is only compared when operators are applied, so an
initial state that is a goal is a plan of cost 0 under bound 0.

Of the translator: types are predicates only after the checks of a condition
have been built (`pddl_types.py:10-16`, `conditions.py:269-275`), so that a
solvable task whose condition has a type as a predicate becomes unsolvable.
Derived predicates that are recursive and needed only negatively are computed as
a greatest fixpoint. `unbalanced_renamings` (`invariants.py:353-380`) tests
constants by a conjunction where a disjunction is meant, so that a group may be
accepted that is not exclusive. `ensure_inequality` (`invariants.py:97-104`)
never adds a clause, which only refuses more candidates. Axiom layers on a
positive cycle are not what the documentation of `SASAxiom` says. The comment on
join keys at `build_model.py:45-47` does not fit what `greedy_join` builds. The
goal's variables are never renamed apart. The tasks of `planner_call` avoid the
inputs that trigger these.

## 6. What is not modelled

Whole components:

- **Driver and limits** (`driver/`): `TopK` has what the loop sees of it, namely
  that its exit code says nothing. Portfolios and the division of time among
  components are not modelled.
- **State registry and packer** (`state_registry.cc`, `algorithms/int_packer.cc`):
  states are abstract in `EagerSearch` and functions in `SasTask`.
- **Potentials, operator counting, cea, cg and the plain lmcut**: potentials and
  operator counting are linear programs that an external solver solves.
- **Other search engines and open lists**: no call of the top-k loop uses them.
- **Plan file tools, options, build files and tests**: text conversions and
  command lines without state that outlives a call.

Most lines of the repository are in these and in vendored code (bliss, tree.hh),
which is why the modules, though they cover the planner from the loop down to
its heuristics, cover a small share of all lines.

Parts of components that are otherwise modelled:

- *Top-k loop*: the other classes of `--planner`. (Their `finalize(self,
  plan_manager)` does not take the arguments that `plan.py` calls it with.) The
  plan extension call, which top-k does not make.
- *Graph of plans*: the reorderings `NEIGHBOURS_INTERFERE`, `NAIVE_ALL` and
  `NAIVE_ALL_DFS`, and the greedy cleaning, none of which is on by default.
- *Search*: multi-path dependent evaluators, preferred operators, pruning, cost
  types other than normal, and DKS, the other symmetry-based search; the planner
  calls of the loop use none of them.
- *Structural symmetries*: finding the generators, which the vendored library
  bliss does on a graph of the task. `SymmetryAssumption` is what is needed of
  them.
- *Multiset reformulations*: names, mutexes and the SAS file that is written; the
  call that reads plans and dumps a graph.
- *Translator*: the lexer, the text of the output file and its statistics, types
  of quantified variables that are alternatives, and the regression tests.
- *Delete relaxation*: axioms, and the cache of estimates.
- *Merge-and-shrink*: merge strategies and the order of labels; whichever pair
  they choose is covered.
- *CEGAR*: the strategies that pick a split (any split is covered), the limits on
  transitions and memory (`Stop` covers their effect), and facts combined for
  landmarks.
- *Landmarks*: cost sharing by a linear program, preferred operators, axioms,
  mutexes between variables, and interference between conjunctive landmarks.
  Reasonable orders of a factory that is merged escape the check of
  `admissible=true`; the properties do not cover them.
- *Pattern databases*: the genetic, greedy and combo generators, which choose
  patterns; the match tree, whose result is `Regression`.
- *Relevance check*: the text of PDDL files, and `check_relevance.py`, an older
  program that the loop does not call. That two runs on the same domain write
  the same `-follow-plan.pddl` is listed as a hazard and planned.

Hazards without a property, besides those of `PROJECT.json`: a task with
infinitely many irrelevant plans, on which only a time limit ends the loop; a time limit kills
the driver script but not the planner it started (`planner_call.py:38`), whose
files the program never reads again; and the exit inside `process_new_plans`
noted above.

## 7. Plan

Done, in this order: `GraphForbidTask` and its proofs, `TopK`, `PlansGraph`,
`EagerSearch` with `Orbits` and its proofs, `FollowPlan` and its proofs,
`ForbidTasks`, `SasTask` and the evaluators, `Evaluation`, the translator and
`PlannerCall`, the proofs of `ForbidTasks`, `TopK` and `PlansGraph`, those of the
reorderings and of the plan that is traced back, and those of `StubbornSets`,
`LmCut` and the abstractions of `Cegar`. Next:

1. **`FollowPlanFiles`**: two runs of the loop that share the compiled files,
   every interleaving of write, read and removal.
2. **Loop for top-quality and diverse planning**: `enough_plans_found` and the
   bound of the other planner classes, as far as their calls succeed.
3. **State packing** as a pure algorithm: what is set is read back, neighbours
   are kept, with words of few bits.
4. **Driver**: components, their limits of time, and which exit code wins.
