----------------------------- MODULE FollowPlan ------------------------------
(***************************************************************************)
(* The relevance check of a plan (PlanManager.process_new_plans with       *)
(* parse of pddl_parser/PDDL.py): the plan file is compiled into a task    *)
(* that follows the plan and may leave actions out, the planner is run on  *)
(* it, and the plan is filtered if what it finds is cheaper.               *)
(*                                                                         *)
(* The new task has an object of type order for every line of the file     *)
(* and one for the start, and the predicates                               *)
(*    last(i)             the line that was followed last                  *)
(*    before(i, j)        line i comes before line j                       *)
(*    plan-action(o, i)   line i of the file is the action o               *)
(* Every action gets the parameters ?olast and ?ocurrent.  State and Op    *)
(* are the states and ground actions of the original task.                 *)
(***************************************************************************)
EXTENDS Integers, Sequences, FiniteSets

CONSTANTS State, Op,
          s0, Goal,
          Succ,       \* partial function <<state, action>> -> state
          Cost,       \* Cost[o]
          PlanFiles,  \* the files that are checked: their lines
          Comment,    \* the line with the cost of the plan
          Words       \* number of words in N2W

ASSUME TaskAssumption ==
  /\ s0 \in State /\ Goal \subseteq State
  /\ DOMAIN Succ \subseteq State \X Op
  /\ \A x \in DOMAIN Succ : Succ[x] \in State
  /\ Cost \in [Op -> Nat]
  /\ Comment \notin Op /\ Words \in Nat

ASSUME FilesAssumption == PlanFiles \subseteq Seq(Op \cup {Comment})

VARIABLES
  plan,         \* lines of the plan file, mapped back to the original names
  pc,           \* how far the check has come
  before,       \* facts of the new problem that never change
  plan_action,
  cur,          \* state of the original task's facts
  last,         \* the order objects for which last holds
  followed,     \* history: lines followed by the run of the new task
  through,      \* history: states in which they were followed
  ra_cost,      \* cost of the run
  verdict

facts == <<before, plan_action>>
vars == <<plan, pc, facts, cur, last, followed, through, ra_cost, verdict>>

Order == 0 .. Len(plan)

-----------------------------------------------------------------------------
(* The compilation.                                                        *)

\* Mutant: a line comes only before the next but one.
MutBefore == {x \in Order \X Order : x[1] + 1 < x[2]}

before_facts == {x \in Order \X Order : x[1] < x[2]}

plan_action_facts == {<<plan[i], i>> : i \in {j \in 1 .. Len(plan) : plan[j] # Comment}}

Init ==
  /\ plan \in PlanFiles
  /\ pc = "parse"
  /\ before = {} /\ plan_action = {}
  /\ cur = s0 /\ last = {}
  /\ followed = <<>> /\ through = <<>> /\ ra_cost = 0
  /\ verdict = "none"

Parse ==
  /\ pc = "parse" /\ Len(plan) < Words
  /\ before' = before_facts /\ plan_action' = plan_action_facts
  /\ last' = {0}
  /\ pc' = "search"
  /\ UNCHANGED <<plan, cur, followed, through, ra_cost, verdict>>

\* There is no word for the number of the last line: IndexError.
NoWord ==
  /\ pc = "parse" /\ Len(plan) >= Words
  /\ pc' = "raised"
  /\ UNCHANGED <<plan, facts, cur, last, followed, through, ra_cost, verdict>>

-----------------------------------------------------------------------------
(* The new task.                                                           *)

\* Preconditions of action o with the parameters olast and ocurrent.
Applicable(o, olast, ocurrent) ==
  /\ <<cur, o>> \in DOMAIN Succ
  /\ olast \in last
  /\ <<olast, ocurrent>> \in before
  /\ <<o, ocurrent>> \in plan_action

\* Mutant: the effect (not (last ?olast)) is missing.
MutLastAfter(olast, ocurrent) == last \cup {ocurrent}

\* Effects on last.
LastAfter(olast, ocurrent) == (last \ {olast}) \cup {ocurrent}

Apply(o, olast, ocurrent) ==
  /\ pc = "search" /\ Applicable(o, olast, ocurrent)
  /\ cur' = Succ[<<cur, o>>]
  /\ last' = LastAfter(olast, ocurrent)
  /\ followed' = Append(followed, ocurrent)
  /\ through' = Append(through, cur)
  /\ ra_cost' = ra_cost + Cost[o]
  /\ UNCHANGED <<plan, pc, facts, verdict>>

-----------------------------------------------------------------------------
(* The verdict.  The planner returns a cheapest plan of the new task: the  *)
(* run has come to a goal and none costs less (EagerSearch is the module   *)
(* about that).                                                            *)

\* The costs at which a goal is reached from a state of the original facts
\* when only last(i) holds, for each line i, found from the last line backwards.
GoalCosts(comes_before, action_of) ==
  LET from[i \in Nat] ==
        [s \in State |->
           (IF s \in Goal THEN {0} ELSE {}) \cup
           UNION {{Cost[x[1]] + c : c \in from[x[2]][Succ[<<s, x[1]>>]]} :
                    x \in {y \in action_of : /\ <<i, y[2]>> \in comes_before
                                             /\ <<s, y[1]>> \in DOMAIN Succ}}]
  IN from[0][s0]

RunCosts == GoalCosts(before, plan_action)

CostOf(lines) ==
  LET sum[i \in 0 .. Len(lines)] ==
        IF i = 0 THEN 0 ELSE sum[i - 1] + IF lines[i] = Comment THEN 0 ELSE Cost[lines[i]]
  IN sum[Len(lines)]

\* Mutant: plans are filtered also if nothing cheaper is found.
MutFilters(rc, c) == rc <= c

Filters(rc, c) == rc < c

Check ==
  /\ pc = "search" /\ cur \in Goal
  /\ \A c \in RunCosts : ra_cost <= c
  /\ verdict' = IF Filters(ra_cost, CostOf(plan)) THEN "filtered" ELSE "relevant"
  /\ pc' = "checked"
  /\ UNCHANGED <<plan, facts, cur, last, followed, through, ra_cost>>

Next ==
  \/ Parse \/ NoWord \/ Check
  \/ \E o \in Op, olast \in Order, ocurrent \in Order : Apply(o, olast, ocurrent)

Spec == Init /\ [][Next]_vars

-----------------------------------------------------------------------------
(* Properties.                                                             *)

\* Every variable has a value of its type.
TypeOK ==
  /\ plan \in Seq(Op \cup {Comment})
  /\ pc \in {"parse", "search", "raised", "checked"}
  /\ before \subseteq Order \X Order /\ plan_action \subseteq Op \X Order
  /\ cur \in State /\ last \subseteq Order
  /\ followed \in Seq(Order) /\ through \in Seq(State)
  /\ Len(through) = Len(followed)
  /\ ra_cost \in Nat
  /\ verdict \in {"none", "filtered", "relevant"}

StateAfter(i) == IF i < Len(through) THEN through[i + 1] ELSE cur

\* A run of the new task is a part of the plan that the original task can
\* execute: its lines come in the order of the file, none twice, none that is
\* a comment, each applied in the state that the one before led to.
RunsArePartsOfPlan ==
  /\ Len(through) = Len(followed)
  /\ StateAfter(0) = s0
  /\ \A i \in 1 .. Len(followed) :
       /\ followed[i] \in 1 .. Len(plan) /\ plan[followed[i]] \in Op
       /\ i > 1 => followed[i - 1] < followed[i]
       /\ <<through[i], plan[followed[i]]>> \in DOMAIN Succ
       /\ StateAfter(i) = Succ[<<through[i], plan[followed[i]]>>]

\* Conversely every part of the plan is a run: whatever line comes next and
\* can be executed has exactly one ground action.
EveryLineCanFollow ==
  pc = "search" =>
    \A j \in 1 .. Len(plan) :
      /\ plan[j] \in Op /\ <<cur, plan[j]>> \in DOMAIN Succ
      /\ \A i \in 1 .. Len(followed) : followed[i] < j
      => /\ \E olast \in Order : Applicable(plan[j], olast, j)
         /\ \A o, p \in Op, k, l \in Order :
              Applicable(o, k, j) /\ Applicable(p, l, j) => o = p /\ k = l

\* The parts of the plan, by definition: the lines in S executed in order.
Leads(S) ==
  LET run[i \in 0 .. Len(plan)] ==
        IF i = 0 THEN {s0}
        ELSE IF i \notin S THEN run[i - 1]
        ELSE {Succ[<<s, plan[i]>>] : s \in {r \in run[i - 1] : <<r, plan[i]>> \in DOMAIN Succ}}
  IN \E s \in run[Len(plan)] : s \in Goal

Actions == {i \in 1 .. Len(plan) : plan[i] # Comment}
PartCost(S) == CostOf([i \in 1 .. Len(plan) |-> IF i \in S THEN plan[i] ELSE Comment])

\* A plan is filtered iff actions can be left out so that the rest is a plan
\* that costs less.
VerdictIsRight ==
  pc = "checked" =>
    (verdict = "filtered" <=>
       \E S \in SUBSET Actions : Leads(S) /\ PartCost(S) < PartCost(Actions))

\* A plan that counts as relevant is perfectly justified: no actions can be
\* left out of it (README.md).
RelevantIsJustified ==
  verdict = "relevant" => \A S \in SUBSET Actions : Leads(S) => S = Actions
=============================================================================
