---------------------------- MODULE TopKPromise -----------------------------
(***************************************************************************)
(* What a relevant top-k planner promises about the set of plans it has    *)
(* delivered so far: the set only grows, one relevant plan at a time, up   *)
(* to the number of plans, and a plan is delivered only when every cheaper *)
(* relevant plan has been.  So whatever is delivered when the planner      *)
(* stops or is stopped is a set of cheapest relevant plans.  The order is  *)
(* promised only if every verdict on relevance can be read and the folder  *)
(* holds no plan of an earlier run.  TopK implements this.                 *)
(***************************************************************************)
EXTENDS Naturals, FiniteSets

CONSTANTS Plan,        \* plans of the task
          Cost         \* Cost[p] is the cost of plan p

VARIABLES number_of_plans, \* number of plans requested
          in_order,    \* plans are delivered in the order of their costs
          relevant,    \* the plans that are relevant
          delivered    \* the plans handed out so far

Cheapest(p, S) == \A q \in relevant : Cost[q] < Cost[p] => q \in S

Init == relevant \in SUBSET Plan /\ delivered = {}

Deliver(p) ==
  /\ Cardinality(delivered) < number_of_plans
  /\ p \in relevant \ delivered
  /\ in_order => Cheapest(p, delivered)
  /\ delivered' = delivered \cup {p}
  /\ UNCHANGED <<number_of_plans, in_order, relevant>>

Next == \E p \in Plan : Deliver(p)

Spec == Init /\ [][Next]_<<number_of_plans, in_order, relevant, delivered>>
=============================================================================
