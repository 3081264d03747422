--------------------------- MODULE ForbiddenPlans ---------------------------
(***************************************************************************)
(* What a forbid reformulation promises, with nothing said of how: the     *)
(* runs of a planning task, and which of them are solutions once the plans *)
(* that a plans graph contains are taken out.  GraphForbidTask is shown to *)
(* implement this specification.                                           *)
(***************************************************************************)
EXTENDS Naturals, Sequences

CONSTANTS State,    \* states of the parent task
          Op,       \* operators of the parent task
          s0,       \* initial state of the parent task
          Goal,     \* goal states of the parent task
          Succ,     \* partial function <<state, operator>> -> state
          MaxLen    \* bound on the length of the runs that are explored

VARIABLES edges,    \* edges of the plans graph, never changed
          cur,      \* state the run has reached
          plan,     \* operators applied so far
          trace,    \* trace[i] is the state in which plan[i] was applied
          solved    \* is the run so far a solution of the reformulated task?

vars == <<edges, cur, plan, trace, solved>>

Follows(E, p, t) ==
  \A i \in 1 .. Len(p) : \E e \in E : e.from = t[i] /\ e.op = p[i]

Solution(E, s, p, t) == s \in Goal /\ ~ Follows(E, p, t)

Init ==
  /\ cur = s0 /\ plan = <<>> /\ trace = <<>>
  /\ solved = Solution(edges, s0, <<>>, <<>>)

Apply(o) ==
  /\ Len(plan) < MaxLen
  /\ <<cur, o>> \in DOMAIN Succ
  /\ cur' = Succ[<<cur, o>>]
  /\ plan' = Append(plan, o)
  /\ trace' = Append(trace, cur)
  /\ solved' = Solution(edges, cur', plan', trace')
  /\ UNCHANGED edges

Next == \E o \in Op : Apply(o)

Spec == Init /\ [][Next]_vars
=============================================================================
