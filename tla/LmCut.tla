------------------------------- MODULE LmCut --------------------------------
(***************************************************************************)
(* The landmark-cut heuristic (ce_lm_cut_landmarks.cc, and for tasks       *)
(* without conditional effects lm_cut_landmarks.cc, which is the same      *)
(* there): hmax with supporters, a cut between the state and the goal zone,*)
(* the costs of the cut reduced, and hmax repaired from the cut on, until  *)
(* the goal costs nothing.                                                 *)
(*                                                                         *)
(* The queue is as in Relaxation.  The zones of a round do not depend on   *)
(* the order in which they are explored and are computed in one step.      *)
(***************************************************************************)
EXTENDS Relaxation

VARIABLES
  lTask, lState,
  lOps,     \* relaxed operators
  lPc,      \* "first", "cut", "incremental", "done", or "idle"
  lCost,    \* remaining cost of every group; a group belongs to an operator
  lHmax,    \* h_max_cost of every proposition, -1 if its status is UNREACHED
  lUnsat, lSupporter, lSupporterCost, \* of every relaxed operator
  lQueue,
  lTotal,   \* cost of the landmarks so far
  lCuts     \* history: the landmarks, <<set of operators, cost>>

lmCutVars == <<lTask, lState, lOps, lPc, lCost, lHmax, lUnsat, lSupporter, lSupporterCost, lQueue, lTotal, lCuts>>

artificial_precondition == <<0, 0>>
artificial_goal == <<0, 1>>
NoProposition == <<0, 2>>

-----------------------------------------------------------------------------
(* Relaxed operators.  The group of the artificial goal operator is 0.     *)

RelaxedOperator(group, pre, effs) ==
  [group |-> group, pre |-> IF pre = <<>> THEN <<artificial_precondition>> ELSE pre, effs |-> effs]

\* One relaxed operator for the unconditional effects, one for each other.
build_relaxed_operator(T, o) ==
  LET op == T.ops[o]
      always == {e.fact : e \in {f \in Range(op.effs) : f.cond = {}}}
  IN (IF always = {} THEN <<>> ELSE <<RelaxedOperator(o, op.pre, always)>>)
     \o FlattenSeq([i \in DOMAIN op.effs |->
                      LET e == op.effs[i] IN
                      IF e.cond = {} THEN <<>>
                      ELSE <<RelaxedOperator(o, op.pre \o SetToSeq(e.cond), {e.fact})>>])

relaxed_operators ==
  [t \in DOMAIN Tasks |-> LET T == Tasks[t] IN
     FlattenSeq([o \in OpsOf(T) |-> build_relaxed_operator(T, o)])
     \o <<RelaxedOperator(0, SetToSeq(T.goal), {artificial_goal})>>]

Propositions(T) == FactsOf(T) \cup {artificial_precondition, artificial_goal}

CostOf(cost, r) == IF r.group = 0 THEN 0 ELSE cost[r.group]

\* Costs and queue of x after some offers <<cost, proposition>>.  Of several to
\* one proposition the least stays: entries of others are outdated at once.
enqueue_all_necessary(x, offers) ==
  LET better == {o \in offers : x.hmax[o[2]] = -1 \/ x.hmax[o[2]] > o[1]}
      best == {o \in better : \A n \in better : n[2] = o[2] => o[1] <= n[1]}
  IN [x EXCEPT !.hmax = [p \in DOMAIN @ |->
                           IF \E o \in best : o[2] = p THEN (CHOOSE o \in best : o[2] = p)[1] ELSE @[p]],
               !.queue = @ \cup best]

\* What relaxed operator r offers when its dearest precondition has a cost.
Offers(cost, r, supporter_cost) == {<<supporter_cost + CostOf(cost, r), q>> : q \in r.effs}

SourcesOf(s) == FactsIn(s) \cup {artificial_precondition}

LmCutInit(t, s) ==
  LET T == Tasks[t] R == relaxed_operators[t]
      none == [hmax |-> [p \in Propositions(T) |-> -1], queue |-> {}]
      x == enqueue_all_necessary(none, {<<0, p>> : p \in SourcesOf(s)})
  IN
  /\ lTask = t /\ lState = s /\ lOps = R /\ lPc = "first"
  /\ lCost = [o \in OpsOf(T) |-> T.ops[o].cost]
  /\ lHmax = x.hmax /\ lQueue = x.queue
  /\ lUnsat = [i \in DOMAIN R |-> Len(R[i].pre)]
  /\ lSupporter = [i \in DOMAIN R |-> NoProposition]
  /\ lSupporterCost = [i \in DOMAIN R |-> INFTY]
  /\ lTotal = 0 /\ lCuts = <<>>

Cheapest == {e \in lQueue : \A f \in lQueue : e[1] <= f[1]}
Outdated(e) == lHmax[e[2]] < e[1]

-----------------------------------------------------------------------------
(* first_exploration.                                                      *)

PopFirst ==
  /\ lPc = "first"
  /\ \E e \in Cheapest :
       LET p == e[2]
           unsat == [i \in DOMAIN lOps |-> lUnsat[i] - Occurrences(lOps[i], p)]
           ready == {i \in DOMAIN lOps : lUnsat[i] > 0 /\ unsat[i] = 0}
           after == enqueue_all_necessary([hmax |-> lHmax, queue |-> lQueue \ {e}],
                                          UNION {Offers(lCost, lOps[i], lHmax[p]) : i \in ready})
       IN IF Outdated(e)
          THEN lQueue' = lQueue \ {e} /\ UNCHANGED <<lHmax, lUnsat, lSupporter, lSupporterCost>>
          ELSE /\ lHmax' = after.hmax /\ lQueue' = after.queue /\ lUnsat' = unsat
               /\ lSupporter' = [i \in DOMAIN lOps |-> IF i \in ready THEN p ELSE lSupporter[i]]
               /\ lSupporterCost' = [i \in DOMAIN lOps |-> IF i \in ready THEN lHmax[p] ELSE lSupporterCost[i]]
  /\ UNCHANGED <<lTask, lState, lOps, lPc, lCost, lTotal, lCuts>>

\* The state is a dead end, or another cut follows until the goal is free.
EndExploration ==
  /\ lPc \in {"first", "incremental"} /\ lQueue = {}
  /\ lPc' = IF lHmax[artificial_goal] \in {-1, 0} THEN "done" ELSE "cut"
  /\ lTotal' = IF lHmax[artificial_goal] = -1 THEN INFTY ELSE lTotal
  /\ UNCHANGED <<lTask, lState, lOps, lCost, lHmax, lUnsat, lSupporter, lSupporterCost, lQueue, lCuts>>

-----------------------------------------------------------------------------
(* A cut.                                                                  *)

\* The supporters of the achievers of Z that are free.
GoalZone(Z) ==
  {lSupporter[i] : i \in {j \in DOMAIN lOps : lOps[j].effs \cap Z # {} /\ CostOf(lCost, lOps[j]) = 0}} \ {NoProposition}

mark_goal_plateau(zone) ==
  LET marked[Z \in SUBSET Propositions(Tasks[lTask])] ==
        LET next == Z \cup GoalZone(Z) IN IF next = Z THEN Z ELSE marked[next]
  IN marked[zone]

IntoZone(i, Z) == lOps[i].effs \cap Z # {}

\* What the operators reach that have their supporter in B and no effect in
\* the goal zone Z.
BeforeGoalZone(B, Z) == UNION {lOps[i].effs : i \in {j \in DOMAIN lOps : lSupporter[j] \in B /\ ~ IntoZone(j, Z)}}

\* The propositions before the goal zone Z.
second_exploration(sources, Z) ==
  LET explored[B \in SUBSET Propositions(Tasks[lTask])] ==
        LET next == B \cup BeforeGoalZone(B, Z) IN IF next = B THEN B ELSE explored[next]
  IN explored[sources]

IntoZoneFrom(B, Z) == {i \in DOMAIN lOps : lSupporter[i] \in B /\ IntoZone(i, Z)}
CutBefore(Z) == IntoZoneFrom(second_exploration(SourcesOf(lState), Z), Z)
cut == CutBefore(mark_goal_plateau({artificial_goal}))

\* Mutant: the dearest operator decides.
MutCutCost(c) == Largest({CostOf(lCost, lOps[i]) : i \in c})

CutCost(c) == Least({CostOf(lCost, lOps[i]) : i \in c})

Charged(c) == {lOps[i].group : i \in c}

\* Mutant: only the operators of the cut are looked at again.
MutRepaired(c) == c

\* The operators whose cost changes with the cut: all those of its groups.
Repaired(c) == {i \in DOMAIN lOps : \E j \in c : lOps[j].group = lOps[i].group}

\* The cost is subtracted once from every group, and the effects of its
\* operators are reached again.
Charge(c, cut_cost) ==
  LET cost == [o \in DOMAIN lCost |-> IF o \in Charged(c) THEN lCost[o] - cut_cost ELSE lCost[o]]
      x == enqueue_all_necessary([hmax |-> lHmax, queue |-> lQueue],
                                 UNION {Offers(cost, lOps[i], lSupporterCost[i]) :
                                          i \in {j \in Repaired(c) : lSupporter[j] # NoProposition}})
  IN /\ lCost' = cost /\ lTotal' = lTotal + cut_cost
     /\ lCuts' = Append(lCuts, <<Charged(c), cut_cost>>)
     /\ lHmax' = x.hmax /\ lQueue' = x.queue

Cut ==
  /\ lPc = "cut"
  /\ \E c \in {cut} : Charge(c, CutCost(c))
  /\ lPc' = "incremental"
  /\ UNCHANGED <<lTask, lState, lOps, lUnsat, lSupporter, lSupporterCost>>

-----------------------------------------------------------------------------
(* first_exploration_incremental.                                          *)

\* update_h_max_supporter: the first of the dearest preconditions, unless the
\* supporter q still is one of them.
NewSupporter(r, hmax, q) ==
  LET dearest == {j \in DOMAIN r.pre : \A k \in DOMAIN r.pre : hmax[r.pre[k]] <= hmax[r.pre[j]]}
  IN IF \E j \in dearest : r.pre[j] = q THEN q ELSE r.pre[Least(dearest)]

\* Operator i after its supporter p was popped at a cost.
Update(x, i, p, cost) ==
  LET q == NewSupporter(lOps[i], x.hmax, p)
      y == [x EXCEPT !.supporter[i] = q, !.supporter_cost[i] = x.hmax[q]]
  IN IF x.supporter[i] # p \/ x.supporter_cost[i] <= cost THEN x
     ELSE IF x.hmax[q] = x.supporter_cost[i] THEN y
     ELSE enqueue_all_necessary(y, Offers(lCost, lOps[i], x.hmax[q]))

\* The operators that p is a precondition of, one after the other.
Updated(x, p, cost) ==
  LET updated[i \in 0 .. Len(lOps)] ==
        IF i = 0 THEN x
        ELSE IF p \in Range(lOps[i].pre) THEN Update(updated[i - 1], i, p, cost) ELSE updated[i - 1]
  IN updated[Len(lOps)]

PopIncremental ==
  /\ lPc = "incremental"
  /\ \E e \in Cheapest :
       LET p == e[2]
           x == [hmax |-> lHmax, queue |-> lQueue \ {e}, supporter |-> lSupporter, supporter_cost |-> lSupporterCost]
           y == IF Outdated(e) THEN x ELSE Updated(x, p, lHmax[p])
       IN lHmax' = y.hmax /\ lQueue' = y.queue /\ lSupporter' = y.supporter /\ lSupporterCost' = y.supporter_cost
  /\ UNCHANGED <<lTask, lState, lOps, lPc, lCost, lUnsat, lTotal, lCuts>>

LmCutNext == PopFirst \/ EndExploration \/ Cut \/ PopIncremental

LmCutIdle(t) ==
  /\ lTask = t /\ lState = <<>> /\ lOps = <<>> /\ lPc = "idle"
  /\ lCost = <<>> /\ lHmax = <<>> /\ lUnsat = <<>> /\ lSupporter = <<>> /\ lSupporterCost = <<>>
  /\ lQueue = {} /\ lTotal = 0 /\ lCuts = <<>>

LmCutSpec ==
  /\ \E t \in DOMAIN Tasks : LmCutIdle(t) \/ \E s \in StatesOf(Tasks[t]) : LmCutInit(t, s)
  /\ [][LmCutNext]_lmCutVars

-----------------------------------------------------------------------------
(* Properties.                                                             *)

\* validate_h_max, which the code leaves out as too expensive: every operator
\* all of whose preconditions are reached has a dearest one of them as its
\* supporter, at its current cost; and the costs are hmax for what is left of
\* the costs of the operators.
SupportersAreValid ==
  \A i \in DOMAIN lOps :
    LET pre == Range(lOps[i].pre) IN
    IF \E p \in pre : lHmax[p] = -1
    THEN lUnsat[i] > 0 /\ lSupporter[i] = NoProposition
    ELSE /\ lUnsat[i] = 0 /\ lSupporter[i] \in pre
         /\ lSupporterCost[i] = lHmax[lSupporter[i]]
         /\ \A p \in pre : lHmax[p] <= lSupporterCost[i]

HmaxIsValid ==
  LET c == Hmax(Tasks[lTask], lCost, lState) IN
  \A f \in FactsOf(Tasks[lTask]) : c[f] = IF lHmax[f] = -1 THEN INFTY ELSE Least({lHmax[f], INFTY})

\* Without operators of the cut the goal cannot be reached, even if nothing is
\* ever deleted.
IsLandmark(T, s, O) == ~ (T.goal \subseteq RelaxedReach(T, OpsOf(T) \ O, FactsIn(s)))

\* What the cuts charge an operator.
ChargeOf(cuts, o) ==
  LET charge[k \in 0 .. Len(cuts)] ==
        IF k = 0 THEN 0 ELSE charge[k - 1] + (IF o \in cuts[k][1] THEN cuts[k][2] ELSE 0)
  IN charge[Len(cuts)]

\* Whenever an exploration ends, the repaired costs are valid, and every cut
\* so far is a landmark; all the cuts that have an operator charge it no more
\* than it costs; and what they cost together, the estimate, is at most the
\* cost of a plan.
CutsAreLandmarks ==
  lPc \in {"cut", "done"} => LET T == Tasks[lTask] IN
    /\ SupportersAreValid /\ HmaxIsValid
    /\ \A k \in DOMAIN lCuts : IsLandmark(T, lState, lCuts[k][1])
    /\ \A o \in OpsOf(T) : ChargeOf(lCuts, o) <= T.ops[o].cost
    /\ lPc = "done" /\ GoalDistance[lTask][lState] < INFTY => lTotal <= GoalDistance[lTask][lState]
=============================================================================
