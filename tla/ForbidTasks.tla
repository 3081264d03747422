---------------------------- MODULE ForbidTasks -----------------------------
(***************************************************************************)
(* The reformulations of forbid_iterative_search.cc that forbid plans as   *)
(* multisets of operators: the call first adds the images of the plans it  *)
(* has read under the generators of the symmetry group, a frontier at a    *)
(* time, and then builds MultisetForbidReformulatedTask from the union of  *)
(* the plans or MultisetsForbidReformulatedTask from all of them, unless   *)
(* it has as many plans as were asked for.  PlanForbidReformulatedTask is  *)
(* built from one plan.  The runs of the task that was built follow.       *)
(*                                                                         *)
(* The parent task is a deterministic transition system.  A reformulated   *)
(* operator is a copy of an operator of the parent with more preconditions *)
(* and effects, functions on the extra variables.                          *)
(***************************************************************************)
EXTENDS Integers, Sequences, FiniteSets, SequencesExt

CONSTANTS State, NumOps, s0, Goal, Succ, \* the parent task, as in GraphForbidTask
          Inputs,   \* sequences of different plans that may be read
          Groups,   \* sequences of generators, permutations of the operators
          Kinds,    \* subset of {"plan", "multiset", "multisets"}
          Limits,   \* values of number_of_plans, -1 for none
          MaxLen    \* bound on the length of the runs that are explored

Op == 0 .. NumOps - 1

ASSUME TaskAssumption ==
  /\ NumOps \in Nat /\ DOMAIN Succ \subseteq State \X Op /\ s0 \in State /\ Goal \subseteq State
  /\ \A x \in DOMAIN Succ : Succ[x] \in State
  /\ Inputs \subseteq Seq(Seq(Op)) /\ Kinds \subseteq {"plan", "multiset", "multisets"}
  /\ Groups \subseteq Seq([Op -> Op])
  /\ \A G \in Groups : \A i \in DOMAIN G : \A o \in Op : \E k \in Op : G[i][k] = o
  /\ \A G \in Groups : \A i \in DOMAIN G : \A k, l \in Op : G[i][k] = G[i][l] => k = l
  /\ Limits \subseteq Nat \cup {-1}

VARIABLES
  kind, gens, number_of_plans, \* the options
  input,        \* the plans that were read
  pc,           \* "read", "round", "extend", "build", "task" or "exited"
  plans,        \* current_plans
  plans_sets,   \* the multisets of these plans
  frontier, new_frontier, \* plans to permute, and those found in this round
  generator,    \* the generator that is applied,
  position,     \* and the plan of the frontier (of the input) that is next
  extra,        \* values of the variables added by the reformulation
  cur,          \* values of the variables of the parent
  run           \* history: operators of the parent applied so far

options == <<kind, gens, number_of_plans, input>>
call == <<plans, plans_sets, frontier, new_frontier, generator, position>>
vars == <<options, pc, call, extra, cur, run>>

-----------------------------------------------------------------------------
(* Multisets of operators.                                                 *)

plan_to_multiset(p) == [o \in Op |-> Cardinality({i \in DOMAIN p : p[i] = o})]

Within(m, n) == \A o \in Op : m[o] <= n[o]

MaxOf(S) == CHOOSE n \in S : \A k \in S : k <= n

\* multiset_union over all plans; also max_count.
multiset_union(M) == [o \in Op |-> MaxOf({m[o] : m \in M} \cup {0})]

multisets == {plan_to_multiset(plans[i]) : i \in DOMAIN plans}

-----------------------------------------------------------------------------
(* reformulate_and_dump_multiset.                                          *)

enough_plans_found == number_of_plans # -1 /\ Len(plans) >= number_of_plans

Permuted(p, sigma) == [i \in DOMAIN p |-> sigma[p[i]]]

\* Plans that are equal as multisets are permuted only once.
ReadPlan ==
  /\ pc = "read" /\ position \in DOMAIN input
  /\ LET p == input[position] m == plan_to_multiset(p) IN
     /\ plans_sets' = plans_sets \cup {m}
     /\ frontier' = IF m \in plans_sets THEN frontier ELSE Append(frontier, p)
  /\ position' = position + 1
  /\ UNCHANGED <<options, pc, plans, new_frontier, generator, extra, cur, run>>

AllRead ==
  /\ pc = "read" /\ position \notin DOMAIN input
  /\ pc' = "round"
  /\ UNCHANGED <<options, call, extra, cur, run>>

StartRound ==
  /\ pc = "round"
  /\ pc' = IF enough_plans_found THEN "build" ELSE "extend"
  /\ new_frontier' = <<>> /\ generator' = 1 /\ position' = 1
  /\ UNCHANGED <<options, plans, plans_sets, frontier, extra, cur, run>>

PermutePlan ==
  /\ pc = "extend" /\ generator \in DOMAIN gens /\ position \in DOMAIN frontier
  /\ LET p == Permuted(frontier[position], gens[generator]) m == plan_to_multiset(p) IN
     /\ plans_sets' = plans_sets \cup {m}
     /\ IF m \in plans_sets THEN UNCHANGED <<plans, new_frontier>>
        ELSE plans' = Append(plans, p) /\ new_frontier' = Append(new_frontier, p)
  /\ position' = position + 1
  /\ UNCHANGED <<options, pc, frontier, generator, extra, cur, run>>

\* The other generators are left out when there are enough plans.
NextGenerator ==
  /\ pc = "extend" /\ generator \in DOMAIN gens /\ position \notin DOMAIN frontier
  /\ generator' = IF enough_plans_found THEN Len(gens) + 1 ELSE generator + 1
  /\ position' = 1
  /\ UNCHANGED <<options, pc, plans, plans_sets, frontier, new_frontier, extra, cur, run>>

\* Mutant: the frontier is kept.
MutEndOfRound ==
  /\ pc = "extend" /\ generator \notin DOMAIN gens
  /\ pc' = IF new_frontier = <<>> THEN "build" ELSE "round"
  /\ UNCHANGED <<options, call, extra, cur, run>>

\* The new plans are the frontier of the next round, if there are any.
EndOfRound ==
  /\ pc = "extend" /\ generator \notin DOMAIN gens
  /\ pc' = IF new_frontier = <<>> THEN "build" ELSE "round"
  /\ frontier' = IF new_frontier = <<>> THEN frontier ELSE new_frontier
  /\ UNCHANGED <<options, plans, plans_sets, new_frontier, generator, position, extra, cur, run>>

-----------------------------------------------------------------------------
(* The reformulated tasks.  possible and plan_id_still_possible are the    *)
(* variables <<"possible", _>>, the counters <<"count", operator>> and the *)
(* positions in the plan <<"following", position>>.                        *)

possible(p) == <<"possible", p>>
count(o) == <<"count", o>>
following(i) == <<"following", i>>

Copy(o, pre, eff) == [op |-> o, pre |-> pre, eff |-> eff]
Only(x, v) == [y \in {x} |-> v]
All(X, v) == [y \in X |-> v]
And(f, g) == [y \in DOMAIN f \cup DOMAIN g |-> IF y \in DOMAIN f THEN f[y] ELSE g[y]]
Nothing == <<>>

\* Mutant: only the first position of an operator.
MutPositions(p, o) == {following((CHOOSE i \in DOMAIN p : p[i] = o /\ \A j \in 1 .. i - 1 : p[j] # o) - 1)}

\* PlanForbidReformulatedTask, of plan p.
Positions(p, o) == {following(i - 1) : i \in {j \in DOMAIN p : p[j] = o}}
PlanVariables(p) == And(All({possible(1), following(0)}, 1), All({following(i) : i \in DOMAIN p}, 0))
PlanCopies(p) ==
       {Copy(o, Nothing, Only(possible(1), 0)) : o \in Op \ Range(p)}
  \cup {Copy(o, Only(possible(1), 0), Nothing) : o \in Range(p)}
  \cup {Copy(o, And(Only(possible(1), 1), All(Positions(p, o), 0)), Only(possible(1), 0)) : o \in Range(p)}
  \cup {Copy(p[i], All({possible(1), following(i - 1)}, 1),
             And(Only(following(i - 1), 0), Only(following(i), 1))) : i \in DOMAIN p}

\* The counts at which one more application is counted.
Counted(n) == 0 .. n - 1

\* MultisetForbidReformulatedTask, of multiset m.
On(m) == {o \in Op : m[o] > 0}
MultisetVariables(m) == And(Only(possible(1), 1), All({count(o) : o \in On(m)}, 0))
MultisetCopies(m) ==
       {Copy(o, Nothing, Only(possible(1), 0)) : o \in Op \ On(m)}
  \cup {Copy(o, Only(possible(1), 0), Nothing) : o \in On(m)}
  \cup {Copy(o, And(Only(possible(1), 1), Only(count(o), m[o])), Only(possible(1), 0)) : o \in On(m)}
  \cup UNION {{Copy(o, And(Only(possible(1), 1), Only(count(o), n)), Only(count(o), n + 1)) :
                 n \in Counted(m[o])} : o \in On(m)}

\* The plan of multiset m is left by one more application of o after n.
Leaves(m, o, n) == m[o] = n

\* MultisetsForbidReformulatedTask, of the multisets M; one variable of each
\* suffices for plans of the same multiset.
MultisetsVariables(M) ==
  And(All({possible(m) : m \in M}, 1), All({count(o) : o \in On(multiset_union(M))}, 0))
MultisetsCopies(M) ==
  LET max_count == multiset_union(M)
      Discarding(N) == All({possible(m) : m \in N}, 0)
  IN   {Copy(o, Nothing, Discarding(M)) : o \in Op \ On(max_count)}
  \cup {Copy(o, Only(count(o), max_count[o]), Discarding(M)) : o \in On(max_count)}
  \cup UNION {{Copy(o, Only(count(o), n),
                    And(Only(count(o), n + 1), Discarding({m \in M : Leaves(m, o, n)}))) :
                 n \in Counted(max_count[o])} : o \in On(max_count)}

Variables ==
  CASE kind = "plan" -> PlanVariables(input[1])
    [] kind = "multiset" -> MultisetVariables(multiset_union(multisets))
    [] kind = "multisets" -> MultisetsVariables(multisets)

Copies ==
  CASE kind = "plan" -> PlanCopies(input[1])
    [] kind = "multiset" -> MultisetCopies(multiset_union(multisets))
    [] kind = "multisets" -> MultisetsCopies(multisets)

\* No task is written when there are enough plans.
Build ==
  /\ pc = "build" /\ ~ enough_plans_found
  /\ extra' = Variables
  /\ pc' = "task"
  /\ UNCHANGED <<options, call, cur, run>>

NoTask ==
  /\ pc = "build" /\ enough_plans_found
  /\ pc' = "exited"
  /\ UNCHANGED <<options, call, extra, cur, run>>

Applicable(c) ==
  <<cur, c.op>> \in DOMAIN Succ /\ \A x \in DOMAIN c.pre : extra[x] = c.pre[x]

Apply(c) ==
  /\ pc = "task" /\ Len(run) < MaxLen
  /\ Applicable(c)
  /\ cur' = Succ[<<cur, c.op>>]
  /\ extra' = And(c.eff, extra)
  /\ run' = Append(run, c.op)
  /\ UNCHANGED <<options, pc, call>>

GoalReached ==
  cur \in Goal /\ \A x \in DOMAIN extra : x[1] = "possible" => extra[x] = 0

-----------------------------------------------------------------------------
Init ==
  /\ kind \in Kinds /\ gens \in Groups /\ number_of_plans \in Limits /\ input \in Inputs
  /\ kind = "plan" => Len(input) = 1 /\ gens = <<>> /\ number_of_plans = -1
  /\ pc = IF kind = "plan" THEN "build" ELSE "read"
  /\ plans = input /\ plans_sets = {}
  /\ frontier = <<>> /\ new_frontier = <<>> /\ generator = 1 /\ position = 1
  /\ extra = <<>> /\ cur = s0 /\ run = <<>>

Next ==
  \/ ReadPlan \/ AllRead \/ StartRound \/ PermutePlan \/ NextGenerator \/ EndOfRound
  \/ Build \/ NoTask
  \/ \E c \in Copies : Apply(c)

Spec == Init /\ [][Next]_vars

-----------------------------------------------------------------------------
(* Properties.                                                             *)

\* The multiset of the plans of multiset m after sigma.
PermutedCounts(m, sigma) == [o \in Op |-> m[CHOOSE k \in Op : sigma[k] = o]]

Symmetric(M) ==
  /\ \A i \in DOMAIN input : plan_to_multiset(input[i]) \in M
  /\ \A m \in M : \A i \in DOMAIN gens : PermutedCounts(m, gens[i]) \in M

\* What the task is to forbid: with one plan, its prefixes; with the union,
\* what is within the union of all plans; otherwise what is within one of them.
Forbidden(p) ==
  CASE kind = "plan" -> IsPrefix(p, input[1])
    [] kind = "multiset" -> Within(plan_to_multiset(p), multiset_union(multisets))
    [] kind = "multisets" -> \E m \in multisets : Within(plan_to_multiset(p), m)

\* The plans that are forbidden as multisets are the smallest set that has the
\* plans that were read and all their images under the generators: permuting
\* only the newest plans misses nothing.  The solutions of the reformulated
\* task are those of its parent that are not forbidden, counted in whatever
\* order operators are applied and however many plans share the counters.
SolutionsAreExact ==
  /\ pc = "build" /\ kind # "plan" /\ ~ enough_plans_found =>
       /\ Symmetric(multisets)
       /\ \A M \in SUBSET multisets : Symmetric(M) => M = multisets
  /\ pc = "task" => (GoalReached <=> cur \in Goal /\ ~ Forbidden(run))

\* The reformulated task neither loses a run of its parent nor has it twice,
\* and every extra variable stays in the domain the task declares for it.
OneCopyApplies ==
  pc = "task" =>
    /\ \A o \in Op : <<cur, o>> \in DOMAIN Succ =>
         Cardinality({c \in Copies : c.op = o /\ Applicable(c)}) = 1
    /\ DOMAIN extra = DOMAIN Variables
    /\ \A x \in DOMAIN extra :
         extra[x] \in 0 .. IF x[1] = "count" THEN multiset_union(multisets)[x[2]] ELSE 1
=============================================================================
