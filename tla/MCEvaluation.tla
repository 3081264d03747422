---------------------------- MODULE MCEvaluation ----------------------------
(***************************************************************************)
(* Small tasks, each with what makes some of the evaluators hard.          *)
(***************************************************************************)
EXTENDS Evaluation

E(cond, v, d) == [cond |-> cond, fact |-> <<v, d>>]
O(pre, effs, cost) == [pre |-> pre, effs |-> effs, cost |-> cost]
F(v, d) == <<v, d>>

\* Two ways, one of which costs nothing but deletes what the other needs.
Ways ==
  [dom |-> <<3, 2>>, goal |-> {F(1, 2), F(2, 1)},
   ops |-> <<O(<<F(1, 0)>>, <<E({}, 1, 1), E({}, 2, 0)>>, 0),
             O(<<F(1, 1)>>, <<E({}, 1, 2)>>, 1),
             O(<<F(1, 0), F(2, 1)>>, <<E({}, 1, 2)>>, 3),
             O(<<F(2, 0), F(1, 0)>>, <<E({}, 2, 1)>>, 2),
             O(<<F(2, 0)>>, <<E({}, 2, 1)>>, 3)>>]

\* A chain without an operator for the last step from one side.
DeadEnds ==
  [dom |-> <<2, 3>>, goal |-> {F(2, 2)},
   ops |-> <<O(<<F(1, 1)>>, <<E({}, 2, 1)>>, 1),
             O(<<F(2, 1)>>, <<E({}, 2, 2), E({}, 1, 0)>>, 1),
             O(<<F(2, 2)>>, <<E({}, 1, 1)>>, 0)>>]

\* Operators with effects under different conditions, one of them with two
\* effects on a variable and thus its precondition twice.
Conditional ==
  [dom |-> <<2, 2, 2>>, goal |-> {F(1, 1), F(2, 1), F(3, 1)},
   ops |-> <<O(<<>>, <<E({F(1, 0)}, 1, 1), E({F(1, 1)}, 2, 1)>>, 2),
             O(<<F(2, 1)>>, <<E({}, 3, 1), E({F(3, 0)}, 1, 0)>>, 1),
             O(<<F(1, 0), F(1, 0)>>, <<E({}, 3, 1), E({F(2, 0)}, 1, 0), E({F(2, 1)}, 1, 1)>>, 4)>>]

\* Several operators achieve the goals at the same costs.
Ties ==
  [dom |-> <<2, 2, 2>>, goal |-> {F(1, 1), F(3, 1)},
   ops |-> <<O(<<>>, <<E({}, 1, 1)>>, 1),
             O(<<>>, <<E({}, 2, 1)>>, 1),
             O(<<F(1, 1), F(2, 1)>>, <<E({}, 3, 1)>>, 1),
             O(<<F(2, 1)>>, <<E({}, 3, 1), E({}, 1, 0)>>, 2),
             O(<<F(1, 1)>>, <<E({}, 3, 1), E({}, 2, 0)>>, 2)>>]

Joins ==
  [dom |-> <<2, 2, 2, 2>>, goal |-> {F(3, 1), F(4, 1)},
   ops |-> <<O(<<>>, <<E({}, 1, 1)>>, 3),
             O(<<>>, <<E({}, 2, 1)>>, 2),
             O(<<F(1, 1), F(2, 1)>>, <<E({}, 3, 1)>>, 1),
             O(<<F(2, 1)>>, <<E({}, 4, 1)>>, 2),
             O(<<F(3, 1)>>, <<E({}, 4, 1), E({}, 2, 0)>>, 0)>>]

\* Conditional effects of one operator on both sides of a cut.
Groups ==
  [dom |-> <<2, 2, 2>>, goal |-> {F(2, 1), F(3, 1)},
   ops |-> <<O(<<>>, <<E({F(1, 1)}, 2, 1), E({F(2, 1)}, 3, 1), E({}, 1, 1)>>, 2),
             O(<<F(1, 1)>>, <<E({}, 3, 1)>>, 1),
             O(<<F(3, 1)>>, <<E({F(1, 0)}, 2, 1)>>, 1)>>]

\* A truck with two places and a package that can also be sent.
Package ==
  [dom |-> <<2, 3, 2>>, goal |-> {F(2, 2), F(3, 1)},
   ops |-> <<O(<<F(1, 0)>>, <<E({}, 1, 1)>>, 1),
             O(<<F(1, 1)>>, <<E({}, 1, 0)>>, 1),
             O(<<F(1, 0), F(2, 0)>>, <<E({}, 2, 1)>>, 1),
             O(<<F(1, 1), F(2, 1)>>, <<E({}, 2, 2)>>, 1),
             O(<<F(2, 0)>>, <<E({}, 2, 1)>>, 3),
             O(<<F(2, 2)>>, <<E({}, 3, 1)>>, 0),
             O(<<F(1, 1), F(2, 2)>>, <<E({}, 3, 1)>>, 0)>>]

\* Values that are not reached and values that do not lead to the goal.
Traps ==
  [dom |-> <<3, 3>>, goal |-> {F(1, 1), F(2, 2)},
   ops |-> <<O(<<F(1, 0)>>, <<E({}, 1, 1)>>, 2),
             O(<<F(2, 0)>>, <<E({}, 2, 1)>>, 1),
             O(<<F(2, 1), F(1, 0)>>, <<E({}, 2, 2)>>, 4),
             O(<<F(2, 1), F(1, 1)>>, <<E({}, 2, 2)>>, 1),
             O(<<F(2, 0)>>, <<E({}, 1, 2)>>, 0),
             O(<<F(2, 1)>>, <<E({}, 1, 2), E({}, 2, 0)>>, 0)>>]

\* Each goal can be reached, both cannot.
Unsolvable ==
  [dom |-> <<2, 2, 2>>, goal |-> {F(1, 1), F(2, 1)},
   ops |-> <<O(<<F(3, 0)>>, <<E({}, 1, 1), E({}, 3, 1)>>, 1),
             O(<<F(3, 0)>>, <<E({}, 2, 1), E({}, 3, 1)>>, 1)>>]

\* The first goal costs nothing, but what is done for the second makes it dear.
Detour ==
  [dom |-> <<2, 2, 2, 2>>, goal |-> {F(1, 1), F(4, 1)},
   ops |-> <<O(<<F(1, 0), F(2, 0)>>, <<E({}, 2, 1)>>, 0),
             O(<<F(2, 1)>>, <<E({}, 4, 1)>>, 0),
             O(<<F(2, 1), F(3, 0)>>, <<E({}, 3, 1)>>, 5),
             O(<<F(2, 1), F(3, 1)>>, <<E({}, 1, 1)>>, 0),
             O(<<F(2, 0)>>, <<E({}, 1, 1)>>, 0)>>]

\* Two goals that share what they need; one effect on two goals.
Shared ==
  [dom |-> <<2, 2, 2, 3>>, goal |-> {F(1, 1), F(2, 1), F(3, 1)},
   ops |-> <<O(<<F(4, 1)>>, <<E({}, 1, 1)>>, 2),
             O(<<F(4, 2)>>, <<E({}, 2, 1), E({}, 3, 0)>>, 1),
             O(<<F(4, 0)>>, <<E({}, 4, 1)>>, 1),
             O(<<F(4, 1)>>, <<E({}, 4, 2)>>, 2),
             O(<<F(1, 1)>>, <<E({}, 3, 1)>>, 1),
             O(<<>>, <<E({}, 4, 0), E({}, 3, 1)>>, 3),
             O(<<F(2, 1)>>, <<E({}, 2, 0), E({}, 4, 2), E({}, 1, 1)>>, 1)>>]

\* A value that is left for either of two others; all goals follow from each,
\* two of them at once.
Either ==
  [dom |-> <<2, 3, 2, 2>>, goal |-> {F(2, 0), F(3, 1), F(4, 1)},
   ops |-> <<O(<<F(1, 0), F(2, 0)>>, <<E({}, 2, 1)>>, 2),
             O(<<F(1, 0), F(2, 0)>>, <<E({}, 2, 2), E({}, 1, 1)>>, 1),
             O(<<F(2, 1)>>, <<E({}, 3, 1), E({}, 4, 1)>>, 1),
             O(<<F(2, 2)>>, <<E({}, 4, 1), E({}, 3, 1)>>, 2),
             O(<<F(2, 1)>>, <<E({}, 2, 0)>>, 1),
             O(<<F(2, 2)>>, <<E({}, 2, 0)>>, 0)>>]

\* Each goal is needed for the other.
Nowhere ==
  [dom |-> <<2, 2>>, goal |-> {F(1, 1), F(2, 1)},
   ops |-> <<O(<<F(1, 1)>>, <<E({}, 2, 1)>>, 1), O(<<F(2, 1)>>, <<E({}, 1, 1)>>, 1)>>]

\* Each goal is undone by what reaches the next.
Circle ==
  [dom |-> <<2, 2, 2>>, goal |-> {F(1, 1), F(2, 1), F(3, 1)},
   ops |-> <<O(<<>>, <<E({}, 1, 1), E({}, 2, 0)>>, 1),
             O(<<>>, <<E({}, 2, 1), E({}, 3, 0)>>, 1),
             O(<<>>, <<E({}, 3, 1), E({}, 1, 0)>>, 1)>>]

\* One goal needs either of two values, the other one of them, which is
\* reached from the initial value or from the other.
Converted ==
  [dom |-> <<2, 3, 2, 3>>, goal |-> {F(3, 1), F(4, 2)},
   ops |-> <<O(<<F(1, 0)>>, <<E({}, 2, 1)>>, 3),
             O(<<F(1, 0)>>, <<E({}, 2, 2), E({}, 1, 1)>>, 1),
             O(<<F(2, 2)>>, <<E({}, 2, 1)>>, 1),
             O(<<F(2, 1)>>, <<E({}, 3, 1)>>, 1),
             O(<<F(2, 2)>>, <<E({}, 3, 1)>>, 1),
             O(<<F(2, 1), F(4, 0)>>, <<E({}, 4, 1)>>, 1),
             O(<<F(4, 1)>>, <<E({}, 4, 2)>>, 1)>>]

MCTasks == <<Ways, DeadEnds, Conditional, Ties, Joins, Groups, Package, Traps, Unsolvable, Detour, Shared, Either, Nowhere, Circle>>

AllRelaxations == {"hmax", "add", "lmcut"}
MCEvaluators ==
  <<AllRelaxations \cup {"simple", "ec", "lmcount"},
    AllRelaxations \cup {"simple", "ec"},
    AllRelaxations \cup {"merge_and_shrink", "lmcount"},
    AllRelaxations \cup {"simple", "ec"},
    AllRelaxations \cup {"simple", "ec"},
    AllRelaxations,
    {"merge_and_shrink", "cegar", "simple", "ec", "ipdb"},
    {"merge_and_shrink", "cegar", "simple", "ec", "lmcount"},
    {"merge_and_shrink", "cegar", "ipdb"},
    {"merge_and_shrink", "cegar", "simple", "ec", "ipdb"},
    {"simple", "ec", "ipdb"},
    {"lmcount"},
    {"lmcount"},
    {"lmcount"}>>

\* Methods and size limits are combined with each way to shrink.
MCMasOptions ==
  {[shrink |-> s, method |-> m[1], reverse |-> m[2], early |-> m[3], late |-> ~ m[3], highF |-> TRUE, highH |-> FALSE,
    states |-> n[1], before |-> n[2], threshold |-> n[3]] :
     s \in {"bisimulation", "greedy", "use_up", "fh", "random"},
     m \in {<<"two", TRUE, TRUE>>, <<"all", TRUE, FALSE>>, <<"fixpoint", FALSE, TRUE>>},
     n \in {<<-1, -1, 1>>, <<5, -1, -1>>, <<-1, 3, 2>>}}

MCCegarOptions ==
  {[subtasks |-> s, use_general_costs |-> g] : s \in {<<"original">>, <<"goals">>, <<"landmarks", "goals">>}, g \in BOOLEAN}

Finder(kind) ==
  [kind |-> kind, m |-> 1, causal |-> FALSE, disjunctive |-> TRUE, conjunctive |-> TRUE, orders |-> TRUE, reasonable |-> FALSE]
Alone(f, admissible, alm) == [factories |-> <<f>>, merged |-> <<>>, admissible |-> admissible, alm |-> alm]
hm2 == [Finder("hm") EXCEPT !.m = 2]

\* Every factory with each of its options, merged ones, and reasonable orders.
MCLandmarkOptions ==
  {Alone(f, TRUE, TRUE) : f \in {Finder("exhaust"), Finder("zg"), [Finder("rhw") EXCEPT !.causal = TRUE],
                                 [Finder("rhw") EXCEPT !.disjunctive = FALSE], [hm2 EXCEPT !.conjunctive = FALSE]}}
  \cup {Alone(f, a[1], a[2]) : f \in {Finder("rhw"), Finder("hm"), hm2}, a \in {<<TRUE, TRUE>>, <<TRUE, FALSE>>, <<FALSE, FALSE>>}}
  \cup {[factories |-> <<f, Finder("rhw")>>, merged |-> <<Finder("merged")>>, admissible |-> TRUE, alm |-> TRUE] :
          f \in {Finder("zg"), Finder("exhaust"), hm2}}
  \cup {Alone([Finder(k) EXCEPT !.reasonable = TRUE], a, TRUE) : k \in {"zg", "rhw"}, a \in BOOLEAN}

\* Values but the initial one are of one predicate.
MCPredicateOf(t, f) == IF f[2] = 0 THEN "none" ELSE "at"

\* The task, heuristic and options of a finding.
LandmarkTasks == <<Converted>>
LandmarkEvaluators == <<{"lmcount"}>>
Backchained == {Alone(Finder("rhw"), TRUE, alm) : alm \in BOOLEAN}
=============================================================================
