---------------------------- MODULE MCPlansGraph ----------------------------
(* Six tasks:  operators that commute, with and without symmetries; loops   *)
(* of cost zero and a goal that is left again; plans that are symmetric but *)
(* no reorderings of each other; an order that is a dead end; a goal that   *)
(* holds from the start.                                                    *)
EXTENDS PlansGraph

Identity(S) == [x \in S |-> x]

\* Swaps x with y and leaves the rest alone.
Swap(S, x, y) == [Identity(S) EXCEPT ![x] = y, ![y] = x]

\* Three operators that each reach a fact of their own, in any order.
CubeStates == SUBSET {"a", "b", "c"}
CubeSym(x, y) ==
  [op |-> Swap({"a", "b", "c"}, x, y),
   state |-> [s \in CubeStates |-> {Swap({"a", "b", "c"}, x, y)[f] : f \in s}]]
Cube(syms) ==
  [states |-> CubeStates, init |-> {}, goal |-> {{"a", "b", "c"}, {"a", "b"}},
   ops |-> {"a", "b", "c"}, cost |-> [o \in {"a", "b", "c"} |-> IF o = "c" THEN 0 ELSE 1],
   succ |-> [x \in CubeStates \X {"a", "b", "c"} |-> x[1] \cup {x[2]}],
   syms |-> syms]

\* Operators of cost zero that go in a circle, and one that leaves the goal.
Circle ==
  [states |-> 0 .. 4, init |-> 0, goal |-> {3, 4},
   ops |-> {"z", "a", "b"}, cost |-> "z" :> 0 @@ "a" :> 1 @@ "b" :> 0,
   succ |-> <<0, "z">> :> 1 @@ <<1, "z">> :> 2 @@ <<2, "z">> :> 0
            @@ <<0, "a">> :> 3 @@ <<1, "a">> :> 3 @@ <<2, "a">> :> 4
            @@ <<3, "b">> :> 4 @@ <<4, "b">> :> 1,
   syms |-> <<>>]

\* Three ways over different operators:  a cycle that fixes the two ends of
\* all of them, and a swap.
Ways ==
  [states |-> 0 .. 4, init |-> 0, goal |-> {4},
   ops |-> 1 .. 6, cost |-> [o \in 1 .. 6 |-> 1],
   succ |-> [x \in {<<0, o>> : o \in 1 .. 3} |-> x[2]]
            @@ [x \in {<<o, o + 3>> : o \in 1 .. 3} |-> 4],
   syms |-> <<[state |-> [Identity(0 .. 4) EXCEPT ![1] = 2, ![2] = 3, ![3] = 1],
               op |-> <<2, 3, 1, 5, 6, 4>>],
              [state |-> Swap(0 .. 4, 2, 3), op |-> <<1, 3, 2, 4, 6, 5>>]>>]

\* One order of the operators reaches the goal, another one a dead end.
Order ==
  [states |-> 0 .. 3, init |-> 0, goal |-> {2},
   ops |-> {"a", "b"}, cost |-> "a" :> 1 @@ "b" :> 1,
   succ |-> <<0, "a">> :> 1 @@ <<1, "b">> :> 2 @@ <<0, "b">> :> 3
            @@ <<3, "b">> :> 0,
   syms |-> <<>>]

\* Nothing to do.
Solved ==
  [states |-> {0, 1}, init |-> 0, goal |-> {0},
   ops |-> {"a"}, cost |-> "a" :> 1, succ |-> <<0, "a">> :> 1, syms |-> <<>>]

MCTasks == {Cube(<<>>), Cube(<<CubeSym("a", "b")>>), Circle, Ways, Order, Solved}

MCPlansOf == [t \in MCTasks |-> CheapestPlans(t)]

MCLimits == {1, 3, 9}
=============================================================================
