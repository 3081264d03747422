--------------------------- MODULE MCEagerSearch ----------------------------
(* A task of three interchangeable copies.  From one of the states 1, 2, 3 *)
(* (the start is 3, not the least of its orbit) to 0 for nothing, or at a  *)
(* high cost to 4, 5, 6; from 0 to these for less, on to 7, 8, 9 of        *)
(* another copy and back for nothing, and to the goal 10 or the dead end   *)
(* 11.                                                                     *)
EXTENDS EagerSearch, TLC

MCState == 0 .. 11
Copy == 1 .. 3
To(i) == <<"to", i>>
Move(name) == <<name, 0>>
On(i) == <<"on", i>>
MCOp == {To(i) : i \in Copy} \cup {On(i) : i \in Copy}
        \cup {Move(n) : n \in {"reset", "dear", "back", "finish", "die"}}

\* The operator of that name in each state that has it.
Edges(name, f) == [x \in {<<s, Move(name)>> : s \in DOMAIN f} |-> f[x[1]]]

MCSucc == [x \in {<<0, To(i)>> : i \in Copy} |-> x[2][2] + 3]
       @@ Edges("reset", [s \in 1 .. 3 |-> 0]) @@ Edges("dear", [s \in 1 .. 3 |-> s + 3])
       @@ [x \in {<<s, On(i)>> : s \in 4 .. 6, i \in Copy} \ {<<i + 3, On(i)>> : i \in Copy} |-> x[2][2] + 6]
       @@ Edges("back", [s \in 7 .. 9 |-> s - 3])
       @@ Edges("finish", [s \in 7 .. 9 |-> 10]) @@ Edges("die", [s \in 7 .. 9 |-> 11])
MCCost == [o \in MCOp |-> CASE o[1] = "to" -> 2 [] o[1] = "dear" -> 4 [] o[1] = "finish" -> 3
                             [] OTHER -> 0]
MCGoal == {10}
MCHStar == [s \in MCState |-> CASE s <= 3 -> 5 [] s \in 4 .. 9 -> 3 [] s = 10 -> 0 [] s = 11 -> 99]
MCSteps == [s \in MCState |-> CASE s = 0 -> 3 [] s \in 1 .. 3 -> 4 [] s \in 4 .. 6 -> 2
                                 [] s \in 7 .. 9 -> 1 [] s >= 10 -> 0]

\* Admissible heuristics that do not tell the copies apart.
MCHeuristics == {[s \in MCState |-> CASE s = 0 -> x[1] [] s \in 1 .. 3 -> 5 [] s \in 4 .. 6 -> x[2]
                                       [] s \in 7 .. 9 -> x[3] [] s = 10 -> 0 [] s = 11 -> x[4]] :
                   x \in {0, 5} \X {0, 3} \X {0, 3} \X {0, 99}}

Permuted(p) == [s \in MCState |-> IF s \in 1 .. 9 THEN p[((s - 1) % 3) + 1] + 3 * ((s - 1) \div 3) ELSE s]

\* No symmetries; a rotation alone, whose representatives differ within an
\* orbit; generators of all permutations.
MCGroups == {<<>>, <<Permuted(<<2, 3, 1>>)>>,
             <<Permuted(<<2, 1, 3>>), Permuted(<<1, 3, 2>>)>>}
MCBounds == {5, 8}
MCShortest == BOOLEAN

\* A task in which state 3 is reached at cost 2 in two steps or in three.
MCShortSucc ==   <<0, "a">> :> 1 @@ <<1, "a">> :> 3 @@ <<0, "z">> :> 2 @@ <<2, "z">> :> 4
              @@ <<4, "b">> :> 3 @@ <<3, "a">> :> 5
MCShortState == 0 .. 5
MCShortCost == "a" :> 1 @@ "b" :> 2 @@ "z" :> 0
MCShortGoal == {5}
MCShortHStar == 0 :> 3 @@ 1 :> 2 @@ 2 :> 3 @@ 3 :> 1 @@ 4 :> 3 @@ 5 :> 0
MCShortSteps == 0 :> 3 @@ 1 :> 2 @@ 2 :> 3 @@ 3 :> 1 @@ 4 :> 2 @@ 5 :> 0
MCShortOp == {"a", "b", "z"}
\* Blind search, and a consistent heuristic.
MCShortHeuristics == {[s \in MCShortState |-> 0],
                      0 :> 0 @@ 1 :> 2 @@ 2 :> 0 @@ 3 :> 1 @@ 4 :> 0 @@ 5 :> 0}
MCOn == {TRUE}
MCNoGroups == {<<>>}
=============================================================================
