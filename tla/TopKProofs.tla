----------------------------- MODULE TopKProofs -----------------------------
(***************************************************************************)
(* Proofs about TopK for every task, every number of plans, every set of   *)
(* faults and every folder the run may find: what is forbidden is what was *)
(* processed, what is processed is accounted for, and the plans delivered  *)
(* keep the promise of TopKPromise.                                        *)
(***************************************************************************)
EXTENDS TopK, FiniteSetTheorems, SequenceTheorems, RecursionLemmas, TLAPS

-----------------------------------------------------------------------------
(* The inductive invariant.                                                *)

\* The plan files 1 .. Base are the ones the current task was made from.
Base == IF pc = "plan" THEN plan_counter ELSE so_far

Numbered(n) == DOMAIN local = 1 .. n

Readable(n) == \A i \in 1 .. n : i \in DOMAIN local /\ local[i] \in Plan

Different(S) == \A i, j \in S : local[i] = local[j] => i = j

\* In a new folder, or after the first iteration in any folder.
Clean == new_folder \/ ~ first

Counters ==
  /\ number_of_plans \in Nat \ {0} /\ new_folder \in BOOLEAN
  /\ pc \in {"process_plan", "process_reform"} =>
       at = plan_counter + (IF incomplete THEN 2 ELSE 1)
  /\ pc = "reformulate" => plan_counter = so_far

TaskFiles ==
  /\ pc \in {"plan", "process_plan", "after_plan"} =>
       IF first
       THEN /\ task_counter = -1 /\ Base = 0
            /\ output = (IF pc = "plan" THEN NoFile ELSE {})
       ELSE task_counter # -1 /\ output = NoFile
  /\ pc \in {"reformulate", "process_reform", "after_reform"} => task_counter # -1
  /\ pc = "reformulate" => output = NoFile

\* Plan files are numbered without gaps and only the last of them can be cut
\* off. A used folder may hold too many of them, but then the assertion fails
\* in the first iteration.
FilesAtPlan ==
  pc = "plan" =>
    IF first
    THEN /\ \E n \in Nat : Numbered(n) /\ Readable(n - 1)
         /\ new_folder => DOMAIN local = {}
    ELSE Numbered(plan_counter) /\ Readable(plan_counter)

FilesAtProcessPlan ==
  pc = "process_plan" =>
    /\ Readable(plan_counter)
    /\ ~ incomplete =>
         \E n \in Nat : /\ Numbered(n) /\ plan_counter <= n
                        /\ \A i \in 1 .. n - 1 : i # so_far + 1 => local[i] \in Plan
                        /\ Clean => n <= so_far + 1
    /\ (incomplete /\ plan_counter > so_far) => Numbered(plan_counter)
    /\ Clean => plan_counter <= so_far + 1

FilesAfterPlan ==
  pc = "after_plan" =>
    /\ Readable(plan_counter)
    /\ Clean => plan_counter <= so_far + 1
    /\ (plan_counter = so_far + 1 /\ ~ (first /\ number_of_plans = 1)) => Numbered(plan_counter)

FilesAtReformulate ==
  pc = "reformulate" => Numbered(so_far + 1) /\ Readable(so_far + 1)

FilesAtProcessReform ==
  pc = "process_reform" =>
    /\ Readable(plan_counter)
    /\ ~ incomplete =>
         \E n \in Nat : /\ Numbered(n) /\ so_far + 1 <= n /\ plan_counter <= n
                        /\ Readable(n - 1)
    /\ output # NoFile => (~ incomplete /\ \A i \in DOMAIN local : local[i] \in Plan)

FilesAfterReform ==
  pc = "after_reform" =>
    /\ Readable(plan_counter)
    /\ (output # NoFile /\ ~ enough_plans_found) =>
         (Numbered(plan_counter) /\ plan_counter > so_far)

\* The current task forbids the plans of the files 1 .. Base, one file each.
ForbiddenFiles ==
  (pc # "exited" /\ Forbidden # Broken) =>
    /\ Forbidden = {local[i] : i \in 1 .. Base}
    /\ Different(1 .. Base)

\* The plan that was found is none of them.
FoundIsNew ==
  (/\ pc \in {"process_plan", "after_plan", "reformulate"}
   /\ so_far + 1 \in DOMAIN local /\ local[so_far + 1] \in Plan)
  => Forbidden # Broken /\ local[so_far + 1] \notin Forbidden

\* A new task forbids the plans of all files, one file each.
NewTask ==
  (pc \in {"process_reform", "after_reform"} /\ output \notin {NoFile, Broken}) =>
    /\ output = {local[i] : i \in DOMAIN local}
    /\ Different(DOMAIN local)

\* The last file that has been processed: one more than the counter says while
\* the plan that was forgotten is dumped and processed again.
Top == IF pc \in {"reformulate", "process_reform", "after_reform"} /\ plan_counter = so_far
       THEN so_far + 1 ELSE plan_counter

\* Copies have the plan of their file, also while it is dumped again.
Copies ==
  pc # "exited" =>
    \A f \in {final, filtered} : \A i \in DOMAIN f :
      /\ i <= Top
      /\ (i \in DOMAIN local /\ local[i] \in Plan) => f[i] = local[i]

\* A plan that is counted has one copy.
Counted ==
  pc # "exited" =>
    \A i \in 1 .. plan_counter :
      /\ plan_costs[i] = Cost[local[i]]
      /\ "partial_verdict" \notin faults =>
           \/ i \in DOMAIN final /\ i \notin DOMAIN filtered
           \/ i \in DOMAIN filtered /\ i \notin DOMAIN final

\* What is cheaper than a plan still to be processed is forbidden already.
CheaperAreForbidden ==
  (new_folder /\ pc \in {"process_plan", "after_plan", "reformulate", "process_reform"}) =>
    \A i \in DOMAIN local : (i > so_far /\ local[i] \in Plan) =>
      /\ Forbidden # Broken
      /\ \A r \in Plan : Cost[r] < Cost[local[i]] => r \in Forbidden

FewReorderings == \A p \in Plan : Cardinality(Class[p]) < number_of_plans

\* Without faults only the end of the plans stops the run short.
NoFaults ==
  (faults = {} /\ new_folder /\ pc # "exited") =>
    /\ \A i \in DOMAIN local : local[i] # Broken
    /\ Forbidden # Broken /\ output # Broken
    /\ pc \in {"process_plan", "process_reform"} => ~ incomplete
    /\ (pc = "process_plan" /\ so_far + 1 \notin DOMAIN local) => Plan \subseteq Forbidden
    /\ (pc = "after_plan" /\ plan_counter = so_far /\ ~ enough_plans_found) =>
         Plan \subseteq Forbidden
    /\ (pc \in {"process_reform", "after_reform"} /\ FewReorderings) => output # NoFile

Ended ==
  /\ pc # "exited" => status = "running"
  /\ AssertionHoldsInNewFolder
  /\ CompleteAtEnd

Files ==
  /\ FilesAtPlan /\ FilesAtProcessPlan /\ FilesAfterPlan
  /\ FilesAtReformulate /\ FilesAtProcessReform /\ FilesAfterReform

Inv ==
  /\ TypeOK /\ Counters /\ TaskFiles /\ Files
  /\ ForbiddenFiles /\ FoundIsNew /\ NewTask
  /\ Copies /\ Counted /\ CheaperAreForbidden /\ NoFaults /\ Ended

-----------------------------------------------------------------------------
(* Folders, sequences and sets.                                            *)

LEMMA WithFile ==
  ASSUME NEW f, NEW i, NEW x
  PROVE  /\ DOMAIN With(f, i, x) = DOMAIN f \cup {i}
         /\ With(f, i, x)[i] = x
         /\ \A j \in DOMAIN f : j # i => With(f, i, x)[j] = f[j]
BY DEF With

LEMMA WithoutFile ==
  ASSUME NEW f, NEW i
  PROVE  /\ DOMAIN Without(f, i) = DOMAIN f \ {i}
         /\ \A j \in DOMAIN f : j # i => Without(f, i)[j] = f[j]
BY DEF Without

\* What a folder with one more file of the right kind is.
LEMMA WithIsFolder ==
  ASSUME NEW f, NEW S, IsFolder(f, S), NEW i \in Nat \ {0}, NEW x \in S
  PROVE  IsFolder(With(f, i, x), S)
BY DEF IsFolder, With

LEMMA WithoutIsFolder ==
  ASSUME NEW f, NEW S, IsFolder(f, S), NEW i
  PROVE  IsFolder(Without(f, i), S)
BY DEF IsFolder, Without

\* del self._plan_costs[-1]
LEMMA Forgetting ==
  ASSUME NEW S, NEW s \in Seq(S), s # <<>>
  PROVE  /\ Forget(s) \in Seq(S) /\ Len(Forget(s)) = Len(s) - 1
         /\ \A i \in 1 .. Len(s) - 1 : Forget(s)[i] = s[i]
<1>1. \A i \in 1 .. Len(s) - 1 : s[i] \in S
  OBVIOUS
<1>2. 1 \in Int /\ Len(s) - 1 \in Nat
  BY EmptySeq
<1>3. /\ SubSeq(s, 1, Len(s) - 1) \in Seq(S)
      /\ Len(SubSeq(s, 1, Len(s) - 1)) = (IF 1 <= Len(s) - 1 THEN Len(s) - 1 - 1 + 1 ELSE 0)
      /\ \A i \in 1 .. Len(s) - 1 - 1 + 1 : SubSeq(s, 1, Len(s) - 1)[i] = s[1 + i - 1]
  BY <1>1, <1>2, SubSeqProperties
<1>4. Len(SubSeq(s, 1, Len(s) - 1)) = Len(s) - 1
  <2>1. \A k \in Nat : (IF 1 <= k THEN k - 1 + 1 ELSE 0) = k
    OBVIOUS
  <2>2. QED
    BY <1>2, <1>3, <2>1
<1>5. ASSUME NEW i \in 1 .. Len(s) - 1
      PROVE  SubSeq(s, 1, Len(s) - 1)[i] = s[i]
  <2>1. i \in 1 .. Len(s) - 1 - 1 + 1 /\ 1 + i - 1 = i
    BY <1>2
  <2>2. QED
    BY <1>3, <2>1
<1>6. QED
  BY <1>3, <1>4, <1>5 DEF Forget

\* The values that TypeOK gives to the counters and to the current task.
LEMMA Types ==
  ASSUME TypeOK
  PROVE  /\ plan_counter \in Nat /\ so_far \in Nat /\ so_far <= plan_counter
         /\ at \in Nat /\ at > 0
         /\ Forbidden \in (SUBSET Plan) \cup {Broken}
         /\ task_counter \in Nat \cup {-1}
BY DEF TypeOK, plan_counter, Forbidden

\* A sentinel is neither a set of plans nor a plan.
LEMMA Sentinels ==
  /\ Broken # NoFile /\ Broken \notin Plan /\ NoFile \notin Plan
  /\ Broken \notin SUBSET Plan /\ NoFile \notin SUBSET Plan
BY ConstantAssumption

\* As long as a plan is not forbidden the task has a cheapest one.
LEMMA CheapestPlan ==
  ASSUME NEW F \in SUBSET Plan, Optimal(F) = {}
  PROVE  Plan \subseteq F
<1>1. SUFFICES ASSUME NEW p \in Plan \ F
               PROVE  FALSE
  OBVIOUS
<1> DEFINE Costs == {Cost[q] : q \in Plan \ F}
<1>2. Costs \in SUBSET Nat /\ Costs # {}
  BY <1>1, ConstantAssumption
<1>3. PICK m \in Costs : \A n \in Costs : m <= n
  <2> HIDE DEF Costs
  <2>1. QED
    BY <1>2, LeastNatural
<1>4. PICK q \in Plan \ F : m = Cost[q]
  BY <1>3
<1>5. q \in Optimal(F)
  BY <1>3, <1>4 DEF Optimal
<1>6. QED
  BY <1>5

-----------------------------------------------------------------------------
(* Counting.                                                               *)

\* An enumeration without repetition reaches every element of a finite set
\* with as many elements.
LEMMA Enumerates ==
  ASSUME NEW S, IsFiniteSet(S), NEW q \in [1 .. Cardinality(S) -> S],
         \A i, j \in 1 .. Cardinality(S) : q[i] = q[j] => i = j
  PROVE  \A x \in S : \E i \in 1 .. Cardinality(S) : q[i] = x
<1> DEFINE n == Cardinality(S)
<1>1. n \in Nat
  BY FS_CardinalityType
<1>2. IsFiniteSet(1 .. n) /\ Cardinality(1 .. n) = n
  BY <1>1, FS_Interval
<1>3. q \in Injection(1 .. n, S)
  BY DEF Injection, IsInjective
<1>4. q \in Surjection(1 .. n, S)
  BY <1>2, <1>3, FS_Injection
<1>5. QED
  BY <1>4 DEF Surjection

\* The set of the values of a sequence without repetition has as many elements.
LEMMA CountsFiles ==
  ASSUME NEW f, NEW n \in Nat, \A i, j \in 1 .. n : f[i] = f[j] => i = j
  PROVE  Cardinality({f[i] : i \in 1 .. n}) = n
<1> DEFINE g == [i \in 1 .. n |-> f[i]]
           S == {f[i] : i \in 1 .. n}
<1>1. IsFiniteSet(1 .. n) /\ Cardinality(1 .. n) = n
  BY FS_Interval
<1>2. g \in Bijection(1 .. n, S)
  <2>1. g \in Injection(1 .. n, S)
    BY DEF Injection, IsInjective
  <2>2. g \in Surjection(1 .. n, S)
    BY DEF Surjection
  <2>3. QED
    BY <2>1, <2>2 DEF Bijection
<1>3. ExistsBijection(1 .. n, S)
  BY <1>2 DEF ExistsBijection
<1>4. QED
  BY <1>1, <1>3, FS_Bijection

\* There are no more plans in the results folder than files, and no more
\* files than have been processed.
LEMMA Delivered ==
  ASSUME NEW f, DOMAIN f \subseteq Nat \ {0}, NEW n \in Nat, \A i \in DOMAIN f : i <= n
  PROVE  /\ Cardinality(DOMAIN f) \in Nat /\ Cardinality(DOMAIN f) <= n
         /\ Cardinality({f[i] : i \in DOMAIN f}) <= Cardinality(DOMAIN f)
         /\ IsFiniteSet({f[i] : i \in DOMAIN f})
<1> DEFINE g == [i \in DOMAIN f |-> f[i]]
           S == {f[i] : i \in DOMAIN f}
<1>1. IsFiniteSet(1 .. n) /\ Cardinality(1 .. n) = n
  BY FS_Interval
<1>2. DOMAIN f \in SUBSET (1 .. n)
  OBVIOUS
<1>3. IsFiniteSet(DOMAIN f) /\ Cardinality(DOMAIN f) <= Cardinality(1 .. n)
  BY <1>1, <1>2, FS_Subset
<1>4. g \in Surjection(DOMAIN f, S)
  BY DEF Surjection
<1>5. Cardinality(S) <= Cardinality(DOMAIN f) /\ IsFiniteSet(S)
  <2> HIDE DEF g, S
  <2>1. QED
    BY <1>3, <1>4, FS_Surjection
<1>6. Cardinality(DOMAIN f) \in Nat
  BY <1>3, FS_CardinalityType
<1>7. QED
  BY <1>1, <1>3, <1>5, <1>6

\* The plans of the graph of a plan are finitely many, it is one of them, and
\* they are plans of its class.
LEMMA ClassOf ==
  ASSUME NEW p \in Plan, NEW F
  PROVE  /\ IsFiniteSet({p} \cup (Class[p] \ F))
         /\ Cardinality({p} \cup (Class[p] \ F)) \in Nat
         /\ Cardinality({p} \cup (Class[p] \ F)) > 0
         /\ Cardinality({p} \cup (Class[p] \ F)) <= Cardinality(Class[p])
         /\ Cardinality(Class[p]) \in Nat
<1> DEFINE S == {p} \cup (Class[p] \ F)
<1>1. IsFiniteSet(Class[p]) /\ p \in Class[p]
  BY ConstantAssumption
<1>2. S \in SUBSET Class[p]
  BY <1>1
<1>3. IsFiniteSet(S) /\ Cardinality(S) <= Cardinality(Class[p])
  BY <1>1, <1>2, FS_Subset
<1>4. Cardinality(S) \in Nat /\ Cardinality(Class[p]) \in Nat
  BY <1>1, <1>3, FS_CardinalityType
<1>5. Cardinality(S) # 0
  BY <1>3, FS_EmptySet
<1>6. QED
  BY <1>3, <1>4, <1>5

-----------------------------------------------------------------------------
(* The first state, and the steps that end the run.                        *)

LEMMA InitInv ==
  ASSUME Init
  PROVE  Inv
<1>1. PICK sc \in Scenarios :
        /\ number_of_plans = sc.number_of_plans /\ faults = sc.faults
        /\ local = sc.folder /\ new_folder = (sc.folder = <<>>)
  BY DEF Init
<1>2. /\ number_of_plans \in Nat \ {0} /\ local \in Seq(Plan \cup {Broken})
      /\ \A i \in 1 .. Len(local) - 1 : local[i] # Broken
  BY <1>1, ConstantAssumption
<1>3. plan_counter = 0 /\ so_far = 0 /\ DOMAIN final = {} /\ DOMAIN filtered = {}
  BY DEF Init, plan_counter
<1>4. DOMAIN local = 1 .. Len(local) /\ Len(local) \in Nat
  BY <1>2
<1>5. TypeOK
  <2>1. IsFolder(local, PlanOrBroken)
    BY <1>2, <1>4 DEF IsFolder, PlanOrBroken
  <2>2. /\ IsFolder(final, relevant) /\ IsFolder(filtered, Plan \ relevant)
        /\ IsFolder(unfiltered, Plan)
    BY DEF Init, IsFolder
  <2>3. plan_costs \in Seq({Cost[p] : p \in Plan})
    BY DEF Init
  <2>4. /\ relevant \subseteq Plan /\ pc \in Labels
        /\ first \in BOOLEAN /\ incomplete \in BOOLEAN /\ folder \in BOOLEAN
    BY DEF Init, Labels
  <2>5. /\ at \in Nat \ {0} /\ so_far \in 0 .. plan_counter
        /\ task_counter \in Nat \cup {-1}
    BY <1>3 DEF Init
  <2>6. /\ output \in (SUBSET Plan) \cup {Broken, NoFile}
        /\ task_counter = -1 /\ DOMAIN tasks = {}
    BY DEF Init
  <2>7. QED
    BY <2>1, <2>2, <2>3, <2>4, <2>5, <2>6 DEF TypeOK
<1>6. ASSUME new_folder
      PROVE  DOMAIN local = {}
  <2>1. local = <<>>
    BY <1>1, <1>6, Zenon
  <2>2. QED
    BY <2>1
<1>13. Counters /\ TaskFiles
  BY <1>1, <1>2, <1>3 DEF Counters, TaskFiles, Init, Base
<1>7. Files
  <2>1. Numbered(Len(local)) /\ Readable(Len(local) - 1)
    BY <1>2, <1>4 DEF Numbered, Readable
  <2>2. new_folder => DOMAIN local = {}
    BY <1>6
  <2>3. FilesAtPlan
    BY <1>4, <2>1, <2>2 DEF FilesAtPlan, Init
  <2>4. QED
    BY <2>3 DEF Files, FilesAtPlan, FilesAtProcessPlan, FilesAfterPlan, FilesAtReformulate,
                FilesAtProcessReform, FilesAfterReform, Init
<1>8. ForbiddenFiles /\ FoundIsNew /\ NewTask
  BY <1>3 DEF ForbiddenFiles, FoundIsNew, NewTask, Init, Forbidden, Base, Different
<1>9. Copies /\ Counted /\ CheaperAreForbidden
  BY <1>3 DEF Copies, Counted, CheaperAreForbidden, Init
<1>10. NoFaults
  <2>1. new_folder => DOMAIN local = {}
    BY <1>6
  <2>2. Forbidden = {} /\ output = NoFile
    BY DEF Forbidden, Init
  <2>3. QED
    BY <2>1, <2>2, Sentinels DEF NoFaults, Init
<1>11. Ended
  BY DEF Ended, AssertionHoldsInNewFolder, CompleteAtEnd, Init
<1>12. QED
  BY <1>5, <1>13, <1>7, <1>8, <1>9, <1>10, <1>11 DEF Inv

\* Of a run that has ended the invariant says little more than the types.
LEMMA EndOfRun ==
  ASSUME Inv, pc' = "exited", TypeOK', Ended', UNCHANGED setting
  PROVE  Inv'
<1>1. Counters' /\ TaskFiles' /\ Files'
  BY DEF Inv, Counters, TaskFiles, Files, FilesAtPlan, FilesAtProcessPlan, FilesAfterPlan,
         FilesAtReformulate, FilesAtProcessReform, FilesAfterReform, setting
<1>2. ForbiddenFiles' /\ FoundIsNew' /\ NewTask'
  BY DEF ForbiddenFiles, FoundIsNew, NewTask
<1>3. Copies' /\ Counted' /\ CheaperAreForbidden' /\ NoFaults'
  BY DEF Copies, Counted, CheaperAreForbidden, NoFaults
<1>4. QED
  BY <1>1, <1>2, <1>3 DEF Inv

\* A call that fails ends the run, whatever was found.
LEMMA FaultEnds ==
  ASSUME Inv,
         \/ CallTimeout \/ CallRaises
         \/ ProcessTimeout \/ ProcessRaises \/ ProcessNoVerdict
  PROVE  Inv'
<1>1. pc' = "exited" /\ UNCHANGED setting /\ faults # {}
  BY DEF CallTimeout, CallRaises, ProcessTimeout, ProcessRaises, ProcessNoVerdict,
         Exit, ExitWithoutCleanup, setting
<1>2. TypeOK'
  <2>1. CASE ProcessNoVerdict
    <3>1. local[at] \in Plan /\ plan_counter + 1 \in Nat \ {0}
      BY <2>1, Types DEF Inv, TypeOK, IsFolder, ProcessNoVerdict, PlanToProcess, PlanOrBroken
    <3>2. IsFolder(unfiltered', Plan)
      BY <2>1, <3>1, WithIsFolder DEF Inv, TypeOK, ProcessNoVerdict
    <3>3. QED
      BY <2>1, <3>2 DEF Inv, TypeOK, ProcessNoVerdict, ExitWithoutCleanup, Labels,
         setting, manager, taskfiles, plan_counter
  <2>2. CASE CallTimeout \/ CallRaises \/ ProcessTimeout \/ ProcessRaises
    BY <2>2 DEF Inv, TypeOK, CallTimeout, CallRaises, ProcessTimeout, ProcessRaises,
       Exit, ExitWithoutCleanup, Labels, setting, manager, results, taskfiles, plan_counter
  <2>3. QED
    BY <2>1, <2>2
<1>3. Ended'
  <2>1. status' # "assertion_failed"
    BY DEF CallTimeout, CallRaises, ProcessTimeout, ProcessRaises, ProcessNoVerdict,
           Exit, ExitWithoutCleanup
  <2>2. faults' # {}
    BY <1>1 DEF setting
  <2>3. QED
    BY <1>1, <2>1, <2>2 DEF Ended, AssertionHoldsInNewFolder, CompleteAtEnd
<1>4. QED
  BY <1>1, <1>2, <1>3, EndOfRun

-----------------------------------------------------------------------------
(* The call of the cost-optimal planner.                                   *)

\* What happens to the plan files in the call: a cheapest plan, a plan cut off
\* or nothing at all is written behind the files that have been processed.
LEMMA PlanFile ==
  ASSUME Inv, PlanFound \/ PlanNotFound \/ PlanCrash
  PROVE  /\ \/ /\ Forbidden # Broken
               /\ \E p \in Optimal(Forbidden) : local' = With(local, plan_counter + 1, p)
            \/ faults # {} /\ local' = With(local, plan_counter + 1, Broken)
            \/ local' = local /\ (faults # {} \/ ~ Solvable)
         /\ IsFolder(local', PlanOrBroken)
         /\ \A i \in DOMAIN local' :
              \/ i = plan_counter + 1
              \/ i \in DOMAIN local /\ local'[i] = local[i]
         /\ \A i \in DOMAIN local : i \in DOMAIN local' /\ (i # plan_counter + 1 => local'[i] = local[i])
<1>1. \/ Forbidden # Broken /\ \E p \in Optimal(Forbidden) : local' = With(local, plan_counter + 1, p)
      \/ faults # {} /\ local' = With(local, plan_counter + 1, Broken)
      \/ local' = local /\ (faults # {} \/ ~ Solvable)
  BY DEF PlanFound, PlanNotFound, PlanCrash, Solvable
<1>2. plan_counter + 1 \in Nat \ {0}
  BY Types DEF Inv
<1>3. Optimal(Forbidden) \subseteq PlanOrBroken /\ Broken \in PlanOrBroken
  BY DEF Optimal, PlanOrBroken
<1>4. IsFolder(local, PlanOrBroken)
  BY DEF Inv, TypeOK
<1>5. ASSUME NEW x \in PlanOrBroken, local' = With(local, plan_counter + 1, x)
      PROVE  /\ IsFolder(local', PlanOrBroken)
             /\ \A i \in DOMAIN local' :
                  \/ i = plan_counter + 1
                  \/ i \in DOMAIN local /\ local'[i] = local[i]
             /\ \A i \in DOMAIN local :
                  i \in DOMAIN local' /\ (i # plan_counter + 1 => local'[i] = local[i])
  <2>1. IsFolder(local', PlanOrBroken)
    BY <1>2, <1>4, <1>5, WithIsFolder
  <2>2. /\ DOMAIN local' = DOMAIN local \cup {plan_counter + 1}
        /\ \A j \in DOMAIN local : j # plan_counter + 1 => local'[j] = local[j]
    BY <1>5 DEF With
  <2>3. QED
    BY <2>1, <2>2
<1>6. QED
  BY <1>1, <1>3, <1>4, <1>5

LEMMA PlanCall ==
  ASSUME Inv, PlanFound \/ PlanNotFound \/ PlanCrash
  PROVE  Inv'
<1> DEFINE k == plan_counter
<1>1. /\ pc = "plan" /\ pc' = "process_plan"
      /\ Translate /\ StartProcessing
      /\ UNCHANGED <<setting, first, plan_costs, results, task_counter, tasks, folder, status>>
  BY DEF PlanFound, PlanNotFound, PlanCrash, Goto
<1>2. UNCHANGED <<number_of_plans, keep_tasks, clean_folder, faults, new_folder, relevant, first, plan_costs,
                  final, filtered, unfiltered, task_counter, tasks, folder, status>>
  BY <1>1 DEF setting, results
<1>3. at' = k + 1 /\ so_far' = k /\ incomplete' = FALSE /\ plan_counter' = k
  BY <1>1, <1>2 DEF StartProcessing, plan_counter
<1>4. /\ k \in Nat /\ Forbidden \in (SUBSET Plan) \cup {Broken}
      /\ TypeOK /\ Counters /\ TaskFiles /\ FilesAtPlan
      /\ ForbiddenFiles /\ Copies /\ Counted /\ NoFaults /\ Ended
  BY Types DEF Inv, Files
<1>5. Forbidden' = Forbidden /\ Base = k /\ Base' = k /\ Clean' = Clean
      /\ enough_plans_found' = enough_plans_found
  BY <1>1, <1>2, <1>3 DEF Forbidden, Base, Clean, enough_plans_found, get_number_valid_plans
<1>6. /\ \/ /\ Forbidden # Broken
            /\ \E p \in Optimal(Forbidden) : local' = With(local, k + 1, p)
         \/ faults # {} /\ local' = With(local, k + 1, Broken)
         \/ local' = local /\ (faults # {} \/ ~ Solvable)
      /\ IsFolder(local', PlanOrBroken)
      /\ \A i \in DOMAIN local' : i = k + 1 \/ (i \in DOMAIN local /\ local'[i] = local[i])
      /\ \A i \in DOMAIN local : i \in DOMAIN local' /\ (i # k + 1 => local'[i] = local[i])
  BY PlanFile
<1>7. PICK n \in Nat : /\ Numbered(n) /\ k <= n /\ Readable(n - 1) /\ Readable(k)
                       /\ Clean => n = k
                       /\ ~ first => n = k
                       /\ first => k = 0
  <2>1. CASE first
    <3>1. k = 0
      BY <1>1, <1>4, <1>5, <2>1 DEF TaskFiles
    <3>2. PICK n \in Nat : Numbered(n) /\ Readable(n - 1)
      BY <1>1, <1>4, <2>1 DEF FilesAtPlan
    <3>3. Clean => n = 0
      BY <1>1, <1>4, <2>1, <3>2 DEF FilesAtPlan, Clean, Numbered
    <3>4. Readable(0)
      BY DEF Readable
    <3>5. QED
      BY <2>1, <3>1, <3>2, <3>3, <3>4
  <2>2. CASE ~ first
    <3>1. Numbered(k) /\ Readable(k)
      BY <1>1, <1>4, <2>2 DEF FilesAtPlan
    <3>2. Readable(k - 1)
      BY <1>4, <3>1 DEF Readable
    <3>3. QED
      BY <1>4, <2>2, <3>1, <3>2
  <2>3. QED
    BY <2>1, <2>2
<1>8. \A i \in 1 .. k : i \in DOMAIN local /\ local[i] \in Plan /\ i \in DOMAIN local' /\ local'[i] = local[i]
  BY <1>4, <1>6, <1>7 DEF Readable
\* A plan behind the processed files is a cheapest one, or an earlier run left
\* it there before any plan was forbidden.
<1>9. ASSUME NEW i \in DOMAIN local', i > k, local'[i] \in Plan
      PROVE  /\ Forbidden # Broken
             /\ i = k + 1 => local'[i] \notin Forbidden
             /\ new_folder => \A r \in Plan : Cost[r] < Cost[local'[i]] => r \in Forbidden
  <2>1. CASE i = k + 1 /\ local' # local
    <3>1. PICK p \in Optimal(Forbidden) : local' = With(local, k + 1, p) /\ Forbidden # Broken
      <4>1. CASE local' = With(local, k + 1, Broken)
        <5>1. local'[i] = Broken
          BY <2>1, <4>1 DEF With
        <5>2. QED
          BY <1>9, <5>1, Sentinels
      <4>2. QED
        BY <1>6, <2>1, <4>1
    <3>2. local'[i] = p
      BY <2>1, <3>1 DEF With
    <3>3. p \in Plan \ Forbidden /\ \A q \in Plan \ Forbidden : Cost[p] <= Cost[q]
      BY DEF Optimal
    <3>4. ASSUME NEW r \in Plan, Cost[r] < Cost[p], r \notin Forbidden
          PROVE  FALSE
      BY <3>3, <3>4, ConstantAssumption
    <3>5. QED
      BY <3>1, <3>2, <3>3, <3>4
  <2>2. CASE i \in DOMAIN local /\ (i # k + 1 \/ local' = local)
    <3>1. first
      BY <1>4, <1>7, <1>9, <2>2 DEF Numbered
    <3>2. Forbidden = {}
      BY <1>1, <1>4, <3>1 DEF TaskFiles, Forbidden
    <3>3. ~ new_folder
      BY <1>1, <1>4, <2>2, <3>1 DEF FilesAtPlan
    <3>4. QED
      BY <3>2, <3>3, Sentinels
  <2>3. QED
    BY <1>6, <2>1, <2>2
<1>10. TypeOK'
  <2>1. output' \in (SUBSET Plan) \cup {Broken, NoFile}
    BY <1>1, <1>4 DEF Translate, TypeOK
  <2>2. /\ relevant' \subseteq Plan /\ pc' \in Labels /\ first' \in BOOLEAN
        /\ plan_costs' \in Seq({Cost[p] : p \in Plan}) /\ incomplete' \in BOOLEAN
        /\ IsFolder(final', relevant') /\ IsFolder(filtered', Plan \ relevant')
        /\ IsFolder(unfiltered', Plan) /\ folder' \in BOOLEAN
    BY <1>1, <1>2, <1>3, <1>4 DEF TypeOK, Labels
  <2>3. at' \in Nat \ {0} /\ so_far' \in 0 .. plan_counter'
    BY <1>3, <1>4
  <2>4. QED
    BY <1>2, <1>4, <1>6, <2>1, <2>2, <2>3 DEF TypeOK
<1>11. Counters'
  BY <1>1, <1>2, <1>3, <1>4 DEF Counters
<1>12. TaskFiles'
  BY <1>1, <1>2, <1>3, <1>4, <1>5 DEF TaskFiles, Translate
<1>13. Files'
  <2>1. Readable(k)'
    BY <1>3, <1>8 DEF Readable
  <2>2. \E m \in Nat : /\ DOMAIN local' = 1 .. m /\ k <= m
                       /\ \A i \in 1 .. m - 1 : i # k + 1 => local'[i] \in Plan
                       /\ Clean => m <= k + 1
    <3>1. CASE DOMAIN local' = DOMAIN local
      <4>1. DOMAIN local' = 1 .. n
        BY <1>7, <3>1 DEF Numbered
      <4>2. \A i \in 1 .. n - 1 : i # k + 1 => local'[i] \in Plan
        BY <1>6, <1>7 DEF Readable
      <4>3. QED
        BY <1>4, <1>7, <4>1, <4>2
    <3>2. CASE DOMAIN local' # DOMAIN local
      <4>1. k + 1 \notin DOMAIN local /\ k + 1 \in DOMAIN local'
        BY <1>6, <3>2
      <4>2. n = k
        BY <1>4, <1>7, <4>1 DEF Numbered
      <4>3. DOMAIN local' = 1 .. k + 1
        <5>1. DOMAIN local = 1 .. k
          BY <1>7, <4>2 DEF Numbered
        <5>2. DOMAIN local' = DOMAIN local \cup {k + 1}
          BY <1>6, <4>1
        <5>3. QED
          BY <1>4, <5>1, <5>2
      <4>4. \A i \in 1 .. k + 1 - 1 : local'[i] \in Plan
        BY <1>4, <1>8
      <4>5. QED
        BY <1>4, <4>3, <4>4
    <3>3. QED
      BY <3>1, <3>2
  <2>3. Clean' => plan_counter' <= so_far' + 1
    BY <1>3, <1>4
  <2>4. FilesAtProcessPlan'
    BY <1>1, <1>3, <1>5, <2>1, <2>2, <2>3 DEF FilesAtProcessPlan, Numbered
  <2>5. QED
    BY <1>1, <2>4 DEF Files, FilesAtPlan, FilesAfterPlan, FilesAtReformulate,
                     FilesAtProcessReform, FilesAfterReform
<1>14. ForbiddenFiles'
  <2>1. ASSUME Forbidden # Broken
        PROVE  /\ Forbidden = {local'[i] : i \in 1 .. k}
               /\ \A i, j \in 1 .. k : local'[i] = local'[j] => i = j
    <3>1. /\ Forbidden = {local[i] : i \in 1 .. k}
          /\ \A i, j \in 1 .. k : local[i] = local[j] => i = j
      BY <1>1, <1>4, <1>5, <2>1 DEF ForbiddenFiles, Different
    <3>2. QED
      BY <1>8, <3>1
  <2>2. QED
    BY <1>5, <2>1 DEF ForbiddenFiles, Different
<1>15. FoundIsNew'
  BY <1>3, <1>4, <1>5, <1>9 DEF FoundIsNew
<1>16. NewTask'
  BY <1>1 DEF NewTask
<1>17. Copies' /\ Counted'
  <2>1. Top = k /\ Top' = k
    BY <1>1, <1>3 DEF Top
  <2>2. \A f \in {final, filtered} : \A i \in DOMAIN f : i <= k /\ i \in Nat \ {0}
    BY <1>1, <1>4, <2>1 DEF Copies, TypeOK, IsFolder
  <2>3. Copies'
    BY <1>1, <1>2, <1>4, <1>8, <2>1, <2>2 DEF Copies
  <2>4. Counted'
    BY <1>1, <1>2, <1>3, <1>4, <1>8 DEF Counted
  <2>5. QED
    BY <2>3, <2>4
<1>18. CheaperAreForbidden'
  BY <1>2, <1>3, <1>5, <1>9 DEF CheaperAreForbidden
<1>19. NoFaults'
  <2>1. SUFFICES ASSUME faults = {}, new_folder
                 PROVE  /\ \A i \in DOMAIN local' : local'[i] # Broken
                        /\ Forbidden # Broken /\ output' # Broken
                        /\ k + 1 \notin DOMAIN local' => Plan \subseteq Forbidden
    BY <1>1, <1>2, <1>3, <1>5 DEF NoFaults
  <2>2. (\A i \in DOMAIN local : local[i] # Broken) /\ Forbidden # Broken /\ output # Broken
    BY <1>1, <1>4, <2>1 DEF NoFaults
  <2>3. output' # Broken
    BY <1>1, <2>2, Sentinels DEF Translate
  <2>4. CASE \E p \in Optimal(Forbidden) : local' = With(local, k + 1, p)
    <3>1. PICK p \in Optimal(Forbidden) : local' = With(local, k + 1, p)
      BY <2>4
    <3>2. p # Broken
      BY Sentinels DEF Optimal
    <3>3. local'[k + 1] = p /\ k + 1 \in DOMAIN local'
      BY <3>1 DEF With
    <3>4. QED
      BY <1>6, <2>2, <2>3, <3>2, <3>3
  <2>5. CASE local' = local /\ ~ Solvable
    <3>1. Optimal(Forbidden) = {} /\ Forbidden \in SUBSET Plan
      BY <1>4, <2>2, <2>5 DEF Solvable
    <3>2. Plan \subseteq Forbidden
      BY <3>1, CheapestPlan
    <3>3. QED
      BY <2>2, <2>3, <2>5, <3>2
  <2>6. QED
    BY <1>6, <2>1, <2>4, <2>5
<1>20. Ended'
  BY <1>1, <1>2, <1>4 DEF Ended, AssertionHoldsInNewFolder, CompleteAtEnd
<1>21. QED
  BY <1>10, <1>11, <1>12, <1>13, <1>14, <1>15, <1>16, <1>17, <1>18, <1>19, <1>20 DEF Inv

-----------------------------------------------------------------------------
(* process_new_plans.                                                      *)

\* The state in which there is a plan file to look at.
LEMMA ToProcess ==
  ASSUME Inv, PlanToProcess
  PROVE  /\ at = plan_counter + 1 /\ at \in Nat \ {0} /\ at > so_far
         /\ plan_counter \in Nat /\ so_far \in Nat /\ so_far <= plan_counter
         /\ at \in DOMAIN local /\ local[at] \in PlanOrBroken /\ ~ incomplete
         /\ Readable(plan_counter)
         /\ Top = plan_counter \/ Top = plan_counter + 1
         /\ Forbidden \in (SUBSET Plan) \cup {Broken}
<1>1. pc \in {"process_plan", "process_reform"} /\ ~ incomplete /\ at \in DOMAIN local
  BY DEF PlanToProcess
<1>2. at = plan_counter + 1
  BY <1>1 DEF Inv, Counters
<1>3. local[at] \in PlanOrBroken
  BY <1>1 DEF Inv, TypeOK, IsFolder
<1>4. Readable(plan_counter)
  BY <1>1 DEF Inv, Files, FilesAtProcessPlan, FilesAtProcessReform
<1>5. Top = plan_counter \/ Top = plan_counter + 1
  BY DEF Top
<1>6. /\ plan_counter \in Nat /\ so_far \in Nat /\ so_far <= plan_counter
      /\ Forbidden \in (SUBSET Plan) \cup {Broken}
  BY Types DEF Inv
<1>7. QED
  BY <1>1, <1>2, <1>3, <1>4, <1>5, <1>6

\* The files that have been processed have at most one copy each.
LEMMA ProcessedFiles ==
  ASSUME Inv, pc # "exited", Top \in Nat
  PROVE  get_number_valid_plans \in Nat /\ get_number_valid_plans <= Top
<1>1. DOMAIN final \subseteq Nat \ {0}
  BY DEF Inv, TypeOK, IsFolder
<1>2. \A i \in DOMAIN final : i <= Top
  BY DEF Inv, Copies
<1>3. QED
  BY <1>1, <1>2, Delivered DEF get_number_valid_plans

LEMMA ProcessingEnds ==
  ASSUME Inv, ProcessingDone
  PROVE  Inv'
<1> DEFINE k == plan_counter
<1>1. /\ \/ pc = "process_plan" /\ pc' = "after_plan"
         \/ pc = "process_reform" /\ pc' = "after_reform"
      /\ enough_plans_found \/ at \notin DOMAIN local \/ incomplete
      /\ UNCHANGED <<number_of_plans, keep_tasks, clean_folder, faults, new_folder, relevant, first, plan_costs,
                     at, so_far, incomplete, local, final, filtered, unfiltered, output,
                     task_counter, tasks, folder, status>>
  BY DEF ProcessingDone, Goto, setting, manager, results, taskfiles
<1>2. /\ TypeOK /\ Counters /\ TaskFiles /\ Files
      /\ ForbiddenFiles /\ FoundIsNew /\ NewTask
      /\ Copies /\ Counted /\ CheaperAreForbidden /\ NoFaults /\ Ended
      /\ k \in Nat /\ so_far \in Nat /\ so_far <= k
  BY Types DEF Inv
<1>3. /\ plan_counter' = k /\ Forbidden' = Forbidden /\ Base = so_far /\ Base' = so_far
      /\ Clean' = Clean /\ enough_plans_found' = enough_plans_found
  BY <1>1 DEF plan_counter, Forbidden, Base, Clean, enough_plans_found, get_number_valid_plans
<1>4. Top' = Top
  BY <1>1, <1>3 DEF Top
<1>5. (~ incomplete => at = k + 1) /\ number_of_plans \in Nat \ {0} /\ new_folder \in BOOLEAN
  BY <1>1, <1>2 DEF Counters
<1>6. TypeOK'
  BY <1>1, <1>2, <1>3 DEF TypeOK, Labels
<1>7. Counters' /\ TaskFiles'
  BY <1>1, <1>2, <1>3, <1>5 DEF Counters, TaskFiles
<1>8. Files'
  <2>1. CASE pc = "process_plan"
    <3>1. FilesAtProcessPlan
      BY <1>2 DEF Files
    <3>2. Readable(k) /\ (Clean => k <= so_far + 1)
      BY <2>1, <3>1 DEF FilesAtProcessPlan
    <3>3. ASSUME k = so_far + 1, ~ (first /\ number_of_plans = 1)
          PROVE  Numbered(k)
      <4>1. CASE incomplete
        BY <1>2, <2>1, <3>1, <3>3, <4>1 DEF FilesAtProcessPlan
      <4>2. CASE ~ incomplete
        <5>1. PICK n \in Nat : Numbered(n) /\ k <= n /\ (Clean => n <= so_far + 1)
          BY <2>1, <3>1, <4>2 DEF FilesAtProcessPlan
        <5>2. CASE Clean
          BY <1>2, <3>3, <5>1, <5>2
        <5>3. CASE ~ Clean /\ enough_plans_found
          <6>1. first /\ so_far = 0
            BY <1>2, <1>3, <2>1, <5>3 DEF Clean, TaskFiles
          <6>2. Top = 1
            BY <2>1, <3>3, <6>1 DEF Top
          <6>3. get_number_valid_plans \in Nat /\ get_number_valid_plans <= 1
            BY <2>1, <6>2, ProcessedFiles
          <6>4. QED
            BY <1>5, <3>3, <5>3, <6>1, <6>3 DEF enough_plans_found
        <5>4. CASE ~ enough_plans_found
          <6>1. k + 1 \notin 1 .. n
            BY <1>1, <1>5, <4>2, <5>1, <5>4 DEF Numbered
          <6>2. QED
            BY <1>2, <5>1, <6>1
        <5>5. QED
          BY <5>2, <5>3, <5>4
      <4>3. QED
        BY <4>1, <4>2
    <3>4. FilesAfterPlan'
      BY <1>1, <1>3, <3>2, <3>3 DEF FilesAfterPlan, Readable, Numbered
    <3>5. QED
      BY <1>1, <2>1, <3>4 DEF Files, FilesAtPlan, FilesAtProcessPlan, FilesAtReformulate,
                     FilesAtProcessReform, FilesAfterReform
  <2>2. CASE pc = "process_reform"
    <3>1. FilesAtProcessReform
      BY <1>2 DEF Files
    <3>2. Readable(k)
      BY <2>2, <3>1 DEF FilesAtProcessReform
    <3>3. ASSUME output # NoFile, ~ enough_plans_found
          PROVE  Numbered(k) /\ k > so_far
      <4>1. ~ incomplete
        BY <2>2, <3>1, <3>3 DEF FilesAtProcessReform
      <4>2. PICK n \in Nat : Numbered(n) /\ so_far + 1 <= n /\ k <= n
        BY <2>2, <3>1, <4>1 DEF FilesAtProcessReform
      <4>3. k + 1 \notin 1 .. n
        BY <1>1, <1>5, <3>3, <4>1, <4>2 DEF Numbered
      <4>4. n = k
        BY <1>2, <4>2, <4>3
      <4>5. QED
        BY <1>2, <4>2, <4>4
    <3>4. FilesAfterReform'
      BY <1>1, <1>3, <3>2, <3>3 DEF FilesAfterReform, Readable, Numbered
    <3>5. QED
      BY <1>1, <2>2, <3>4 DEF Files, FilesAtPlan, FilesAtProcessPlan, FilesAtReformulate,
                     FilesAtProcessReform, FilesAfterPlan
  <2>3. QED
    BY <1>1, <2>1, <2>2
<1>9. ForbiddenFiles' /\ FoundIsNew' /\ NewTask'
  <2>1. ForbiddenFiles'
    BY <1>1, <1>2, <1>3 DEF ForbiddenFiles, Different
  <2>2. FoundIsNew'
    BY <1>1, <1>2, <1>3 DEF FoundIsNew
  <2>3. NewTask'
    BY <1>1, <1>2 DEF NewTask, Different
  <2>4. QED
    BY <2>1, <2>2, <2>3
<1>10. Copies' /\ Counted' /\ CheaperAreForbidden'
  <2>1. Copies'
    BY <1>1, <1>2, <1>4 DEF Copies
  <2>2. Counted'
    BY <1>1, <1>2, <1>3 DEF Counted
  <2>3. CheaperAreForbidden'
    BY <1>1, <1>2, <1>3 DEF CheaperAreForbidden
  <2>4. QED
    BY <2>1, <2>2, <2>3
<1>11. NoFaults'
  <2>1. SUFFICES ASSUME faults = {}, new_folder
                 PROVE  NoFaults'
    BY <1>1 DEF NoFaults
  <2>2. /\ \A i \in DOMAIN local : local[i] # Broken
        /\ Forbidden # Broken /\ output # Broken /\ ~ incomplete
        /\ (pc = "process_plan" /\ so_far + 1 \notin DOMAIN local) => Plan \subseteq Forbidden
        /\ (pc = "process_reform" /\ FewReorderings) => output # NoFile
    BY <1>1, <1>2, <2>1 DEF NoFaults
  <2>3. ASSUME pc = "process_plan", k = so_far, ~ enough_plans_found
        PROVE  Plan \subseteq Forbidden
    BY <1>1, <1>5, <2>2, <2>3
  <2>4. FewReorderings' = FewReorderings
    BY <1>1 DEF FewReorderings
  <2>5. QED
    BY <1>1, <1>3, <2>2, <2>3, <2>4 DEF NoFaults
<1>12. Ended'
  BY <1>1, <1>2 DEF Ended, AssertionHoldsInNewFolder, CompleteAtEnd
<1>13. QED
  BY <1>6, <1>7, <1>8, <1>9, <1>10, <1>11, <1>12 DEF Inv

\* A plan file that was cut off is removed; nothing else is looked at.
LEMMA IncompleteRemoved ==
  ASSUME Inv, ProcessIncomplete
  PROVE  Inv'
<1> DEFINE k == plan_counter
<1>1. /\ PlanToProcess /\ local[at] = Broken
      /\ local' = Without(local, at) /\ incomplete' = TRUE /\ at' = at + 1
      /\ UNCHANGED <<number_of_plans, keep_tasks, clean_folder, faults, new_folder, relevant, pc, first,
                     plan_costs, so_far, final, filtered, unfiltered, output,
                     task_counter, tasks, folder, status>>
  BY DEF ProcessIncomplete, setting, results, taskfiles
<1>2. /\ TypeOK /\ Counters /\ TaskFiles /\ Files
      /\ ForbiddenFiles /\ FoundIsNew /\ NewTask
      /\ Copies /\ Counted /\ CheaperAreForbidden /\ NoFaults /\ Ended
  BY DEF Inv
<1>3. /\ at = k + 1 /\ at \in Nat \ {0} /\ at > so_far
      /\ k \in Nat /\ so_far \in Nat /\ so_far <= k
      /\ at \in DOMAIN local /\ ~ incomplete /\ Readable(k)
      /\ Forbidden \in (SUBSET Plan) \cup {Broken}
  BY <1>1, ToProcess
<1>4. /\ plan_counter' = k /\ Forbidden' = Forbidden /\ Base = so_far /\ Base' = so_far
      /\ Clean' = Clean /\ enough_plans_found' = enough_plans_found /\ Top' = Top
      /\ FewReorderings' = FewReorderings
  BY <1>1 DEF plan_counter, Forbidden, Base, Clean, enough_plans_found, get_number_valid_plans,
              Top, FewReorderings, PlanToProcess
<1>5. /\ DOMAIN local' = DOMAIN local \ {at}
      /\ \A j \in DOMAIN local' : local'[j] = local[j]
  BY <1>1 DEF Without
<1>6. \A i \in 1 .. k : i \in DOMAIN local /\ local[i] \in Plan /\ i \in DOMAIN local' /\ local'[i] = local[i]
  <2>1. \A i \in 1 .. k : i # at
    BY <1>3
  <2>2. QED
    BY <1>3, <1>5, <2>1 DEF Readable
<1>7. pc \in {"process_plan", "process_reform"}
  BY <1>1 DEF PlanToProcess
<1>8. TypeOK'
  <2>1. IsFolder(local', PlanOrBroken)
    BY <1>1, <1>2, WithoutIsFolder DEF TypeOK
  <2>2. at' \in Nat \ {0} /\ incomplete' \in BOOLEAN
    BY <1>1, <1>3
  <2>3. QED
    BY <1>1, <1>2, <1>4, <2>1, <2>2 DEF TypeOK
<1>9. Counters' /\ TaskFiles'
  <2>1. at' = k + 2
    BY <1>1, <1>3
  <2>2. QED
    BY <1>1, <1>2, <1>4, <1>7, <2>1 DEF Counters, TaskFiles
<1>10. Files'
  <2>1. Readable(k)'
    BY <1>4, <1>6 DEF Readable
  <2>2. CASE pc = "process_plan"
    <3>1. PICK n \in Nat : /\ Numbered(n) /\ k <= n
                           /\ \A i \in 1 .. n - 1 : i # so_far + 1 => local[i] \in Plan
                           /\ Clean => n <= so_far + 1
      BY <1>2, <1>3, <2>2 DEF Files, FilesAtProcessPlan
    <3>2. Clean => k <= so_far + 1
      BY <1>2, <2>2 DEF Files, FilesAtProcessPlan
    <3>3. ASSUME k > so_far
          PROVE  DOMAIN local' = 1 .. k
      <4>1. k + 1 \in 1 .. n /\ local[k + 1] \notin Plan /\ k + 1 # so_far + 1
        BY <1>1, <1>3, <3>1, <3>3, Sentinels DEF Numbered
      <4>2. ~ (k + 1 \in 1 .. n - 1)
        BY <3>1, <4>1
      <4>3. n = k + 1
        BY <1>3, <4>1, <4>2
      <4>4. QED
        BY <1>3, <1>5, <3>1, <4>3 DEF Numbered
    <3>4. FilesAtProcessPlan'
      BY <1>1, <1>4, <2>1, <3>2, <3>3 DEF FilesAtProcessPlan, Numbered
    <3>5. QED
      BY <1>1, <2>2, <3>4 DEF Files, FilesAtPlan, FilesAfterPlan, FilesAtReformulate,
                     FilesAtProcessReform, FilesAfterReform
  <2>3. CASE pc = "process_reform"
    <3>1. output = NoFile
      BY <1>1, <1>2, <1>3, <2>3, Sentinels DEF Files, FilesAtProcessReform
    <3>2. FilesAtProcessReform'
      BY <1>1, <1>4, <2>1, <3>1 DEF FilesAtProcessReform
    <3>3. QED
      BY <1>1, <2>3, <3>2 DEF Files, FilesAtPlan, FilesAtProcessPlan, FilesAfterPlan,
                     FilesAtReformulate, FilesAfterReform
  <2>4. QED
    BY <1>7, <2>2, <2>3
<1>11. ForbiddenFiles'
  <2>1. ASSUME Forbidden # Broken
        PROVE  /\ Forbidden = {local'[i] : i \in 1 .. so_far}
               /\ \A i, j \in 1 .. so_far : local'[i] = local'[j] => i = j
    <3>1. /\ Forbidden = {local[i] : i \in 1 .. so_far}
          /\ \A i, j \in 1 .. so_far : local[i] = local[j] => i = j
      BY <1>2, <1>4, <1>7, <2>1 DEF ForbiddenFiles, Different
    <3>2. \A i \in 1 .. so_far : local'[i] = local[i]
      BY <1>3, <1>6
    <3>3. QED
      BY <3>1, <3>2
  <2>2. QED
    BY <1>4, <2>1 DEF ForbiddenFiles, Different
<1>12. FoundIsNew' /\ NewTask'
  <2>1. FoundIsNew'
    BY <1>1, <1>2, <1>4, <1>5 DEF FoundIsNew
  <2>2. pc = "process_reform" => output = NoFile
    BY <1>1, <1>2, <1>3, Sentinels DEF Files, FilesAtProcessReform
  <2>3. NewTask'
    BY <1>1, <1>7, <2>2 DEF NewTask
  <2>4. QED
    BY <2>1, <2>3
<1>13. Copies' /\ Counted' /\ CheaperAreForbidden'
  <2>1. Copies'
    BY <1>1, <1>2, <1>4, <1>5 DEF Copies
  <2>2. Counted'
    BY <1>1, <1>2, <1>4, <1>6 DEF Counted
  <2>3. CheaperAreForbidden'
    BY <1>1, <1>2, <1>4, <1>5 DEF CheaperAreForbidden
  <2>4. QED
    BY <2>1, <2>2, <2>3
<1>14. NoFaults'
  <2>1. ~ (faults = {} /\ new_folder)
    BY <1>1, <1>2, <1>3, <1>7 DEF NoFaults
  <2>2. QED
    BY <1>1, <2>1 DEF NoFaults
<1>15. Ended'
  BY <1>1, <1>2, <1>7 DEF Ended, AssertionHoldsInNewFolder, CompleteAtEnd
<1>16. QED
  BY <1>8, <1>9, <1>10, <1>11, <1>12, <1>13, <1>14, <1>15 DEF Inv

\* What a checked plan leaves behind: its copy goes to the results or to the
\* filtered plans, unless its verdict could not be read.
LEMMA Verdict ==
  ASSUME Inv, ProcessChecked \/ ProcessPartialVerdict
  PROVE  /\ PlanToProcess /\ local[at] \in Plan
         /\ \/ local[at] \in relevant /\ at \in DOMAIN final' /\ filtered' = filtered
            \/ local[at] \notin relevant /\ at \in DOMAIN filtered' /\ final' = final
            \/ "partial_verdict" \in faults /\ final' = final /\ filtered' = filtered
         /\ IsFolder(final', relevant) /\ IsFolder(filtered', Plan \ relevant)
         /\ \A i \in DOMAIN final' :
              (i = at /\ final'[i] = local[i]) \/ (i \in DOMAIN final /\ final'[i] = final[i])
         /\ \A i \in DOMAIN filtered' :
              (i = at /\ filtered'[i] = local[i]) \/ (i \in DOMAIN filtered /\ filtered'[i] = filtered[i])
         /\ DOMAIN final \subseteq DOMAIN final' /\ DOMAIN filtered \subseteq DOMAIN filtered'
<1>1. PlanToProcess /\ local[at] # Broken
  BY DEF ProcessChecked, ProcessPartialVerdict
<1>2. at = plan_counter + 1 /\ at \in Nat \ {0} /\ local[at] \in Plan
  BY <1>1, ToProcess DEF PlanOrBroken
<1>3. \/ /\ local[at] \in relevant
         /\ final' = With(final, at, local[at]) /\ filtered' = filtered
      \/ /\ local[at] \notin relevant
         /\ filtered' = With(filtered, at, local[at]) /\ final' = final
      \/ "partial_verdict" \in faults /\ final' = final /\ filtered' = filtered
  BY <1>2 DEF ProcessChecked, ProcessPartialVerdict, results
<1>4. IsFolder(final, relevant) /\ IsFolder(filtered, Plan \ relevant)
  BY DEF Inv, TypeOK
<1>5. CASE local[at] \in relevant /\ final' = With(final, at, local[at]) /\ filtered' = filtered
  <2>1. IsFolder(final', relevant)
    BY <1>2, <1>4, <1>5, WithIsFolder
  <2>2. /\ DOMAIN final' = DOMAIN final \cup {at} /\ final'[at] = local[at]
        /\ \A i \in DOMAIN final : i # at => final'[i] = final[i]
    BY <1>5 DEF With
  <2>3. /\ \A i \in DOMAIN final' :
             (i = at /\ final'[i] = local[i]) \/ (i \in DOMAIN final /\ final'[i] = final[i])
        /\ at \in DOMAIN final' /\ DOMAIN final \subseteq DOMAIN final'
    BY <2>2
  <2>4. /\ filtered' = filtered /\ DOMAIN filtered \subseteq DOMAIN filtered'
        /\ \A i \in DOMAIN filtered' : i \in DOMAIN filtered /\ filtered'[i] = filtered[i]
    BY <1>5
  <2>5. IsFolder(filtered', Plan \ relevant)
    BY <1>4, <2>4
  <2>6. QED
    BY <1>1, <1>2, <1>5, <2>1, <2>3, <2>4, <2>5
<1>6. CASE local[at] \notin relevant /\ filtered' = With(filtered, at, local[at]) /\ final' = final
  <2>1. IsFolder(filtered', Plan \ relevant)
    BY <1>2, <1>4, <1>6, WithIsFolder
  <2>2. /\ DOMAIN filtered' = DOMAIN filtered \cup {at} /\ filtered'[at] = local[at]
        /\ \A i \in DOMAIN filtered : i # at => filtered'[i] = filtered[i]
    BY <1>6 DEF With
  <2>3. /\ \A i \in DOMAIN filtered' :
             (i = at /\ filtered'[i] = local[i]) \/ (i \in DOMAIN filtered /\ filtered'[i] = filtered[i])
        /\ at \in DOMAIN filtered' /\ DOMAIN filtered \subseteq DOMAIN filtered'
    BY <2>2
  <2>4. /\ final' = final /\ DOMAIN final \subseteq DOMAIN final'
        /\ \A i \in DOMAIN final' : i \in DOMAIN final /\ final'[i] = final[i]
    BY <1>6
  <2>5. IsFolder(final', relevant)
    BY <1>4, <2>4
  <2>6. QED
    BY <1>1, <1>2, <1>6, <2>1, <2>3, <2>4, <2>5
<1>7. CASE "partial_verdict" \in faults /\ final' = final /\ filtered' = filtered
  BY <1>1, <1>2, <1>4, <1>7
<1>8. QED
  BY <1>3, <1>5, <1>6, <1>7

\* A plan that was checked is counted, whatever the verdict.
LEMMA PlanCounted ==
  ASSUME Inv, ProcessChecked \/ ProcessPartialVerdict
  PROVE  Inv'
<1> DEFINE k == plan_counter
<1>1. /\ plan_costs' = Append(plan_costs, Cost[local[at]]) /\ at' = at + 1
      /\ UNCHANGED <<number_of_plans, keep_tasks, clean_folder, faults, new_folder, relevant, pc, first,
                     so_far, incomplete, local, unfiltered, output,
                     task_counter, tasks, folder, status>>
  BY DEF ProcessChecked, ProcessPartialVerdict, setting, results, taskfiles
<1>2. /\ TypeOK /\ Counters /\ TaskFiles /\ Files
      /\ ForbiddenFiles /\ FoundIsNew /\ NewTask
      /\ Copies /\ Counted /\ CheaperAreForbidden /\ NoFaults /\ Ended
  BY DEF Inv
<1>3. PlanToProcess /\ local[at] \in Plan
  BY Verdict
<1>4. /\ at = k + 1 /\ at \in Nat \ {0} /\ at > so_far
      /\ k \in Nat /\ so_far \in Nat /\ so_far <= k
      /\ at \in DOMAIN local /\ ~ incomplete /\ Readable(k)
      /\ Top = k \/ Top = k + 1
  BY <1>3, ToProcess
<1>5. plan_costs \in Seq({Cost[p] : p \in Plan}) /\ Cost[local[at]] \in {Cost[p] : p \in Plan}
  BY <1>2, <1>3 DEF TypeOK
<1>6. /\ plan_costs' \in Seq({Cost[p] : p \in Plan}) /\ plan_counter' = k + 1
      /\ \A i \in 1 .. k : plan_costs'[i] = plan_costs[i]
      /\ plan_costs'[k + 1] = Cost[local[at]]
  <2> DEFINE Costs == {Cost[p] : p \in Plan}
  <2>1. plan_costs \in Seq(Costs) /\ Cost[local[at]] \in Costs /\ plan_counter = Len(plan_costs)
    BY <1>5 DEF plan_counter
  <2>2. plan_counter' = Len(plan_costs')
    BY DEF plan_counter
  <2> HIDE DEF Costs
  <2>3. /\ plan_costs' \in Seq(Costs) /\ Len(plan_costs') = Len(plan_costs) + 1
        /\ \A i \in 1 .. Len(plan_costs) : plan_costs'[i] = plan_costs[i]
        /\ plan_costs'[Len(plan_costs) + 1] = Cost[local[at]]
    BY <1>1, <2>1
  <2>4. QED
    BY <2>1, <2>2, <2>3 DEF Costs
<1>7. pc \in {"process_plan", "process_reform"}
  BY <1>3 DEF PlanToProcess
<1>8. /\ Forbidden' = Forbidden /\ Base = so_far /\ Base' = so_far /\ Clean' = Clean
      /\ Top' = k + 1 /\ FewReorderings' = FewReorderings
  BY <1>1, <1>4, <1>6, <1>7 DEF Forbidden, Base, Clean, Top, FewReorderings
<1>9. /\ \/ local[at] \in relevant /\ at \in DOMAIN final' /\ filtered' = filtered
         \/ local[at] \notin relevant /\ at \in DOMAIN filtered' /\ final' = final
         \/ "partial_verdict" \in faults /\ final' = final /\ filtered' = filtered
      /\ \A i \in DOMAIN final' :
           (i = at /\ final'[i] = local[i]) \/ (i \in DOMAIN final /\ final'[i] = final[i])
      /\ \A i \in DOMAIN filtered' :
           (i = at /\ filtered'[i] = local[i]) \/ (i \in DOMAIN filtered /\ filtered'[i] = filtered[i])
      /\ DOMAIN final \subseteq DOMAIN final' /\ DOMAIN filtered \subseteq DOMAIN filtered'
  BY Verdict
<1>10. /\ \A i \in DOMAIN final :
            i <= Top /\ (i \in DOMAIN local /\ local[i] \in Plan => final[i] = local[i])
       /\ \A i \in DOMAIN filtered :
            i <= Top /\ (i \in DOMAIN local /\ local[i] \in Plan => filtered[i] = local[i])
       /\ \A i \in DOMAIN final : final[i] \in relevant /\ i \in Nat
       /\ \A i \in DOMAIN filtered : filtered[i] \notin relevant /\ i \in Nat
  BY <1>2, <1>7 DEF Copies, TypeOK, IsFolder
<1>11. TypeOK'
  <2>1. IsFolder(final', relevant') /\ IsFolder(filtered', Plan \ relevant')
    BY <1>1, Verdict
  <2>2. at' \in Nat \ {0} /\ so_far' \in 0 .. plan_counter'
    BY <1>1, <1>4, <1>6
  <2>3. QED
    BY <1>1, <1>2, <1>6, <2>1, <2>2 DEF TypeOK
<1>12. Counters' /\ TaskFiles'
  <2>1. at' = plan_counter' + 1
    BY <1>1, <1>4, <1>6
  <2>2. QED
    BY <1>1, <1>2, <1>4, <1>7, <1>8, <2>1 DEF Counters, TaskFiles
<1>13. Files'
  <2>1. \A i \in 1 .. k + 1 : i \in DOMAIN local /\ local[i] \in Plan
    <3>1. ASSUME NEW i \in 1 .. k + 1
          PROVE  i \in DOMAIN local /\ local[i] \in Plan
      <4>1. CASE i = k + 1
        BY <1>3, <1>4, <4>1
      <4>2. CASE i \in 1 .. k
        BY <1>4, <4>2 DEF Readable
      <4>3. QED
        BY <1>4, <4>1, <4>2
    <3>2. QED
      BY <3>1
  <2>2. CASE pc = "process_plan"
    <3>1. PICK n \in Nat : /\ Numbered(n) /\ k <= n
                           /\ \A i \in 1 .. n - 1 : i # so_far + 1 => local[i] \in Plan
                           /\ Clean => n <= so_far + 1
      BY <1>2, <1>4, <2>2 DEF Files, FilesAtProcessPlan
    <3>2. k + 1 <= n
      BY <1>4, <3>1 DEF Numbered
    <3>3. Clean => k + 1 <= so_far + 1
      BY <1>4, <3>1, <3>2
    <3>4. FilesAtProcessPlan'
      BY <1>1, <1>4, <1>6, <1>8, <2>1, <3>1, <3>2, <3>3 DEF FilesAtProcessPlan, Numbered, Readable
    <3>5. QED
      BY <1>1, <2>2, <3>4 DEF Files, FilesAtPlan, FilesAfterPlan, FilesAtReformulate,
                     FilesAtProcessReform, FilesAfterReform
  <2>3. CASE pc = "process_reform"
    <3>1. PICK n \in Nat : Numbered(n) /\ so_far + 1 <= n /\ k <= n /\ Readable(n - 1)
      BY <1>2, <1>4, <2>3 DEF Files, FilesAtProcessReform
    <3>2. k + 1 <= n
      BY <1>4, <3>1 DEF Numbered
    <3>3. output # NoFile => \A i \in DOMAIN local : local[i] \in Plan
      BY <1>2, <2>3 DEF Files, FilesAtProcessReform
    <3>4. FilesAtProcessReform'
      BY <1>1, <1>4, <1>6, <2>1, <3>1, <3>2, <3>3 DEF FilesAtProcessReform, Numbered, Readable
    <3>5. QED
      BY <1>1, <2>3, <3>4 DEF Files, FilesAtPlan, FilesAtProcessPlan, FilesAfterPlan,
                     FilesAtReformulate, FilesAfterReform
  <2>4. QED
    BY <1>7, <2>2, <2>3
<1>14. ForbiddenFiles' /\ FoundIsNew' /\ NewTask'
  <2>1. ForbiddenFiles'
    BY <1>1, <1>2, <1>7, <1>8 DEF ForbiddenFiles, Different
  <2>2. FoundIsNew'
    BY <1>1, <1>2, <1>8 DEF FoundIsNew
  <2>3. NewTask'
    BY <1>1, <1>2 DEF NewTask, Different
  <2>4. QED
    BY <2>1, <2>2, <2>3
<1>15. Copies'
  <2>1. \A i \in DOMAIN final' :
          i <= k + 1 /\ (i \in DOMAIN local /\ local[i] \in Plan => final'[i] = local[i])
    BY <1>4, <1>9, <1>10
  <2>2. \A i \in DOMAIN filtered' :
          i <= k + 1 /\ (i \in DOMAIN local /\ local[i] \in Plan => filtered'[i] = local[i])
    BY <1>4, <1>9, <1>10
  <2>3. QED
    BY <1>1, <1>8, <2>1, <2>2 DEF Copies
<1>16. Counted'
  <2>1. SUFFICES ASSUME NEW i \in 1 .. k + 1
                 PROVE  /\ plan_costs'[i] = Cost[local[i]]
                        /\ "partial_verdict" \notin faults =>
                             \/ i \in DOMAIN final' /\ i \notin DOMAIN filtered'
                             \/ i \in DOMAIN filtered' /\ i \notin DOMAIN final'
    BY <1>1, <1>6 DEF Counted
  <2>2. CASE i = k + 1
    <3>1. plan_costs'[i] = Cost[local[i]]
      BY <1>4, <1>6, <2>2
    <3>2. local[at] \in relevant => at \notin DOMAIN filtered
      BY <1>3, <1>4, <1>10
    <3>3. local[at] \notin relevant => at \notin DOMAIN final
      BY <1>3, <1>4, <1>10
    <3>4. QED
      BY <1>4, <1>9, <2>2, <3>1, <3>2, <3>3
  <2>3. CASE i \in 1 .. k
    <3>1. i # at
      BY <1>4, <2>3
    <3>2. (i \in DOMAIN final' <=> i \in DOMAIN final) /\ (i \in DOMAIN filtered' <=> i \in DOMAIN filtered)
      BY <1>9, <3>1
    <3>3. QED
      BY <1>2, <1>6, <1>7, <2>3, <3>2 DEF Counted
  <2>4. QED
    BY <1>4, <2>2, <2>3
<1>17. CheaperAreForbidden'
  BY <1>1, <1>2, <1>8 DEF CheaperAreForbidden
<1>18. NoFaults'
  BY <1>1, <1>2, <1>7, <1>8 DEF NoFaults
<1>19. Ended'
  BY <1>1, <1>2, <1>7 DEF Ended, AssertionHoldsInNewFolder, CompleteAtEnd
<1>20. QED
  BY <1>11, <1>12, <1>13, <1>14, <1>15, <1>16, <1>17, <1>18, <1>19 DEF Inv

-----------------------------------------------------------------------------
(* After the call of the cost-optimal planner.                             *)

\* A relevant plan that is forbidden has been delivered.
LEMMA ForbiddenDelivered ==
  ASSUME Inv, pc \in {"process_plan", "after_plan", "process_reform"},
         Forbidden # Broken, "partial_verdict" \notin faults,
         NEW r \in relevant, r \in Forbidden
  PROVE  r \in delivered
<1>1. /\ plan_counter \in Nat /\ so_far \in Nat /\ so_far <= plan_counter
      /\ relevant \subseteq Plan
  BY Types DEF Inv, TypeOK
<1>2. Base = so_far
  BY DEF Base
<1>3. PICK i \in 1 .. so_far : r = local[i]
  BY <1>2 DEF Inv, ForbiddenFiles
<1>4. i \in 1 .. plan_counter
  BY <1>1
<1>5. i \in DOMAIN local /\ local[i] \in Plan
  <2>1. Readable(plan_counter)
    BY DEF Inv, Files, FilesAtProcessPlan, FilesAfterPlan, FilesAtProcessReform
  <2>2. QED
    BY <1>4, <2>1 DEF Readable
<1>6. i \in DOMAIN final \/ i \in DOMAIN filtered
  BY <1>4 DEF Inv, Counted
<1>7. CASE i \in DOMAIN final
  <2>1. final[i] = local[i]
    BY <1>5, <1>7 DEF Inv, Copies
  <2>2. QED
    BY <1>3, <1>7, <2>1 DEF delivered
<1>8. CASE i \in DOMAIN filtered
  <2>1. filtered[i] = local[i]
    BY <1>5, <1>8 DEF Inv, Copies
  <2>2. filtered[i] \notin relevant
    BY <1>8 DEF Inv, TypeOK, IsFolder
  <2>3. QED
    BY <1>3, <2>1, <2>2
<1>9. QED
  BY <1>6, <1>7, <1>8

LEMMA AfterPlanEnds ==
  ASSUME Inv, NoPlanFound \/ AssertionFails \/ EnoughAfterPlan
  PROVE  Inv'
<1> DEFINE k == plan_counter
<1>1. /\ pc = "after_plan" /\ pc' = "exited"
      /\ UNCHANGED <<number_of_plans, keep_tasks, clean_folder, faults, new_folder, relevant, first, plan_costs,
                     at, so_far, incomplete, local, final, filtered, unfiltered, output,
                     task_counter, tasks>>
      /\ folder' \in {FALSE, folder}
  BY DEF NoPlanFound, AssertionFails, EnoughAfterPlan, Exit, ExitWithoutCleanup,
         setting, manager, results, taskfiles
<1>2. TypeOK /\ k \in Nat /\ so_far \in Nat /\ so_far <= k
  BY Types DEF Inv
<1>3. TypeOK'
  <2>1. folder' \in BOOLEAN /\ pc' \in Labels
    BY <1>1, <1>2 DEF TypeOK, Labels
  <2>2. plan_counter' = plan_counter
    BY <1>1 DEF plan_counter
  <2>3. QED
    BY <1>1, <1>2, <2>1, <2>2 DEF TypeOK
<1>4. AssertionHoldsInNewFolder'
  <2>1. CASE AssertionFails
    <3>1. k - so_far > 1
      BY <2>1 DEF AssertionFails, processed
    <3>2. ~ Clean
      BY <1>1, <1>2, <3>1 DEF Inv, Files, FilesAfterPlan
    <3>3. QED
      BY <1>1, <3>2 DEF AssertionHoldsInNewFolder, Clean
  <2>2. CASE NoPlanFound \/ EnoughAfterPlan
    <3>1. status' # "assertion_failed"
      BY <2>2 DEF NoPlanFound, EnoughAfterPlan, Exit
    <3>2. QED
      BY <3>1 DEF AssertionHoldsInNewFolder
  <2>3. QED
    BY <2>1, <2>2
<1>5. CompleteAtEnd'
  <2>1. SUFFICES ASSUME get_number_valid_plans < number_of_plans, faults = {}, new_folder,
                        \A p \in Plan : Cardinality(Class[p]) < number_of_plans
                 PROVE  relevant \subseteq delivered
    BY <1>1 DEF CompleteAtEnd, get_number_valid_plans, delivered
  <2>2. CASE NoPlanFound
    <3>1. k = so_far
      BY <1>2, <2>2 DEF NoPlanFound, processed
    <3>2. ~ enough_plans_found
      <4>1. get_number_valid_plans \in Nat
        BY <1>1, <1>2, ProcessedFiles DEF Top
      <4>2. number_of_plans \in Nat
        BY DEF Inv, Counters
      <4>3. QED
        BY <2>1, <4>1, <4>2 DEF enough_plans_found
    <3>3. Forbidden # Broken /\ Plan \subseteq Forbidden
      BY <1>1, <2>1, <3>1, <3>2 DEF Inv, NoFaults
    <3>4. relevant \subseteq Plan
      BY <1>2 DEF TypeOK
    <3>5. QED
      BY <1>1, <2>1, <3>3, <3>4, ForbiddenDelivered
  <2>3. CASE AssertionFails
    BY <1>1, <1>4, <2>1, <2>3 DEF AssertionFails, ExitWithoutCleanup, AssertionHoldsInNewFolder
  <2>4. CASE EnoughAfterPlan
    <3>1. k = so_far + 1
      BY <1>2, <2>4 DEF EnoughAfterPlan, processed
    <3>2. local[1] \in Plan
      BY <1>1, <1>2, <3>1 DEF Inv, Files, FilesAfterPlan, Readable
    <3>3. Cardinality(Class[local[1]]) \in Nat /\ Cardinality(Class[local[1]]) > 0
      <4>1. /\ Cardinality({local[1]} \cup (Class[local[1]] \ {})) \in Nat
            /\ Cardinality({local[1]} \cup (Class[local[1]] \ {})) > 0
            /\ Cardinality({local[1]} \cup (Class[local[1]] \ {})) <= Cardinality(Class[local[1]])
            /\ Cardinality(Class[local[1]]) \in Nat
        BY <3>2, ClassOf
      <4>2. QED
        BY <4>1
    <3>4. number_of_plans # 1
      BY <2>1, <3>2, <3>3
    <3>5. enough_plans_found
      BY <2>4, <3>4 DEF EnoughAfterPlan
    <3>6. get_number_valid_plans \in Nat /\ number_of_plans \in Nat
      <4>1. get_number_valid_plans \in Nat
        BY <1>1, <1>2, ProcessedFiles DEF Top
      <4>2. QED
        BY <4>1 DEF Inv, Counters
    <3>7. QED
      BY <2>1, <3>5, <3>6 DEF enough_plans_found
  <2>5. QED
    BY <2>2, <2>3, <2>4
<1>6. Ended'
  BY <1>1, <1>4, <1>5 DEF Ended
<1>7. QED
  BY <1>1, <1>3, <1>6, EndOfRun DEF setting

\* The call string forgets the last plan; its file stays.
LEMMA ReformulationPrepared ==
  ASSUME Inv, PrepareReformulation
  PROVE  Inv'
<1> DEFINE k == plan_counter
<1>1. /\ pc = "after_plan" /\ pc' = "reformulate"
      /\ k - so_far = 1 /\ plan_costs' = Forget(plan_costs)
      /\ IF first THEN number_of_plans # 1 /\ AddTask ELSE ~ enough_plans_found /\ UNCHANGED taskfiles
      /\ UNCHANGED <<number_of_plans, keep_tasks, clean_folder, faults, new_folder, relevant, first,
                     at, so_far, incomplete, local, final, filtered, unfiltered, folder, status>>
  BY DEF PrepareReformulation, Goto, processed, setting, results
<1>2. /\ TypeOK /\ Counters /\ TaskFiles /\ Files
      /\ ForbiddenFiles /\ FoundIsNew /\ NewTask
      /\ Copies /\ Counted /\ CheaperAreForbidden /\ NoFaults /\ Ended
      /\ k \in Nat /\ so_far \in Nat /\ k = so_far + 1
  BY <1>1, Types DEF Inv
<1>3. /\ plan_costs' \in Seq({Cost[p] : p \in Plan}) /\ plan_counter' = so_far
      /\ \A i \in 1 .. so_far : plan_costs'[i] = plan_costs[i]
  <2> DEFINE Costs == {Cost[p] : p \in Plan}
  <2>1. plan_costs \in Seq(Costs) /\ Len(plan_costs) = so_far + 1
    BY <1>2 DEF TypeOK, plan_counter
  <2>2. plan_counter' = Len(plan_costs')
    BY DEF plan_counter
  <2> HIDE DEF Costs
  <2>3. plan_costs # <<>>
    BY <1>2, <2>1
  <2>4. /\ Forget(plan_costs) \in Seq(Costs) /\ Len(Forget(plan_costs)) = Len(plan_costs) - 1
        /\ \A i \in 1 .. Len(plan_costs) - 1 : Forget(plan_costs)[i] = plan_costs[i]
    BY <2>1, <2>3, Forgetting
  <2>5. Len(plan_costs) - 1 = so_far
    BY <1>2, <2>1
  <2>6. QED
    BY <1>1, <2>2, <2>4, <2>5 DEF Costs
\* In the first iteration the task from PDDL, which forbids nothing, is added.
<1>4. /\ Forbidden' = Forbidden /\ output' = NoFile
      /\ task_counter' \in Nat /\ task_counter' \in DOMAIN tasks'
      /\ \A i \in DOMAIN tasks' : tasks'[i] \in (SUBSET Plan) \cup {Broken}
  <2>1. CASE first
    <3>1. task_counter = -1 /\ output = {} /\ Forbidden = {}
      BY <1>1, <1>2, <2>1 DEF TaskFiles, Forbidden
    <3>2. tasks' = With(DeleteCurrent, 0, {}) /\ task_counter' = 0 /\ output' = NoFile
      BY <1>1, <2>1, <3>1 DEF AddTask
    <3>3. DeleteCurrent = tasks
      BY <3>1 DEF DeleteCurrent
    <3>4. /\ DOMAIN tasks' = DOMAIN tasks \cup {0} /\ tasks'[0] = {}
          /\ \A i \in DOMAIN tasks : i # 0 => tasks'[i] = tasks[i]
      BY <3>2, <3>3 DEF With
    <3>5. \A i \in DOMAIN tasks' : tasks'[i] \in (SUBSET Plan) \cup {Broken}
      BY <1>2, <3>4 DEF TypeOK
    <3>6. QED
      BY <3>1, <3>2, <3>4, <3>5 DEF Forbidden
  <2>2. CASE ~ first
    <3>1. UNCHANGED <<output, task_counter, tasks>>
      BY <1>1, <2>2 DEF taskfiles
    <3>2. task_counter # -1 /\ output = NoFile
      BY <1>1, <1>2, <2>2 DEF TaskFiles
    <3>3. QED
      BY <1>2, <3>1, <3>2 DEF TypeOK, Forbidden
  <2>3. QED
    BY <2>1, <2>2
<1>5. task_counter' # -1
  BY <1>4
<1>6. Base = so_far /\ Base' = so_far /\ Clean' = Clean /\ Top = so_far + 1 /\ Top' = so_far + 1
  BY <1>1, <1>2, <1>3 DEF Base, Clean, Top
<1>7. TypeOK'
  <2>1. so_far' \in 0 .. plan_counter' /\ output' \in (SUBSET Plan) \cup {Broken, NoFile}
    BY <1>1, <1>2, <1>3, <1>4
  <2>2. QED
    BY <1>1, <1>2, <1>3, <1>4, <2>1 DEF TypeOK, Labels
<1>8. Counters' /\ TaskFiles'
  BY <1>1, <1>2, <1>3, <1>4, <1>5 DEF Counters, TaskFiles
<1>9. Files'
  <2>1. ~ (first /\ number_of_plans = 1)
    BY <1>1
  <2>2. Numbered(so_far + 1) /\ Readable(so_far + 1)
    BY <1>1, <1>2, <2>1 DEF Files, FilesAfterPlan
  <2>3. FilesAtReformulate'
    BY <1>1, <2>2 DEF FilesAtReformulate, Numbered, Readable
  <2>4. QED
    BY <1>1, <2>3 DEF Files, FilesAtPlan, FilesAtProcessPlan, FilesAfterPlan,
                     FilesAtProcessReform, FilesAfterReform
<1>10. ForbiddenFiles' /\ FoundIsNew' /\ NewTask'
  <2>1. ForbiddenFiles'
    BY <1>1, <1>2, <1>4, <1>6 DEF ForbiddenFiles, Different
  <2>2. FoundIsNew'
    BY <1>1, <1>2, <1>4 DEF FoundIsNew
  <2>3. NewTask'
    BY <1>1 DEF NewTask
  <2>4. QED
    BY <2>1, <2>2, <2>3
<1>11. Copies' /\ Counted' /\ CheaperAreForbidden'
  <2>1. Copies'
    BY <1>1, <1>2, <1>6 DEF Copies
  <2>2. \A i \in 1 .. so_far : i \in 1 .. k
    BY <1>2
  <2>3. Counted'
    BY <1>1, <1>2, <1>3, <2>2 DEF Counted
  <2>4. CheaperAreForbidden'
    BY <1>1, <1>2, <1>4 DEF CheaperAreForbidden
  <2>5. QED
    BY <2>1, <2>3, <2>4
<1>12. NoFaults'
  BY <1>1, <1>2, <1>4, Sentinels DEF NoFaults
<1>13. Ended'
  BY <1>1, <1>2 DEF Ended, AssertionHoldsInNewFolder, CompleteAtEnd
<1>14. QED
  BY <1>7, <1>8, <1>9, <1>10, <1>11, <1>12, <1>13 DEF Inv

-----------------------------------------------------------------------------
(* The call of the reformulation.                                          *)

LEMMA Prefix ==
  ASSUME NEW S, NEW n \in Nat, NEW q \in [1 .. n -> S], NEW d \in 0 .. n
  PROVE  /\ DOMAIN SubSeq(q, 1, d) = 1 .. d
         /\ \A i \in 1 .. d : SubSeq(q, 1, d)[i] = q[i]
<1>1. \A i \in 1 .. d : q[i] \in S
  OBVIOUS
<1>2. /\ SubSeq(q, 1, d) \in Seq(S)
      /\ Len(SubSeq(q, 1, d)) = (IF 1 <= d THEN d - 1 + 1 ELSE 0)
      /\ \A i \in 1 .. d - 1 + 1 : SubSeq(q, 1, d)[i] = q[1 + i - 1]
  BY <1>1, SubSeqProperties
<1>3. (IF 1 <= d THEN d - 1 + 1 ELSE 0) = d /\ d - 1 + 1 = d
  OBVIOUS
<1>4. DOMAIN SubSeq(q, 1, d) = 1 .. d
  BY <1>2, <1>3
<1>5. ASSUME NEW i \in 1 .. d
      PROVE  SubSeq(q, 1, d)[i] = q[i]
  <2>1. i \in 1 .. d - 1 + 1 /\ 1 + i - 1 = i
    BY <1>3
  <2>2. QED
    BY <1>2, <2>1
<1>6. QED
  BY <1>4, <1>5

\* The plan files after m plans have been dumped from the last one on.
LEMMA DumpedFiles ==
  ASSUME plan_counter \in Nat, Numbered(plan_counter + 1),
         NEW m \in Nat, NEW q, DOMAIN q = 1 .. m
  PROVE  /\ DOMAIN Dumped(q) = 1 .. (IF m = 0 THEN plan_counter + 1 ELSE plan_counter + m)
         /\ \A i \in 1 .. plan_counter : Dumped(q)[i] = local[i]
         /\ \A j \in 1 .. m : Dumped(q)[plan_counter + j] = q[j]
         /\ m = 0 => Dumped(q)[plan_counter + 1] = local[plan_counter + 1]
<1> DEFINE k == plan_counter
           new == {k + j : j \in 1 .. m}
<1>1. Dumped(q) = [i \in DOMAIN local \cup new |-> IF i \in new THEN q[i - k] ELSE local[i]]
  BY DEF Dumped
<1>2. \A i : i \in new <=> i \in k + 1 .. k + m
  <2>1. ASSUME NEW i \in k + 1 .. k + m
        PROVE  i \in new
    <3>1. i - k \in 1 .. m /\ i = k + (i - k)
      OBVIOUS
    <3>2. QED
      BY <3>1
  <2>2. QED
    BY <2>1
<1>3. DOMAIN local = 1 .. k + 1
  BY DEF Numbered
<1> HIDE DEF new
<1>4. DOMAIN Dumped(q) = DOMAIN local \cup new
  BY <1>1
<1>5. DOMAIN Dumped(q) = 1 .. (IF m = 0 THEN k + 1 ELSE k + m)
  BY <1>2, <1>3, <1>4
<1>6. \A i \in 1 .. k : Dumped(q)[i] = local[i]
  BY <1>1, <1>2, <1>3
<1>7. ASSUME NEW j \in 1 .. m
      PROVE  Dumped(q)[k + j] = q[j]
  <2>1. k + j \in new /\ (k + j) - k = j
    BY <1>2
  <2>2. QED
    BY <1>1, <2>1
<1>8. m = 0 => Dumped(q)[k + 1] = local[k + 1]
  BY <1>1, <1>2, <1>3
<1>9. QED
  BY <1>5, <1>6, <1>7, <1>8

\* The state in which the reformulation runs.
LEMMA AtReformulate ==
  ASSUME Inv, Reformulating
  PROVE  /\ plan_counter = so_far /\ so_far \in Nat /\ Forbidden \in SUBSET Plan
         /\ Numbered(so_far + 1) /\ Readable(so_far + 1)
         /\ last_plan \in Plan /\ last_plan \notin Forbidden
         /\ GraphPlans \subseteq Plan \ Forbidden /\ last_plan \in GraphPlans
         /\ \A p \in GraphPlans : Cost[p] = Cost[last_plan]
         /\ IsFiniteSet(GraphPlans)
         /\ Cardinality(GraphPlans) \in Nat /\ Cardinality(GraphPlans) > 0
         /\ Cardinality(GraphPlans) <= Cardinality(Class[last_plan])
         /\ Cardinality(Class[last_plan]) \in Nat
         /\ num_remaining_plans \in Nat /\ num_remaining_plans >= number_of_plans
         /\ num_remaining_plans > 0 /\ output = NoFile
<1>1. pc = "reformulate" /\ Forbidden # Broken
  BY DEF Reformulating
<1>2. plan_counter = so_far /\ so_far \in Nat /\ Forbidden \in SUBSET Plan
  BY <1>1, Types DEF Inv, Counters
<1>3. Numbered(so_far + 1) /\ Readable(so_far + 1)
  BY <1>1 DEF Inv, Files, FilesAtReformulate
<1>4. last_plan = local[so_far + 1]
  BY <1>2 DEF last_plan
<1>5. so_far + 1 \in DOMAIN local /\ last_plan \in Plan
  BY <1>2, <1>3, <1>4 DEF Readable
<1>6. last_plan \notin Forbidden
  BY <1>1, <1>4, <1>5 DEF Inv, FoundIsNew
<1>7. /\ GraphPlans \subseteq Plan \ Forbidden /\ last_plan \in GraphPlans
      /\ \A p \in GraphPlans : Cost[p] = Cost[last_plan]
  BY <1>5, <1>6, ConstantAssumption DEF GraphPlans
<1>8. /\ IsFiniteSet(GraphPlans)
      /\ Cardinality(GraphPlans) \in Nat /\ Cardinality(GraphPlans) > 0
      /\ Cardinality(GraphPlans) <= Cardinality(Class[last_plan])
      /\ Cardinality(Class[last_plan]) \in Nat
  BY <1>5, ClassOf DEF GraphPlans
<1>9. /\ num_remaining_plans \in Nat /\ num_remaining_plans >= number_of_plans
      /\ num_remaining_plans > 0 /\ output = NoFile
  BY <1>1 DEF num_remaining_plans, Inv, Counters, TaskFiles
<1>10. QED
  BY <1>2, <1>3, <1>5, <1>6, <1>7, <1>8, <1>9

\* The plan files and the task after the call, whether it came to its end or
\* not: plans of the graph from the last plan on, the last of them perhaps cut
\* off; and a task only when all plans of the graph have been dumped.
FilesDumped(n) ==
  /\ n > so_far /\ DOMAIN local' = 1 .. n
  /\ \A i \in 1 .. so_far : local'[i] = local[i]
  /\ \A i \in so_far + 1 .. n : local'[i] \in GraphPlans \cup {Broken}
  /\ \A i \in so_far + 1 .. n - 1 : local'[i] \in GraphPlans
  /\ local'[so_far + 1] \in {last_plan, Broken}

AllDumped(n) ==
  /\ \A i \in so_far + 1 .. n : local'[i] \in GraphPlans
  /\ \A i, j \in so_far + 1 .. n : local'[i] = local'[j] => i = j
  /\ \A p \in GraphPlans : \E i \in so_far + 1 .. n : local'[i] = p

LEMMA DumpCut ==
  ASSUME Inv, Reformulating, NEW m \in Nat, NEW q, DOMAIN q = 1 .. m,
         \A i \in 1 .. m : q[i] \in GraphPlans \cup {Broken},
         \A i \in 1 .. m - 1 : q[i] \in GraphPlans,
         m > 0 => q[1] \in {last_plan, Broken},
         local' = Dumped(q)
  PROVE  /\ FilesDumped(IF m = 0 THEN so_far + 1 ELSE so_far + m)
         /\ \A i \in so_far + 1 .. so_far + m : local'[i] = q[i - so_far]
         /\ m = 0 => local'[so_far + 1] = last_plan
<1> DEFINE n == IF m = 0 THEN so_far + 1 ELSE so_far + m
<1>1. /\ plan_counter = so_far /\ so_far \in Nat /\ Numbered(so_far + 1)
      /\ last_plan \in GraphPlans
  BY AtReformulate
<1>2. /\ DOMAIN local' = 1 .. n
      /\ \A i \in 1 .. so_far : local'[i] = local[i]
      /\ \A j \in 1 .. m : local'[so_far + j] = q[j]
      /\ m = 0 => local'[so_far + 1] = last_plan
  <2>1. /\ DOMAIN Dumped(q) = 1 .. (IF m = 0 THEN plan_counter + 1 ELSE plan_counter + m)
        /\ \A i \in 1 .. plan_counter : Dumped(q)[i] = local[i]
        /\ \A j \in 1 .. m : Dumped(q)[plan_counter + j] = q[j]
        /\ m = 0 => Dumped(q)[plan_counter + 1] = local[plan_counter + 1]
    BY <1>1, DumpedFiles
  <2>2. QED
    BY <1>1, <2>1 DEF last_plan
<1>3. ASSUME NEW i \in so_far + 1 .. so_far + m
      PROVE  i - so_far \in 1 .. m /\ local'[i] = q[i - so_far]
  <2>1. i - so_far \in 1 .. m /\ so_far + (i - so_far) = i
    BY <1>1
  <2>2. QED
    BY <1>2, <2>1
<1>4. n > so_far
  BY <1>1
<1>5. ASSUME NEW i \in so_far + 1 .. n
      PROVE  local'[i] \in GraphPlans \cup {Broken} /\ (i # n => local'[i] \in GraphPlans)
  <2>1. CASE m = 0
    <3>1. i = so_far + 1
      BY <1>1, <2>1
    <3>2. QED
      BY <1>1, <1>2, <2>1, <3>1
  <2>2. CASE m # 0
    <3>1. i - so_far \in 1 .. m /\ local'[i] = q[i - so_far]
      BY <1>3, <2>2
    <3>2. i # n => i - so_far \in 1 .. m - 1
      BY <1>1, <2>2, <3>1
    <3>3. QED
      BY <3>1, <3>2
  <2>3. QED
    BY <2>1, <2>2
<1>6. \A i \in so_far + 1 .. n - 1 : local'[i] \in GraphPlans
  BY <1>1, <1>5
<1>7. local'[so_far + 1] \in {last_plan, Broken}
  <2>1. m # 0 => 1 \in 1 .. m
    OBVIOUS
  <2>2. QED
    BY <1>2, <2>1
<1>8. QED
  BY <1>2, <1>3, <1>4, <1>5, <1>6, <1>7 DEF FilesDumped

LEMMA CutOff ==
  ASSUME NEW s, NEW d \in DOMAIN s, NEW x
  PROVE  /\ DOMAIN [s EXCEPT ![d] = x] = DOMAIN s /\ [s EXCEPT ![d] = x][d] = x
         /\ \A i \in DOMAIN s : i # d => [s EXCEPT ![d] = x][i] = s[i]
OBVIOUS

LEMMA DumpOrder ==
  ASSUME NEW n \in Nat, NEW q \in DumpOrders(n)
  PROVE  /\ q \in [1 .. n -> GraphPlans] /\ q[1] = last_plan
         /\ \A i, j \in 1 .. n : q[i] = q[j] => i = j
BY DEF DumpOrders

\* All plans of the graph are dumped.
LEMMA DumpAll ==
  ASSUME Inv, Reformulating, NEW q \in DumpOrders(Cardinality(GraphPlans)), local' = Dumped(q)
  PROVE  \E n \in Nat : FilesDumped(n) /\ AllDumped(n)
<1> DEFINE N == Cardinality(GraphPlans)
<1>1. N \in Nat /\ N > 0 /\ IsFiniteSet(GraphPlans) /\ so_far \in Nat
  BY AtReformulate
<1>2. /\ q \in [1 .. N -> GraphPlans] /\ q[1] = last_plan
      /\ \A i, j \in 1 .. N : q[i] = q[j] => i = j
  BY <1>1, DumpOrder
<1>3. \A p \in GraphPlans : \E i \in 1 .. N : q[i] = p
  <2> HIDE DEF GraphPlans
  <2>1. QED
    BY <1>1, <1>2, Enumerates
<1>4. /\ FilesDumped(so_far + N)
      /\ \A i \in so_far + 1 .. so_far + N : local'[i] = q[i - so_far]
  <2>1. DOMAIN q = 1 .. N /\ (\A i \in 1 .. N : q[i] \in GraphPlans \cup {Broken})
    BY <1>2
  <2>2. (\A i \in 1 .. N - 1 : q[i] \in GraphPlans) /\ q[1] \in {last_plan, Broken}
    BY <1>1, <1>2
  <2>3. /\ FilesDumped(IF N = 0 THEN so_far + 1 ELSE so_far + N)
        /\ \A i \in so_far + 1 .. so_far + N : local'[i] = q[i - so_far]
    <3> HIDE DEF N
    <3>1. QED
      BY <1>1, <2>1, <2>2, DumpCut
  <2>4. QED
    BY <1>1, <2>3
<1>5. AllDumped(so_far + N)
  <2>1. \A i \in so_far + 1 .. so_far + N : i - so_far \in 1 .. N
    BY <1>1
  <2>2. \A i \in so_far + 1 .. so_far + N : local'[i] \in GraphPlans
    BY <1>2, <1>4, <2>1
  <2>3. ASSUME NEW i \in so_far + 1 .. so_far + N, NEW j \in so_far + 1 .. so_far + N,
               local'[i] = local'[j]
        PROVE  i = j
    <3>1. q[i - so_far] = q[j - so_far]
      BY <1>4, <2>3
    <3>2. i - so_far = j - so_far
      BY <1>2, <2>1, <3>1
    <3>3. QED
      BY <1>1, <3>2
  <2>4. ASSUME NEW p \in GraphPlans
        PROVE  \E i \in so_far + 1 .. so_far + N : local'[i] = p
    <3>1. PICK j \in 1 .. N : q[j] = p
      BY <1>3
    <3>2. so_far + j \in so_far + 1 .. so_far + N /\ (so_far + j) - so_far = j
      BY <1>1
    <3>3. QED
      BY <1>4, <3>1, <3>2
  <2>5. QED
    BY <2>2, <2>3, <2>4 DEF AllDumped
<1>6. QED
  BY <1>1, <1>4, <1>5

\* Some plans of the graph are dumped, the last of them perhaps not to its end.
LEMMA DumpSome ==
  ASSUME Inv, Reformulating, NEW n \in Nat, NEW q \in DumpOrders(n), NEW d \in 0 .. n,
         \/ local' = Dumped(SubSeq(q, 1, d))
         \/ d > 0 /\ local' = Dumped([SubSeq(q, 1, d) EXCEPT ![d] = Broken])
  PROVE  \E m \in Nat : FilesDumped(m)
<1>1. /\ q \in [1 .. n -> GraphPlans] /\ q[1] = last_plan
  BY DumpOrder
<1>2. /\ DOMAIN SubSeq(q, 1, d) = 1 .. d
      /\ \A i \in 1 .. d : SubSeq(q, 1, d)[i] = q[i]
  BY <1>1, Prefix
<1>3. \A i \in 1 .. d : q[i] \in GraphPlans
  BY <1>1
<1>4. d \in Nat /\ so_far \in Nat /\ \A i \in 1 .. d - 1 : i \in 1 .. d /\ i # d
  BY AtReformulate
<1>5. CASE local' = Dumped(SubSeq(q, 1, d))
  <2>1. /\ \A i \in 1 .. d : SubSeq(q, 1, d)[i] \in GraphPlans \cup {Broken}
        /\ \A i \in 1 .. d - 1 : SubSeq(q, 1, d)[i] \in GraphPlans
        /\ d > 0 => SubSeq(q, 1, d)[1] \in {last_plan, Broken}
    BY <1>1, <1>2, <1>3, <1>4
  <2>2. FilesDumped(IF d = 0 THEN so_far + 1 ELSE so_far + d)
    BY <1>2, <1>4, <1>5, <2>1, DumpCut
  <2>3. QED
    BY <1>4, <2>2
<1>6. CASE d > 0 /\ local' = Dumped([SubSeq(q, 1, d) EXCEPT ![d] = Broken])
  <2> DEFINE c == [SubSeq(q, 1, d) EXCEPT ![d] = Broken]
  <2>1. DOMAIN c = 1 .. d /\ c[d] = Broken /\ \A i \in 1 .. d - 1 : c[i] = q[i]
    <3>1. d \in DOMAIN SubSeq(q, 1, d)
      BY <1>2, <1>4, <1>6
    <3>2. /\ DOMAIN c = DOMAIN SubSeq(q, 1, d) /\ c[d] = Broken
          /\ \A i \in DOMAIN SubSeq(q, 1, d) : i # d => c[i] = SubSeq(q, 1, d)[i]
      BY <3>1, CutOff
    <3> HIDE DEF c
    <3>3. QED
      BY <1>2, <1>4, <3>2
  <2>2. /\ \A i \in 1 .. d : c[i] \in GraphPlans \cup {Broken}
        /\ \A i \in 1 .. d - 1 : c[i] \in GraphPlans
        /\ c[1] \in {last_plan, Broken}
    <3> HIDE DEF c
    <3>1. \A i \in 1 .. d : i = d \/ i \in 1 .. d - 1
      BY <1>4
    <3>2. 1 \in 1 .. d
      BY <1>4, <1>6
    <3>3. QED
      BY <1>1, <1>3, <1>4, <2>1, <3>1, <3>2
  <2>3. FilesDumped(IF d = 0 THEN so_far + 1 ELSE so_far + d)
    <3> HIDE DEF c
    <3>1. local' = Dumped(c)
      BY <1>6 DEF c
    <3>2. QED
      BY <1>4, <2>1, <2>2, <3>1, DumpCut
  <2>4. QED
    BY <1>4, <1>6, <2>3
<1>7. QED
  BY <1>5, <1>6

LEMMA Dump ==
  ASSUME Inv, Reformulate \/ DumpEnough \/ ReformulateCrash
  PROVE  \E n \in Nat :
           /\ FilesDumped(n)
           /\ \/ output' = NoFile
              \/ /\ output' = Broken /\ faults # {}
                 /\ \A i \in so_far + 1 .. n : local'[i] \in GraphPlans
              \/ output' = Forbidden \cup GraphPlans /\ AllDumped(n)
           /\ faults = {} => \A i \in so_far + 1 .. n : local'[i] \in GraphPlans
           /\ (faults = {} /\ FewReorderings) => output' # NoFile
<1>1. Reformulating
  BY DEF Reformulate, DumpEnough, ReformulateCrash
<1>2. /\ Forbidden \in SUBSET Plan /\ GraphPlans \subseteq Plan /\ output = NoFile
      /\ last_plan \in Plan
      /\ Cardinality(GraphPlans) \in Nat /\ Cardinality(GraphPlans) <= Cardinality(Class[last_plan])
      /\ Cardinality(Class[last_plan]) \in Nat
      /\ num_remaining_plans \in Nat /\ num_remaining_plans >= number_of_plans
      /\ num_remaining_plans > 0 /\ so_far \in Nat
  BY <1>1, AtReformulate
<1>3. CASE Reformulate
  <2>1. PICK q \in DumpOrders(Cardinality(GraphPlans)) : local' = Dumped(q)
    BY <1>3 DEF Reformulate
  <2>2. PICK n \in Nat : FilesDumped(n) /\ AllDumped(n)
    BY <1>1, <2>1, DumpAll
  <2>3. output' = Forbidden \cup GraphPlans
    BY <1>3 DEF Reformulate
  <2>4. output' # NoFile
    <3>1. output' \in SUBSET Plan
      BY <1>2, <2>3
    <3>2. QED
      BY <3>1, Sentinels
  <2>5. \A i \in so_far + 1 .. n : local'[i] \in GraphPlans
    BY <2>2 DEF AllDumped
  <2>6. QED
    BY <2>2, <2>3, <2>4, <2>5
<1>4. CASE DumpEnough
  <2>1. PICK q \in DumpOrders(num_remaining_plans) : local' = Dumped(q)
    BY <1>4 DEF DumpEnough
  <2>2. output' = NoFile
    BY <1>2, <1>4 DEF DumpEnough, taskfiles
  <2>3. ~ FewReorderings
    <3>1. Cardinality(GraphPlans) >= num_remaining_plans
      BY <1>4 DEF DumpEnough
    <3>2. number_of_plans \in Nat
      BY DEF Inv, Counters
    <3>3. ~ (Cardinality(Class[last_plan]) < number_of_plans)
      BY <1>2, <3>1, <3>2
    <3>4. QED
      BY <1>2, <3>3 DEF FewReorderings
  <2>4. q \in [1 .. num_remaining_plans -> GraphPlans] /\ q[1] = last_plan
    BY <1>2, DumpOrder
  <2>5. /\ FilesDumped(so_far + num_remaining_plans)
        /\ \A i \in so_far + 1 .. so_far + num_remaining_plans : local'[i] = q[i - so_far]
    <3> DEFINE N == num_remaining_plans
    <3>1. DOMAIN q = 1 .. N /\ (\A i \in 1 .. N : q[i] \in GraphPlans \cup {Broken})
      BY <2>4
    <3>2. (\A i \in 1 .. N - 1 : q[i] \in GraphPlans) /\ q[1] \in {last_plan, Broken}
      BY <1>2, <2>4
    <3>3. /\ FilesDumped(IF N = 0 THEN so_far + 1 ELSE so_far + N)
          /\ \A i \in so_far + 1 .. so_far + N : local'[i] = q[i - so_far]
      BY <1>1, <1>2, <2>1, <3>1, <3>2, DumpCut
    <3>4. QED
      BY <1>2, <3>3
  <2>6. ASSUME NEW i \in so_far + 1 .. so_far + num_remaining_plans
        PROVE  local'[i] \in GraphPlans
    <3>1. i - so_far \in 1 .. num_remaining_plans
      BY <1>2
    <3>2. QED
      BY <2>4, <2>5, <3>1
  <2>7. QED
    BY <1>2, <2>2, <2>3, <2>5, <2>6
<1>5. CASE ReformulateCrash
  <2> DEFINE r == IF Cardinality(GraphPlans) < num_remaining_plans
                  THEN Cardinality(GraphPlans) ELSE num_remaining_plans
  <2>1. "crash" \in faults /\ r \in Nat
    BY <1>2, <1>5 DEF ReformulateCrash
  <2>2. PICK q \in DumpOrders(r), d \in 0 .. r :
          \/ local' = Dumped(SubSeq(q, 1, d)) /\ UNCHANGED output
          \/ /\ d > 0 /\ local' = Dumped([SubSeq(q, 1, d) EXCEPT ![d] = Broken])
             /\ UNCHANGED output
          \/ r < num_remaining_plans /\ d = r /\ local' = Dumped(q) /\ output' = Broken
    BY <1>5 DEF ReformulateCrash
  <2> HIDE DEF r
  <2>3. CASE \/ local' = Dumped(SubSeq(q, 1, d)) /\ UNCHANGED output
             \/ /\ d > 0 /\ local' = Dumped([SubSeq(q, 1, d) EXCEPT ![d] = Broken])
                /\ UNCHANGED output
    <3>1. PICK n \in Nat : FilesDumped(n)
      BY <1>1, <2>1, <2>2, <2>3, DumpSome
    <3>2. output' = NoFile
      BY <1>2, <2>3
    <3>3. QED
      BY <2>1, <3>1, <3>2
  <2>4. CASE r < num_remaining_plans /\ local' = Dumped(q) /\ output' = Broken
    <3>1. r = Cardinality(GraphPlans)
      BY <1>2, <2>4 DEF r
    <3>2. PICK n \in Nat : FilesDumped(n) /\ AllDumped(n)
      BY <1>1, <2>2, <2>4, <3>1, DumpAll
    <3>3. \A i \in so_far + 1 .. n : local'[i] \in GraphPlans
      BY <3>2 DEF AllDumped
    <3>4. QED
      BY <2>1, <2>4, <3>2, <3>3
  <2>5. QED
    BY <2>2, <2>3, <2>4
<1>6. QED
  BY <1>3, <1>4, <1>5

LEMMA ReformulationCall ==
  ASSUME Inv, Reformulate \/ DumpEnough \/ ReformulateCrash
  PROVE  Inv'
<1>1. /\ Reformulating /\ StartProcessing /\ pc' = "process_reform"
      /\ UNCHANGED <<number_of_plans, keep_tasks, clean_folder, faults, new_folder, relevant, first, plan_costs,
                     final, filtered, unfiltered, task_counter, tasks, folder, status>>
  BY DEF Reformulate, DumpEnough, ReformulateCrash, Goto, setting, results, taskfiles
<1>2. /\ TypeOK /\ Counters /\ TaskFiles
      /\ ForbiddenFiles /\ Copies /\ Counted /\ CheaperAreForbidden /\ NoFaults /\ Ended
      /\ pc = "reformulate"
  BY <1>1 DEF Inv, Reformulating
<1>3. /\ plan_counter = so_far /\ so_far \in Nat /\ Forbidden \in SUBSET Plan
      /\ Numbered(so_far + 1) /\ Readable(so_far + 1)
      /\ last_plan \in Plan /\ last_plan \notin Forbidden
      /\ GraphPlans \subseteq Plan \ Forbidden
      /\ \A p \in GraphPlans : Cost[p] = Cost[last_plan]
  BY <1>1, AtReformulate
<1>4. last_plan = local[so_far + 1] /\ so_far + 1 \in DOMAIN local
  BY <1>3 DEF last_plan, Numbered
<1>5. /\ plan_counter' = so_far /\ so_far' = so_far /\ at' = so_far + 1 /\ incomplete' = FALSE
      /\ Forbidden' = Forbidden /\ Base = so_far /\ Base' = so_far
      /\ Top = so_far + 1 /\ Top' = so_far + 1 /\ FewReorderings' = FewReorderings
  BY <1>1, <1>2, <1>3 DEF StartProcessing, plan_counter, Forbidden, Base, Top, FewReorderings
<1>6. PICK n \in Nat :
        /\ FilesDumped(n)
        /\ \/ output' = NoFile
           \/ /\ output' = Broken /\ faults # {}
              /\ \A i \in so_far + 1 .. n : local'[i] \in GraphPlans
           \/ output' = Forbidden \cup GraphPlans /\ AllDumped(n)
        /\ faults = {} => \A i \in so_far + 1 .. n : local'[i] \in GraphPlans
        /\ (faults = {} /\ FewReorderings) => output' # NoFile
  BY Dump
<1>7. /\ n > so_far /\ DOMAIN local' = 1 .. n
      /\ \A i \in 1 .. so_far : local'[i] = local[i]
      /\ \A i \in so_far + 1 .. n : local'[i] \in GraphPlans \cup {Broken}
      /\ \A i \in so_far + 1 .. n - 1 : local'[i] \in GraphPlans
      /\ local'[so_far + 1] \in {last_plan, Broken}
  BY <1>6 DEF FilesDumped
<1>8. \A i \in 1 .. so_far : local[i] \in Plan
  BY <1>3 DEF Readable
<1>9. \A i \in 1 .. n : i \in 1 .. so_far \/ i \in so_far + 1 .. n
  BY <1>3, <1>7
<1>10. TypeOK'
  <2>1. IsFolder(local', PlanOrBroken)
    <3>1. \A i \in 1 .. n : local'[i] \in PlanOrBroken
      BY <1>3, <1>7, <1>8, <1>9 DEF PlanOrBroken
    <3>2. QED
      BY <1>7, <3>1 DEF IsFolder
  <2>2. output' \in (SUBSET Plan) \cup {Broken, NoFile}
    BY <1>3, <1>6
  <2>3. at' \in Nat \ {0} /\ so_far' \in 0 .. plan_counter'
    BY <1>3, <1>5
  <2>4. pc' \in Labels /\ incomplete' \in BOOLEAN
    BY <1>1, <1>5 DEF Labels
  <2>5. QED
    BY <1>1, <1>2, <2>1, <2>2, <2>3, <2>4 DEF TypeOK
<1>11. Counters' /\ TaskFiles'
  BY <1>1, <1>2, <1>5 DEF Counters, TaskFiles
<1>12. Files'
  <2>1. \A i \in 1 .. so_far : i \in DOMAIN local' /\ local'[i] \in Plan
    BY <1>3, <1>7, <1>8
  <2>2. \A i \in 1 .. n - 1 : i \in DOMAIN local' /\ local'[i] \in Plan
    <3>1. ASSUME NEW i \in 1 .. n - 1
          PROVE  i \in DOMAIN local' /\ local'[i] \in Plan
      <4>1. i \in 1 .. so_far \/ i \in so_far + 1 .. n - 1
        BY <1>3
      <4>2. QED
        BY <1>3, <1>7, <2>1, <4>1
    <3>2. QED
      BY <3>1
  <2>3. output' # NoFile => \A i \in DOMAIN local' : local'[i] \in Plan
    <3>1. ASSUME output' # NoFile
          PROVE  \A i \in so_far + 1 .. n : local'[i] \in Plan
      BY <1>3, <1>6, <3>1 DEF AllDumped
    <3>2. QED
      BY <1>7, <1>9, <2>1, <3>1
  <2>4. so_far + 1 <= n /\ so_far <= n
    BY <1>3, <1>7
  <2>5. FilesAtProcessReform'
    BY <1>5, <1>7, <2>1, <2>2, <2>3, <2>4 DEF FilesAtProcessReform, Numbered, Readable
  <2>6. QED
    BY <1>1, <2>5 DEF Files, FilesAtPlan, FilesAtProcessPlan, FilesAfterPlan, FilesAtReformulate,
                     FilesAfterReform
<1>13. /\ Forbidden = {local'[i] : i \in 1 .. so_far}
       /\ \A i, j \in 1 .. so_far : local'[i] = local'[j] => i = j
  <2>1. Forbidden # Broken
    BY <1>1 DEF Reformulating
  <2>2. /\ Forbidden = {local[i] : i \in 1 .. so_far}
        /\ \A i, j \in 1 .. so_far : local[i] = local[j] => i = j
    BY <1>2, <1>5, <2>1 DEF ForbiddenFiles, Different
  <2>3. QED
    BY <1>7, <2>2
<1>14. ForbiddenFiles' /\ FoundIsNew'
  <2>1. ForbiddenFiles'
    BY <1>5, <1>13 DEF ForbiddenFiles, Different
  <2>2. FoundIsNew'
    BY <1>1 DEF FoundIsNew
  <2>3. QED
    BY <2>1, <2>2
<1>15. NewTask'
  <2>1. SUFFICES ASSUME output' \notin {NoFile, Broken}
                 PROVE  /\ output' = {local'[i] : i \in DOMAIN local'}
                        /\ \A i, j \in DOMAIN local' : local'[i] = local'[j] => i = j
    BY DEF NewTask, Different
  <2>2. /\ output' = Forbidden \cup GraphPlans
        /\ \A i \in so_far + 1 .. n : local'[i] \in GraphPlans
        /\ \A i, j \in so_far + 1 .. n : local'[i] = local'[j] => i = j
        /\ \A p \in GraphPlans : \E i \in so_far + 1 .. n : local'[i] = p
    BY <1>6, <2>1 DEF AllDumped
  <2>3. \A i \in 1 .. so_far : local'[i] \in Forbidden /\ i \in 1 .. n
    BY <1>3, <1>7, <1>13
  <2>4. \A i \in so_far + 1 .. n : i \in 1 .. n
    BY <1>3
  <2>5. output' = {local'[i] : i \in 1 .. n}
    <3>1. ASSUME NEW x \in output'
          PROVE  \E i \in 1 .. n : x = local'[i]
      <4>1. CASE x \in Forbidden
        BY <1>13, <2>3, <4>1
      <4>2. CASE x \in GraphPlans
        BY <2>2, <2>4, <4>2
      <4>3. QED
        BY <2>2, <4>1, <4>2
    <3>2. \A i \in 1 .. n : local'[i] \in output'
      BY <1>9, <2>2, <2>3
    <3>3. QED
      BY <3>1, <3>2
  <2>6. \A i, j \in 1 .. n : local'[i] = local'[j] => i = j
    BY <1>3, <1>9, <1>13, <2>2, <2>3
  <2>7. QED
    BY <1>7, <2>5, <2>6
<1>16. Copies'
  <2>1. ASSUME NEW f \in {final, filtered}, NEW i \in DOMAIN f
        PROVE  /\ i <= so_far + 1
               /\ (i \in DOMAIN local' /\ local'[i] \in Plan) => f[i] = local'[i]
    <3>1. /\ i <= so_far + 1 /\ i \in Nat \ {0}
          /\ (i \in DOMAIN local /\ local[i] \in Plan) => f[i] = local[i]
      BY <1>2, <1>5 DEF Copies, TypeOK, IsFolder
    <3>2. i \in 1 .. so_far \/ i = so_far + 1
      BY <1>3, <3>1
    <3>3. CASE i \in 1 .. so_far
      BY <1>3, <1>7, <3>1, <3>3 DEF Readable
    <3>4. CASE i = so_far + 1
      BY <1>3, <1>4, <1>7, <3>1, <3>4, Sentinels
    <3>5. QED
      BY <3>2, <3>3, <3>4
  <2>2. QED
    BY <1>1, <1>5, <2>1 DEF Copies
<1>17. Counted'
  BY <1>1, <1>2, <1>3, <1>5, <1>7 DEF Counted
<1>18. CheaperAreForbidden'
  <2>1. SUFFICES ASSUME new_folder, NEW i \in DOMAIN local', i > so_far, local'[i] \in Plan,
                        NEW r \in Plan, Cost[r] < Cost[local'[i]]
                 PROVE  r \in Forbidden
    BY <1>1, <1>5 DEF CheaperAreForbidden, Reformulating
  <2>2. i \in so_far + 1 .. n
    BY <1>3, <1>7, <2>1
  <2>3. Cost[local'[i]] = Cost[last_plan]
    BY <1>3, <1>7, <2>1, <2>2, Sentinels
  <2>4. QED
    BY <1>2, <1>3, <1>4, <2>1, <2>3 DEF CheaperAreForbidden
<1>19. NoFaults'
  <2>1. SUFFICES ASSUME faults = {}, new_folder
                 PROVE  /\ \A i \in 1 .. n : local'[i] # Broken
                        /\ Forbidden # Broken /\ output' # Broken
                        /\ FewReorderings => output' # NoFile
    BY <1>1, <1>5, <1>7 DEF NoFaults
  <2>2. \A i \in 1 .. n : local'[i] \in Plan
    BY <1>3, <1>6, <1>7, <1>8, <1>9, <2>1
  <2>3. output' # Broken
    <3>1. Forbidden \cup GraphPlans \in SUBSET Plan
      BY <1>3
    <3>2. QED
      BY <1>6, <2>1, <3>1, Sentinels
  <2>4. QED
    BY <1>1, <1>6, <2>1, <2>2, <2>3, Sentinels DEF Reformulating
<1>20. Ended'
  BY <1>1, <1>2 DEF Ended, AssertionHoldsInNewFolder, CompleteAtEnd
<1>21. QED
  BY <1>10, <1>11, <1>12, <1>14, <1>15, <1>16, <1>17, <1>18, <1>19, <1>20 DEF Inv

-----------------------------------------------------------------------------
(* The end of an iteration.                                                *)

\* The task with the new file.
LEMMA TaskAdded ==
  ASSUME TypeOK, AddTask, task_counter # -1
  PROVE  /\ output \in (SUBSET Plan) \cup {Broken} /\ output' = NoFile
         /\ Forbidden' = output /\ task_counter' \in Nat /\ task_counter' \in DOMAIN tasks'
         /\ \A i \in DOMAIN tasks' : tasks'[i] \in (SUBSET Plan) \cup {Broken}
<1>1. /\ output # NoFile /\ output' = NoFile /\ task_counter' = task_counter + 1
      /\ tasks' = With(DeleteCurrent, task_counter + 1, output)
  BY DEF AddTask
<1>2. output \in (SUBSET Plan) \cup {Broken} /\ task_counter \in Nat
  BY <1>1 DEF TypeOK
<1>3. /\ DOMAIN tasks' = DOMAIN DeleteCurrent \cup {task_counter + 1}
      /\ tasks'[task_counter + 1] = output
      /\ \A i \in DOMAIN DeleteCurrent : i # task_counter + 1 => tasks'[i] = DeleteCurrent[i]
  BY <1>1 DEF With
<1>4. \A i \in DOMAIN DeleteCurrent : DeleteCurrent[i] \in (SUBSET Plan) \cup {Broken}
  BY DEF DeleteCurrent, Without, TypeOK
<1>5. \A i \in DOMAIN tasks' : tasks'[i] \in (SUBSET Plan) \cup {Broken}
  BY <1>2, <1>3, <1>4
<1>6. Forbidden' = output
  BY <1>1, <1>2, <1>3 DEF Forbidden
<1>7. QED
  BY <1>1, <1>2, <1>3, <1>5, <1>6

LEMMA IterationEnds ==
  ASSUME Inv, NextIteration \/ NoNewTask
  PROVE  Inv'
<1> DEFINE k == plan_counter
<1>1. /\ pc = "after_reform"
      /\ UNCHANGED <<number_of_plans, keep_tasks, clean_folder, faults, new_folder, relevant, plan_costs,
                     at, so_far, incomplete, local, final, filtered, unfiltered>>
  BY DEF NextIteration, NoNewTask, setting, manager, results
<1>2. /\ TypeOK /\ Counters /\ TaskFiles /\ Files
      /\ ForbiddenFiles /\ FoundIsNew /\ NewTask
      /\ Copies /\ Counted /\ CheaperAreForbidden /\ NoFaults /\ Ended
      /\ k \in Nat /\ so_far \in Nat /\ so_far <= k
  BY Types DEF Inv
<1>3. /\ k' = k /\ enough_plans_found' = enough_plans_found
      /\ get_number_valid_plans' = get_number_valid_plans
  BY <1>1 DEF plan_counter, enough_plans_found, get_number_valid_plans
<1>4. get_number_valid_plans \in Nat /\ number_of_plans \in Nat
  <2>1. Top \in Nat
    BY <1>2 DEF Top
  <2>2. QED
    BY <1>1, <1>2, <2>1, ProcessedFiles DEF Counters
<1>5. CASE NextIteration
  <2>1. /\ AddTask /\ first' = FALSE /\ task_counter # -1
        /\ IF enough_plans_found THEN Exit("success") ELSE Goto("plan")
    BY <1>1, <1>2, <1>5 DEF NextIteration, TaskFiles
  <2>2. /\ output \in (SUBSET Plan) \cup {Broken} /\ output # NoFile /\ output' = NoFile
        /\ Forbidden' = output /\ task_counter' \in Nat /\ task_counter' \in DOMAIN tasks'
        /\ \A i \in DOMAIN tasks' : tasks'[i] \in (SUBSET Plan) \cup {Broken}
    BY <1>2, <2>1, TaskAdded DEF AddTask
  <2>3. TypeOK'
    <3>1. first' \in BOOLEAN /\ folder' \in BOOLEAN /\ pc' \in Labels
      BY <1>2, <2>1 DEF Exit, Goto, Labels, TypeOK
    <3>2. QED
      BY <1>1, <1>2, <1>3, <2>2, <3>1 DEF TypeOK
  <2>4. CASE enough_plans_found
    <3>1. pc' = "exited" /\ status' = "success"
      BY <2>1, <2>4 DEF Exit
    <3>2. ~ (get_number_valid_plans < number_of_plans)
      BY <1>4, <2>4 DEF enough_plans_found
    <3>3. ~ (get_number_valid_plans < number_of_plans)'
      BY <1>1, <1>3, <3>2
    <3>4. Ended'
      BY <3>1, <3>3 DEF Ended, AssertionHoldsInNewFolder, CompleteAtEnd
    <3>5. QED
      BY <1>1, <2>3, <3>1, <3>4, EndOfRun DEF setting
  <2>5. CASE ~ enough_plans_found
    <3>1. pc' = "plan" /\ UNCHANGED <<folder, status>>
      BY <2>1, <2>5 DEF Goto
    <3>2. Numbered(k) /\ Readable(k) /\ k > so_far
      BY <1>1, <1>2, <2>2, <2>5 DEF Files, FilesAfterReform
    <3>3. Base' = k /\ Top = k /\ Top' = k /\ task_counter' # -1
      BY <1>1, <1>2, <1>3, <2>2, <3>1, <3>2 DEF Base, Top
    <3>4. Counters' /\ TaskFiles'
      BY <1>1, <1>2, <2>1, <2>2, <3>1, <3>3 DEF Counters, TaskFiles
    <3>5. Files'
      <4>1. FilesAtPlan'
        BY <1>1, <1>3, <2>1, <3>1, <3>2 DEF FilesAtPlan, Numbered, Readable
      <4>2. QED
        BY <3>1, <4>1 DEF Files, FilesAtProcessPlan, FilesAfterPlan, FilesAtReformulate,
                          FilesAtProcessReform, FilesAfterReform
    <3>6. ForbiddenFiles'
      <4>1. SUFFICES ASSUME output # Broken
                     PROVE  /\ output = {local[i] : i \in 1 .. k}
                            /\ \A i, j \in 1 .. k : local[i] = local[j] => i = j
        BY <1>1, <2>2, <3>3 DEF ForbiddenFiles, Different
      <4>2. /\ output = {local[i] : i \in DOMAIN local}
            /\ \A i, j \in DOMAIN local : local[i] = local[j] => i = j
        BY <1>1, <1>2, <2>2, <4>1 DEF NewTask, Different
      <4>3. DOMAIN local = 1 .. k
        BY <3>2 DEF Numbered
      <4>4. QED
        BY <4>2, <4>3
    <3>7. FoundIsNew' /\ NewTask' /\ CheaperAreForbidden'
      BY <3>1 DEF FoundIsNew, NewTask, CheaperAreForbidden
    <3>8. Copies'
      BY <1>1, <1>2, <3>3 DEF Copies
    <3>9. Counted'
      BY <1>1, <1>2, <1>3 DEF Counted
    <3>10. NoFaults'
      BY <1>1, <1>2, <2>2, <3>1, Sentinels DEF NoFaults
    <3>11. Ended'
      BY <1>1, <1>2, <3>1 DEF Ended, AssertionHoldsInNewFolder, CompleteAtEnd
    <3>12. QED
      BY <2>3, <3>4, <3>5, <3>6, <3>7, <3>8, <3>9, <3>10, <3>11 DEF Inv
  <2>6. QED
    BY <2>4, <2>5
<1>6. CASE NoNewTask
  <2>1. /\ pc' = "exited" /\ folder' \in {FALSE, folder} /\ output = NoFile
        /\ status' = (IF enough_plans_found THEN "success" ELSE "no_new_task")
        /\ UNCHANGED <<first, output, task_counter, tasks>>
    BY <1>6 DEF NoNewTask, Exit, taskfiles
  <2>2. TypeOK'
    BY <1>1, <1>2, <1>3, <2>1 DEF TypeOK, Labels
  <2>3. status' # "assertion_failed"
    BY <2>1
  <2>4. ~ (faults = {} /\ new_folder /\ FewReorderings)
    BY <1>1, <1>2, <2>1 DEF NoFaults
  <2>5. CompleteAtEnd'
    BY <1>1, <2>4 DEF CompleteAtEnd, FewReorderings
  <2>6. Ended'
    BY <2>1, <2>3, <2>5 DEF Ended, AssertionHoldsInNewFolder
  <2>7. QED
    BY <1>1, <2>1, <2>2, <2>6, EndOfRun DEF setting
<1>7. QED
  BY <1>5, <1>6

LEMMA Stutter ==
  ASSUME Inv, UNCHANGED vars
  PROVE  Inv'
<1>1. /\ UNCHANGED <<number_of_plans, keep_tasks, clean_folder, faults, new_folder, relevant>>
      /\ UNCHANGED <<pc, first, plan_costs, at, so_far, incomplete, local>>
      /\ UNCHANGED <<final, filtered, unfiltered, output, task_counter, tasks, folder, status>>
  BY DEF vars, setting, manager, results, taskfiles
<1>2. /\ plan_counter' = plan_counter /\ Forbidden' = Forbidden /\ Base' = Base /\ Clean' = Clean
      /\ Top' = Top /\ FewReorderings' = FewReorderings /\ enough_plans_found' = enough_plans_found
      /\ get_number_valid_plans' = get_number_valid_plans /\ delivered' = delivered
  BY <1>1 DEF plan_counter, Forbidden, Base, Clean, Top, FewReorderings, enough_plans_found,
              get_number_valid_plans, delivered
<1>3. (TypeOK /\ Counters /\ TaskFiles)'
  BY <1>1, <1>2 DEF Inv, TypeOK, Counters, TaskFiles
<1>4. Files'
  BY <1>1, <1>2 DEF Inv, Files, FilesAtPlan, FilesAtProcessPlan, FilesAfterPlan, FilesAtReformulate,
                    FilesAtProcessReform, FilesAfterReform, Numbered, Readable
<1>5. (ForbiddenFiles /\ FoundIsNew /\ NewTask)'
  BY <1>1, <1>2 DEF Inv, ForbiddenFiles, FoundIsNew, NewTask, Different
<1>6. (Copies /\ Counted /\ CheaperAreForbidden)'
  BY <1>1, <1>2 DEF Inv, Copies, Counted, CheaperAreForbidden
<1>7. (NoFaults /\ Ended)'
  BY <1>1, <1>2 DEF Inv, NoFaults, Ended, AssertionHoldsInNewFolder, CompleteAtEnd
<1>8. QED
  BY <1>3, <1>4, <1>5, <1>6, <1>7 DEF Inv

-----------------------------------------------------------------------------
(* What holds in every run.                                                *)

\* The inductive invariant holds in every state: plan files, task files and
\* counters of find_plans fit together between any two calls.
THEOREM Invariance == Spec => []Inv
<1>1. Init => Inv
  BY InitInv
<1>2. Inv /\ [Next]_vars => Inv'
  <2>1. SUFFICES ASSUME Inv, [Next]_vars
                 PROVE  Inv'
    OBVIOUS
  <2>2. CASE PlanFound \/ PlanNotFound \/ PlanCrash
    BY <2>1, <2>2, PlanCall
  <2>3. CASE \/ CallTimeout \/ CallRaises
             \/ ProcessTimeout \/ ProcessRaises \/ ProcessNoVerdict
    BY <2>1, <2>3, FaultEnds
  <2>4. CASE ProcessingDone
    BY <2>1, <2>4, ProcessingEnds
  <2>5. CASE ProcessIncomplete
    BY <2>1, <2>5, IncompleteRemoved
  <2>6. CASE ProcessChecked \/ ProcessPartialVerdict
    BY <2>1, <2>6, PlanCounted
  <2>7. CASE NoPlanFound \/ AssertionFails \/ EnoughAfterPlan
    BY <2>1, <2>7, AfterPlanEnds
  <2>8. CASE PrepareReformulation
    BY <2>1, <2>8, ReformulationPrepared
  <2>9. CASE Reformulate \/ DumpEnough \/ ReformulateCrash
    BY <2>1, <2>9, ReformulationCall
  <2>10. CASE NextIteration \/ NoNewTask
    BY <2>1, <2>10, IterationEnds
  <2>11. CASE UNCHANGED vars
    BY <2>1, <2>11, Stutter
  <2>12. QED
    BY <2>1, <2>2, <2>3, <2>4, <2>5, <2>6, <2>7, <2>8, <2>9, <2>10, <2>11 DEF Next
<1>3. QED
  BY <1>1, <1>2, PTL DEF Spec

\* Every variable keeps its type: plan and task files are what the code reads
\* them as, in whatever state a fault leaves them.
THEOREM TypeCorrect == Spec => []TypeOK
<1>1. Inv => TypeOK
  BY DEF Inv
<1>2. QED
  BY <1>1, Invariance, PTL

\* The task of each call of the cost-optimal planner forbids the plans of the
\* processed files, one file each, although find_plans forgets the last plan
\* before each reformulation and processes it again.
THEOREM ForbiddenProcessed == Spec => []ForbiddenIsProcessed
<1>1. Inv => ForbiddenIsProcessed
  <2>1. SUFFICES ASSUME Inv, pc = "plan", Forbidden # Broken
                 PROVE  /\ 1 .. plan_counter \subseteq DOMAIN local
                        /\ Forbidden = {local[i] : i \in 1 .. plan_counter}
                        /\ Cardinality(Forbidden) = plan_counter
    BY DEF ForbiddenIsProcessed
  <2>2. Base = plan_counter /\ plan_counter \in Nat
    BY <2>1, Types DEF Base, Inv
  <2>3. /\ Forbidden = {local[i] : i \in 1 .. plan_counter}
        /\ \A i, j \in 1 .. plan_counter : local[i] = local[j] => i = j
    BY <2>1, <2>2 DEF Inv, ForbiddenFiles, Different
  <2>4. Cardinality({local[i] : i \in 1 .. plan_counter}) = plan_counter
    BY <2>2, <2>3, CountsFiles
  <2>5. 1 .. plan_counter \subseteq DOMAIN local
    <3>1. CASE first
      BY <2>1, <2>2, <3>1 DEF Inv, TaskFiles
    <3>2. CASE ~ first
      BY <2>1, <3>2 DEF Inv, Files, FilesAtPlan, Numbered
    <3>3. QED
      BY <3>1, <3>2
  <2>6. QED
    BY <2>3, <2>4, <2>5
<1>2. QED
  BY <1>1, Invariance, PTL

\* Between two calls every counted plan has its one copy, among the results or
\* the filtered plans, under the number of its file.
THEOREM AllAccounted == Spec => []Accounted
<1>1. Inv => Accounted
  <2>1. SUFFICES ASSUME Inv, pc \in {"plan", "after_plan", "after_reform"},
                        "partial_verdict" \notin faults, NEW i \in 1 .. plan_counter
                 PROVE  /\ i \in DOMAIN local /\ local[i] \in Plan
                        /\ plan_costs[i] = Cost[local[i]]
                        /\ \/ /\ i \in DOMAIN final /\ i \notin DOMAIN filtered
                              /\ final[i] = local[i]
                           \/ /\ i \in DOMAIN filtered /\ i \notin DOMAIN final
                              /\ filtered[i] = local[i]
    BY DEF Accounted, Inv
  <2>2. i \in DOMAIN local /\ local[i] \in Plan
    <3>1. CASE pc = "plan" /\ first
      BY <2>1, <3>1, Types DEF Inv, TaskFiles, Base
    <3>2. CASE pc = "plan" /\ ~ first
      BY <2>1, <3>2 DEF Inv, Files, FilesAtPlan, Readable
    <3>3. CASE pc \in {"after_plan", "after_reform"}
      BY <2>1, <3>3 DEF Inv, Files, FilesAfterPlan, FilesAfterReform, Readable
    <3>4. QED
      BY <2>1, <3>1, <3>2, <3>3
  <2>3. /\ plan_costs[i] = Cost[local[i]]
        /\ \/ i \in DOMAIN final /\ i \notin DOMAIN filtered
           \/ i \in DOMAIN filtered /\ i \notin DOMAIN final
    BY <2>1 DEF Inv, Counted
  <2>4. /\ i \in DOMAIN final => final[i] = local[i]
        /\ i \in DOMAIN filtered => filtered[i] = local[i]
    BY <2>1, <2>2 DEF Inv, Copies
  <2>5. QED
    BY <2>2, <2>3, <2>4
<1>2. QED
  BY <1>1, Invariance, PTL

\* In a new folder find_plans never meets a second new plan file after a call
\* of the cost-optimal planner: its assertion cannot fail.
THEOREM AssertionHolds == Spec => []AssertionHoldsInNewFolder
<1>1. Inv => AssertionHoldsInNewFolder
  BY DEF Inv, Ended
<1>2. QED
  BY <1>1, Invariance, PTL

\* A run without faults that ends with too few plans has delivered all the
\* relevant plans there are.
THEOREM Complete == Spec => []CompleteAtEnd
<1>1. Inv => CompleteAtEnd
  BY DEF Inv, Ended
<1>2. QED
  BY <1>1, Invariance, PTL

-----------------------------------------------------------------------------
(* The promise of a relevant top-k planner.                                *)

\* A checked plan that is relevant is delivered in its turn: it is below the
\* number of plans, and every cheaper relevant plan is there already.
LEMMA CheckedKeepsPromise ==
  ASSUME Inv, ProcessChecked \/ ProcessPartialVerdict, UNCHANGED setting
  PROVE  Promise!Next \/ delivered' = delivered
<1>1. /\ PlanToProcess /\ local[at] \in Plan
      /\ \/ local[at] \in relevant /\ at \in DOMAIN final' /\ filtered' = filtered
         \/ local[at] \notin relevant /\ at \in DOMAIN filtered' /\ final' = final
         \/ "partial_verdict" \in faults /\ final' = final /\ filtered' = filtered
      /\ \A i \in DOMAIN final' :
           (i = at /\ final'[i] = local[i]) \/ (i \in DOMAIN final /\ final'[i] = final[i])
      /\ DOMAIN final \subseteq DOMAIN final'
  BY Verdict
<1>2. /\ at = plan_counter + 1 /\ at \in DOMAIN local /\ at > so_far
      /\ plan_counter \in Nat /\ so_far \in Nat /\ so_far <= plan_counter
      /\ Top = plan_counter \/ Top = plan_counter + 1
  BY <1>1, ToProcess
<1>3. pc \in {"process_plan", "process_reform"} /\ ~ enough_plans_found
  BY <1>1 DEF PlanToProcess
<1>4. CASE final' = final
  BY <1>4 DEF delivered
<1>5. CASE local[at] \in relevant /\ at \in DOMAIN final'
  <2> DEFINE p == local[at]
  <2>1. at \in DOMAIN final => final[at] = p
    BY <1>1, <1>2, <1>3 DEF Inv, Copies
  <2>2. final'[at] = p
    BY <1>1, <1>5, <2>1
  <2>3. \A i \in DOMAIN final : final'[i] = final[i]
    BY <1>1, <2>1, <2>2
  <2>4. delivered' = delivered \cup {p}
    <3>1. \A i \in DOMAIN final' : final'[i] = p \/ final'[i] \in delivered
      BY <1>1 DEF delivered
    <3>2. \A i \in DOMAIN final : final[i] \in delivered'
      BY <1>1, <2>3 DEF delivered
    <3>3. p \in delivered'
      BY <1>5, <2>2 DEF delivered
    <3>4. QED
      BY <3>1, <3>2, <3>3 DEF delivered
  <2>5. CASE p \in delivered
    BY <2>4, <2>5
  <2>6. CASE p \notin delivered
    <3>1. Cardinality(delivered) < number_of_plans
      <4>1. Top \in Nat /\ DOMAIN final \subseteq Nat \ {0} /\ \A i \in DOMAIN final : i <= Top
        BY <1>2, <1>3 DEF Inv, Copies, TypeOK, IsFolder
      <4>2. /\ Cardinality(DOMAIN final) \in Nat /\ Cardinality(delivered) <= Cardinality(DOMAIN final)
            /\ IsFiniteSet(delivered)
        BY <4>1, Delivered DEF delivered
      <4>3. Cardinality(delivered) \in Nat
        BY <4>2, FS_CardinalityType
      <4>4. number_of_plans \in Nat /\ Cardinality(DOMAIN final) < number_of_plans
        BY <1>3, <4>2 DEF Inv, Counters, enough_plans_found, get_number_valid_plans
      <4>5. QED
        BY <4>2, <4>3, <4>4
    <3>2. ASSUME new_folder /\ "partial_verdict" \notin faults,
                 NEW r \in relevant, Cost[r] < Cost[p]
          PROVE  r \in delivered
      <4>1. relevant \subseteq Plan
        BY DEF Inv, TypeOK
      <4>2. Forbidden # Broken /\ r \in Forbidden
        BY <1>1, <1>2, <1>3, <3>2, <4>1 DEF Inv, CheaperAreForbidden
      <4>3. QED
        BY <1>3, <3>2, <4>2, ForbiddenDelivered
    <3>3. (new_folder /\ "partial_verdict" \notin faults) => Promise!Cheapest(p, delivered)
      BY <3>2 DEF Promise!Cheapest
    <3>4. UNCHANGED <<number_of_plans, new_folder /\ "partial_verdict" \notin faults, relevant>>
      BY DEF setting
    <3>5. Promise!Deliver(p)
      <4>1. Promise!Cardinality(delivered) = Cardinality(delivered)
        BY DEF Promise!Cardinality, Cardinality
      <4>2. QED
        BY <1>5, <2>4, <2>6, <3>1, <3>3, <3>4, <4>1 DEF Promise!Deliver
    <3>6. QED
      BY <1>1, <3>5 DEF Promise!Next
  <2>7. QED
    BY <2>5, <2>6
<1>6. QED
  BY <1>1, <1>4, <1>5

\* Of all steps only a checked plan can change what is delivered.
LEMMA StepKeepsPromise ==
  ASSUME Inv, [Next]_vars
  PROVE  \/ Promise!Next
         \/ UNCHANGED <<number_of_plans, new_folder /\ "partial_verdict" \notin faults,
                        relevant, delivered>>
<1>1. UNCHANGED <<number_of_plans, new_folder, faults, relevant>> /\ UNCHANGED setting
  BY DEF Next, vars, setting, PlanFound, PlanNotFound, PlanCrash, CallTimeout, CallRaises,
         ProcessingDone, ProcessIncomplete, ProcessChecked, ProcessPartialVerdict,
         ProcessNoVerdict, ProcessTimeout, ProcessRaises, NoPlanFound, AssertionFails,
         EnoughAfterPlan, PrepareReformulation, Reformulate, DumpEnough, ReformulateCrash,
         NextIteration, NoNewTask
<1>2. CASE ProcessChecked \/ ProcessPartialVerdict
  <2>1. Promise!Next \/ delivered' = delivered
    BY <1>1, <1>2, CheckedKeepsPromise
  <2>2. QED
    BY <1>1, <2>1
<1>3. CASE ~ (ProcessChecked \/ ProcessPartialVerdict)
  <2>1. final' = final
    BY <1>3 DEF Next, vars, results, PlanFound, PlanNotFound, PlanCrash, CallTimeout, CallRaises,
         ProcessingDone, ProcessIncomplete,
         ProcessNoVerdict, ProcessTimeout, ProcessRaises, NoPlanFound, AssertionFails,
         EnoughAfterPlan, PrepareReformulation, Reformulate, DumpEnough, ReformulateCrash,
         NextIteration, NoNewTask
  <2>2. delivered' = delivered
    BY <2>1 DEF delivered
  <2>3. QED
    BY <1>1, <2>2
<1>4. QED
  BY <1>2, <1>3

\* find_plans implements the promise of a relevant top-k planner: plans are
\* delivered one by one, relevant ones only, never more than were asked for,
\* and the cheaper before the dearer, whatever call fails in between.
THEOREM KeepsPromise == Spec => PromiseKept
<1>1. Init => Promise!Init
  BY DEF Init, Promise!Init, delivered
<1>2. Inv /\ [Next]_vars =>
        [Promise!Next]_<<number_of_plans, new_folder /\ "partial_verdict" \notin faults,
                         relevant, delivered>>
  BY StepKeepsPromise
<1>3. QED
  BY <1>1, <1>2, Invariance, PTL DEF Spec, PromiseKept, Promise!Spec
=============================================================================
