----------------------------- MODULE SweepProof -----------------------------
(* Proofs about the lists of samples, for every number of children,        *)
(* repetitions and sizes, and all durations.                               *)
EXTENDS MCSweep, FiniteSetTheorems, WellFoundedInduction, TLAPS

(* Every non-empty set of naturals has a least element.                    *)
LEMMA Least ==
    ASSUME NEW T \in SUBSET Nat, T # {}
    PROVE  \E x \in T : \A y \in T : x <= y
<1> DEFINE Less == {ss \in Nat \X Nat : ss[1] < ss[2]}
<1>1. IsWellFoundedOn(Less, Nat) BY NatLessThanWellFounded DEF OpToRel
<1>2. PICK x \in T : \A y \in T : ~ (<<y, x>> \in Less)
  <2> HIDE DEF Less
  <2> QED BY <1>1, WFMin
<1>3. ASSUME NEW y \in T PROVE x <= y
  <2>1. x \in Nat /\ y \in Nat OBVIOUS
  <2>2. ~ (y < x) BY <1>2, <2>1
  <2> QED BY <2>1, <2>2
<1> QED BY <1>3

(* The slot of a sample exists, for every list.                            *)
LEMMA SlotExists ==
    ASSUME NEW v \in Sample, NEW r \in Seq(Sample)
    PROVE  /\ Slot(v, r) \in 1 .. Len(r) + 1
           /\ Slot(v, r) <= Len(r) => Slower(v, r[Slot(v, r)])
           /\ \A k \in 1 .. Slot(v, r) - 1 : ~ Slower(v, r[k])
<1> DEFINE T == {k \in 1 .. Len(r) + 1 : k <= Len(r) => Slower(v, r[k])}
<1>1. Len(r) + 1 \in T /\ T \in SUBSET Nat OBVIOUS
<1>2. PICK x \in T : \A y \in T : x <= y BY <1>1, Least
<1>3. \A k \in 1 .. x - 1 : ~ Slower(v, r[k])
  <2> TAKE k \in 1 .. x - 1
  <2>1. x \in 1 .. Len(r) + 1 OBVIOUS
  <2>2. k \in 1 .. Len(r) /\ k < x BY <2>1
  <2>3. k \notin T BY <1>2, <2>1, <2>2
  <2> QED BY <2>2, <2>3
<1>4. x \in 1 .. Len(r) + 1 /\ (x <= Len(r) => Slower(v, r[x])) OBVIOUS
<1> QED BY <1>3, <1>4 DEF Slot

(* insertsort() adds one sample at most, and keeps the list a list.        *)
LEMMA InsertType ==
    ASSUME NEW v \in Sample, NEW r \in Seq(Sample)
    PROVE  insertsort(v, r) \in Seq(Sample) /\ Len(insertsort(v, r)) <= Len(r) + 1
<1> DEFINE s == Slot(v, r)
           q == [k \in 1 .. Len(r) + 1 |-> IF k < s THEN r[k] ELSE IF k = s THEN v ELSE r[k - 1]]
<1>1. s \in 1 .. Len(r) + 1 BY SlotExists
<1> HIDE DEF s
<1>2. \A k \in 1 .. Len(r) + 1 : q[k] \in Sample
  <2> TAKE k \in 1 .. Len(r) + 1
  <2>1. CASE k < s
    <3>1. k \in 1 .. Len(r) BY <1>1, <2>1
    <3> QED BY <2>1, <3>1
  <2>2. CASE k = s BY <2>2
  <2>3. CASE k > s
    <3>1. k - 1 \in 1 .. Len(r) BY <1>1, <2>3
    <3> QED BY <2>3, <3>1, <1>1
  <2> QED BY <2>1, <2>2, <2>3, <1>1
<1>3. q \in Seq(Sample) /\ Len(q) = Len(r) + 1
  <2>1. Len(r) + 1 \in Nat OBVIOUS
  <2>2. q \in [1 .. Len(r) + 1 -> Sample] BY <1>2
  <2> QED BY <2>1, <2>2
<1>4. insertsort(v, r) \in {r, q} BY DEF insertsort, s
<1> QED BY <1>3, <1>4

(* insertsort() keeps an ordered list in order.                            *)
LEMMA InsertSorted ==
    ASSUME NEW v \in Sample, NEW r \in Seq(Sample), Sorted(r)
    PROVE  Sorted(insertsort(v, r))
<1> DEFINE s == Slot(v, r)
           q == [k \in 1 .. Len(r) + 1 |-> IF k < s THEN r[k] ELSE IF k = s THEN v ELSE r[k - 1]]
<1>1. s \in 1 .. Len(r) + 1 /\ (s <= Len(r) => Slower(v, r[s]))
      /\ \A k \in 1 .. s - 1 : ~ Slower(v, r[k])
  BY SlotExists
<1> HIDE DEF s
<1>2. ASSUME NEW k \in 2 .. Len(r) + 1 PROVE ~ Slower(q[k], q[k - 1])
  <2>1. CASE k < s
    <3>1. q[k] = r[k] /\ q[k - 1] = r[k - 1] /\ k \in 2 .. Len(r) BY <1>1, <2>1
    <3> QED BY <3>1 DEF Sorted
  <2>2. CASE k = s
    <3>1. q[k] = v /\ q[k - 1] = r[k - 1] /\ k - 1 \in 1 .. s - 1 BY <1>1, <2>2
    <3> QED BY <1>1, <3>1
  <2>3. CASE k = s + 1
    <3>1. q[k] = r[s] /\ q[k - 1] = v /\ s \in 1 .. Len(r) BY <1>1, <2>3
    <3>2. Slower(v, r[s]) BY <1>1, <3>1
    <3>3. r[s] \in Sample BY <3>1
    <3>4. v.u * r[s].n \in Int /\ r[s].u * v.n \in Int BY <3>3 DEF Sample
    <3>5. v.u * r[s].n > r[s].u * v.n BY <3>2 DEF Slower
    <3>6. ~ (r[s].u * v.n > v.u * r[s].n) BY <3>4, <3>5
    <3>7. ~ Slower(r[s], v) BY <3>6 DEF Slower
    <3> QED BY <3>1, <3>7
  <2>4. CASE k > s + 1
    <3>1. q[k] = r[k - 1] /\ q[k - 1] = r[k - 2] /\ k - 1 \in 2 .. Len(r) BY <1>1, <2>4
    <3>2. ~ Slower(r[k - 1], r[(k - 1) - 1]) BY <3>1 DEF Sorted
    <3> QED BY <3>1, <3>2
  <2> QED BY <2>1, <2>2, <2>3, <2>4, <1>1
<1>3. Len(q) = Len(r) + 1
  <2>1. Len(r) + 1 \in Nat OBVIOUS
  <2> QED BY <2>1
<1>4. Sorted(q) BY <1>2, <1>3 DEF Sorted
<1>5. insertsort(v, r) \in {r, q} BY DEF insertsort, s
<1> QED BY <1>4, <1>5

-----------------------------------------------------------------------------
LEMMA ConstantFacts ==
    /\ Parallel \in Nat \ {0} /\ Repetitions \in Int /\ TRIES \in Nat \ {0}
    /\ Wanted \in Nat \ {0} /\ Wanted >= Repetitions
    /\ Repetitions < 1 => Wanted = 1
    /\ Repetitions >= 1 => Wanted = Repetitions
BY ParallelAssumption, RepetitionsAssumption, TriesAssumption DEF Wanted

LEMMA EmptyList == <<>> \in Seq(Sample) /\ Len(<<>>) = 0 /\ Sorted(<<>>)
BY DEF Sorted

(* The children that reported can be counted.                              *)
LEMMA ToldFinite ==
    ASSUME TypeInv
    PROVE  /\ IsFiniteSet(told)
           /\ Cardinality(told) \in Nat /\ Cardinality(told) <= par
<1>1. told \subseteq 1 .. par /\ par \in Nat \ {0} BY ConstantFacts DEF TypeInv, Active
<1>2. IsFiniteSet(1 .. par) /\ Cardinality(1 .. par) = par
  <2>1. 1 \in Int /\ par \in Int /\ ~ (1 > par) /\ par - 1 + 1 = par BY <1>1
  <2>2. Cardinality(1 .. par) = IF 1 > par THEN 0 ELSE par - 1 + 1 BY <2>1, FS_Interval
  <2> QED BY <2>1, <2>2, FS_Interval
<1>3. IsFiniteSet(told) /\ Cardinality(told) <= par BY <1>1, <1>2, FS_Subset, Zenon
<1> QED BY <1>3, FS_CardinalityType

LEMMA InitCorrect == Init => IInv
<1> SUFFICES ASSUME Init PROVE IInv OBVIOUS
<1> USE DEF Init
<1>1. TypeInv BY ConstantFacts, EmptyList DEF TypeInv, Children, Active
<1>2. ListsSorted BY EmptyList DEF ListsSorted
<1>3. CountsInv
  <2>1. Cardinality(told) = 0 BY FS_EmptySet
  <2> QED BY <2>1, ConstantFacts, EmptyList DEF CountsInv, Children
<1> QED BY <1>1, <1>2, <1>3 DEF IInv

(* The lists of a new activation are empty.                                *)
LEMMA ActivateStep ==
    ASSUME NEW n \in {1, Parallel}, Activate(n), results' \in Seq(Sample), Sorted(results'),
           pc' \in {"size", "measure", "report", "print", "exit"}
    PROVE  IInv'
<1> USE DEF Activate
<1>1. TypeInv'
  <2>1. iterations' \in Nat \ {0} BY DataAssumption
  <2> QED BY <2>1, EmptyList, ConstantFacts DEF TypeInv, Children, Active
<1>2. ListsSorted' BY EmptyList DEF ListsSorted
<1>3. CountsInv'
  <2>1. Cardinality(told') = 0 BY FS_EmptySet
  <2>2. Len(merged') + Len(report') = 0 BY EmptyList
  <2>3. Cardinality(told)' * Wanted = 0 BY <2>1, ConstantFacts
  <2> QED BY <2>2, <2>3, ConstantFacts, EmptyList DEF CountsInv, Children
<1> QED BY <1>1, <1>2, <1>3 DEF IInv

LEMMA MeasureStep == ASSUME IInv, NEW c \in Children, Measure(c) PROVE IInv'
<1> USE DEF Measure
<1>1. PICK u \in Nat, n \in Nat \ {0} : list' = [list EXCEPT ![c] = insertsort([u |-> u, n |-> n], @)]
  BY DataAssumption DEF IInv, TypeInv
<1> DEFINE v == [u |-> u, n |-> n]
<1>2. v \in Sample BY DEF Sample
<1> HIDE DEF v
<1>3. list[c] \in Seq(Sample) /\ Sorted(list[c]) BY DEF IInv, TypeInv, ListsSorted
<1>4. /\ insertsort(v, list[c]) \in Seq(Sample) /\ Sorted(insertsort(v, list[c]))
      /\ Len(insertsort(v, list[c])) <= Len(list[c]) + 1
  BY <1>2, <1>3, InsertType, InsertSorted
<1>5. list' = [list EXCEPT ![c] = insertsort(v, list[c])] BY <1>1 DEF v
<1>6. TypeInv'
  <2>1. done' \subseteq Children BY DEF IInv, TypeInv
  <2> QED BY <1>4, <1>5, <2>1 DEF IInv, TypeInv, Active
<1>7. ListsSorted' BY <1>4, <1>5 DEF IInv, TypeInv, ListsSorted
<1>8. CountsInv'
  <2>1. ASSUME NEW d \in Children
        PROVE  Len(list'[d]) <= i'[d] /\ i'[d] <= Wanted /\ (d \in Active' \ done' => i'[d] < Wanted)
    <3>1. Len(list[d]) <= i[d] /\ i[d] <= Wanted /\ (d \in Active \ done => i[d] < Wanted)
      BY DEF IInv, CountsInv
    <3>2. i[d] \in Nat /\ Len(list[d]) \in Nat BY DEF IInv, TypeInv
    <3>3. CASE d # c BY <3>1, <1>5, <3>3 DEF IInv, TypeInv, Active
    <3>4. CASE d = c
      <4>1. list'[d] = insertsort(v, list[c]) /\ i'[d] = i[c] + 1 BY <1>5, <3>4 DEF IInv, TypeInv
      <4>2. Len(list'[d]) <= i'[d] BY <4>1, <1>4, <3>1, <3>2, <3>4
      <4>3. i[c] < Wanted BY <3>1, <3>4
      <4>4. i[c] + 1 < Repetitions \/ d \in done' BY <3>2, <3>4, ConstantFacts
      <4> QED BY <4>1, <4>2, <4>3, <4>4, <3>2, <3>4, ConstantFacts
    <3> QED BY <3>3, <3>4
  <2>2. Len(merged)' + Len(report)' <= Cardinality(told)' * Wanted BY DEF IInv, CountsInv
  <2> QED BY <2>1, <2>2 DEF CountsInv
<1> QED BY <1>6, <1>7, <1>8 DEF IInv

LEMMA ExhaustedStep == ASSUME IInv, NEW c \in Children, Exhausted(c) PROVE IInv'
<1>1. TypeInv' BY DEF IInv, TypeInv, Exhausted, Active
<1>2. ListsSorted' BY DEF IInv, ListsSorted, Exhausted
<1>3. CountsInv' BY DEF IInv, CountsInv, Exhausted, Active
<1> QED BY <1>1, <1>2, <1>3 DEF IInv

LEMMA ReportStep == ASSUME IInv, NEW c \in Children, Report(c) PROVE IInv'
<1> USE DEF Report
<1>1. TypeInv' BY DEF IInv, TypeInv, Active
<1>2. ListsSorted' BY DEF IInv, ListsSorted
<1>3. CountsInv'
  <2>1. IsFiniteSet(told) BY ToldFinite DEF IInv
  <2>2. Cardinality(told') = Cardinality(told) + 1 /\ Cardinality(told) \in Nat
    BY <2>1, FS_AddElement, FS_CardinalityType
  <2>3. Len(list[c]) <= Wanted /\ Len(list[c]) \in Nat
    BY ConstantFacts DEF IInv, TypeInv, CountsInv
  <2>4. Len(merged) + Len(report) <= Cardinality(told) * Wanted BY DEF IInv, CountsInv
  <2>5. Len(merged) \in Nat /\ Len(report) = 0 BY EmptyList DEF IInv, TypeInv
  <2>6. (Cardinality(told) + 1) * Wanted = Cardinality(told) * Wanted + Wanted
    BY <2>2, ConstantFacts
  <2>7. Cardinality(told) * Wanted \in Nat BY <2>2, ConstantFacts
  <2>8. Len(merged') + Len(report') <= Cardinality(told') * Wanted
    BY <2>2, <2>3, <2>4, <2>5, <2>6, <2>7, ConstantFacts
  <2> QED BY <2>8 DEF IInv, CountsInv, Active
<1> QED BY <1>1, <1>2, <1>3 DEF IInv

LEMMA MergeStep == ASSUME IInv, Merge PROVE IInv'
<1> USE DEF Merge
<1>1. report \in Seq(Sample) /\ report # <<>> /\ merged \in Seq(Sample) /\ Sorted(merged)
  BY DEF IInv, TypeInv, ListsSorted
<1>2. Head(report) \in Sample /\ Tail(report) \in Seq(Sample) /\ Len(Tail(report)) = Len(report) - 1
  BY <1>1
<1>3. merged' \in Seq(Sample) /\ Sorted(merged') /\ Len(merged') <= Len(merged) + 1
  BY <1>1, <1>2, InsertType, InsertSorted
<1>4. TypeInv' BY <1>2, <1>3 DEF IInv, TypeInv, Active
<1>5. ListsSorted' BY <1>3 DEF IInv, ListsSorted
<1>6. CountsInv'
  <2>1. Len(merged) \in Nat /\ Len(merged') \in Nat /\ Len(report) \in Nat BY <1>1, <1>3
  <2>2. Len(merged') + Len(report') <= Len(merged) + Len(report) BY <1>2, <1>3, <2>1
  <2>3. \A c \in Children : (Len(list[c]) <= i[c] /\ i[c] <= Wanted
                              /\ (c \in Active \ done => i[c] < Wanted))'
    BY DEF IInv, CountsInv, Active
  <2>4. Len(merged) + Len(report) <= Cardinality(told) * Wanted BY DEF IInv, CountsInv
  <2>5. Cardinality(told) * Wanted \in Int
    <3>1. Cardinality(told) \in Nat BY ToldFinite DEF IInv
    <3> QED BY <3>1, ConstantFacts
  <2>6. Len(merged') + Len(report') <= Cardinality(told) * Wanted
    BY <1>2, <2>1, <2>2, <2>4, <2>5
  <2> QED BY <2>3, <2>6 DEF CountsInv
<1> QED BY <1>4, <1>5, <1>6 DEF IInv

LEMMA PublishStep == ASSUME IInv, Publish PROVE IInv'
<1> USE DEF Publish
<1>1. results' \in Seq(Sample) /\ Sorted(results') BY DEF IInv, TypeInv, ListsSorted
<1>2. CASE Activate(Parallel) /\ pc' = "measure" BY <1>1, <1>2, ActivateStep
<1>3. CASE UNCHANGED <<par, iterations, groupVars>> /\ pc' = "print"
  <2> USE <1>1, <1>3 DEF groupVars
  <2>1. TypeInv' BY DEF IInv, TypeInv, Active
  <2>2. ListsSorted' BY DEF IInv, ListsSorted
  <2>3. CountsInv' BY DEF IInv, CountsInv, Active
  <2> QED BY <2>1, <2>2, <2>3 DEF IInv
<1> QED BY <1>2, <1>3

LEMMA StepCorrect == IInv /\ [Next]_vars => IInv'
<1> SUFFICES ASSUME IInv, [Next]_vars PROVE IInv' OBVIOUS
<1>1. CASE Call
  <2>1. results \in Seq(Sample) /\ Sorted(results) BY DEF IInv, TypeInv, ListsSorted
  <2> QED BY <1>1, <2>1, ActivateStep DEF Call
<1>2. ASSUME UNCHANGED <<par, iterations, groupVars, results>>,
             pc' \in {"size", "measure", "report", "print", "exit"}
      PROVE  IInv'
  <2> USE <1>2 DEF groupVars
  <2>1. TypeInv' BY DEF IInv, TypeInv, Active
  <2>2. ListsSorted' BY DEF IInv, ListsSorted
  <2>3. CountsInv' BY DEF IInv, CountsInv, Active
  <2> QED BY <2>1, <2>2, <2>3 DEF IInv
<1>3. CASE Skip \/ Exit \/ AllDone \/ GiveUp \/ PrintLine
  BY <1>2, <1>3 DEF Skip, Exit, AllDone, GiveUp, PrintLine, IInv, TypeInv
<1>4. CASE UNCHANGED vars BY <1>2, <1>4 DEF vars, groupVars, IInv, TypeInv
<1>5. CASE \E c \in Children : Measure(c) \/ Exhausted(c) \/ Report(c)
  BY <1>5, MeasureStep, ExhaustedStep, ReportStep
<1>6. CASE Merge BY <1>6, MergeStep
<1>7. CASE Publish BY <1>7, PublishStep
<1> QED BY <1>1, <1>3, <1>4, <1>5, <1>6, <1>7 DEF Next

THEOREM IInvCorrect == Spec => []IInv
<1>1. Init => IInv BY InitCorrect
<1>2. IInv /\ [Next]_vars => IInv' BY StepCorrect
<1> QED BY <1>1, <1>2, PTL DEF Spec

(* Every list is in order at all times: whatever samples were taken, in    *)
(* whichever order the children report, and whatever fails.                *)
THEOREM SortedCorrect == Spec => []ListsSorted
<1>1. IInv => ListsSorted BY DEF IInv
<1> QED BY <1>1, IInvCorrect, PTL

(* No list outgrows its array, if every child may take a sample of its own *)
(* or there are at most TRIES children (RoomAssumption).                   *)
THEOREM CapacityCorrect == Spec => []WithinCapacity
<1>1. IInv => WithinCapacity
  <2> SUFFICES ASSUME IInv PROVE WithinCapacity OBVIOUS
  <2>1. ASSUME NEW c \in Children PROVE Len(list[c]) <= sizeof_result(Repetitions)
    <3>1. Len(list[c]) <= i[c] /\ i[c] <= Wanted /\ i[c] \in Nat /\ Len(list[c]) \in Nat
      BY DEF IInv, CountsInv, TypeInv
    <3> QED BY <3>1, ConstantFacts DEF sizeof_result
  <2>2. Len(merged) <= sizeof_result(par * Repetitions)
    <3>1. par \in Nat \ {0} /\ par <= Parallel BY ConstantFacts DEF IInv, TypeInv
    <3>2. Cardinality(told) \in Nat /\ Cardinality(told) <= par BY ToldFinite DEF IInv
    <3>3. Len(merged) \in Nat /\ Len(report) \in Nat BY DEF IInv, TypeInv
    <3>4. Len(merged) <= Cardinality(told) * Wanted
      <4>1. Len(merged) + Len(report) <= Cardinality(told) * Wanted BY DEF IInv, CountsInv
      <4>2. Cardinality(told) * Wanted \in Int BY <3>2, ConstantFacts
      <4> QED BY <3>3, <4>1, <4>2
    <3>5. Cardinality(told) * Wanted <= par * Wanted BY <3>1, <3>2, ConstantFacts
    <3>6. Len(merged) <= par * Wanted BY <3>1, <3>2, <3>3, <3>4, <3>5, ConstantFacts
    <3>7. CASE Repetitions >= 1
      <4>1. par * Repetitions \in Int BY <3>1, ConstantFacts
      <4> QED BY <3>3, <3>6, <3>7, <4>1, ConstantFacts DEF sizeof_result
    <3>8. CASE Repetitions < 1
      <4>1. Wanted = 1 /\ Parallel <= TRIES BY <3>8, RoomAssumption, ConstantFacts
      <4>2. Len(merged) <= TRIES BY <3>1, <3>3, <3>6, <4>1, ConstantFacts
      <4>3. par * Repetitions \in Int BY <3>1, ConstantFacts
      <4> QED BY <3>3, <4>2, <4>3, ConstantFacts DEF sizeof_result
    <3> QED BY <3>7, <3>8, ConstantFacts
  <2> QED BY <2>1, <2>2 DEF WithinCapacity
<1> QED BY <1>1, IInvCorrect, PTL

-----------------------------------------------------------------------------
(* What a list holds: insertsort() keeps every sample that was there, adds *)
(* the new one, and adds nothing else.                                     *)
Within(r, T) == \A k \in DOMAIN r : r[k] \in T
Has(r, v) == \E k \in DOMAIN r : r[k] = v

(* insertsort() of a sample that took time, spelled out.                   *)
LEMMA InsertShape ==
    ASSUME NEW v \in Sample, NEW r \in Seq(Sample), v.u # 0
    PROVE  LET s == Slot(v, r)  q == insertsort(v, r) IN
           /\ s \in 1 .. Len(r) + 1 /\ DOMAIN q = 1 .. Len(r) + 1 /\ q[s] = v
           /\ \A k \in 1 .. s - 1 : q[k] = r[k]
           /\ \A k \in s .. Len(r) : q[k + 1] = r[k]
<1> DEFINE s == Slot(v, r)
           q == insertsort(v, r)
<1>1. s \in 1 .. Len(r) + 1 BY SlotExists
<1>2. q = [k \in 1 .. Len(r) + 1 |-> IF k < s THEN r[k] ELSE IF k = s THEN v ELSE r[k - 1]]
  BY DEF insertsort
<1> HIDE DEF s, q
<1>3. Len(r) \in Nat OBVIOUS
<1>4. ASSUME NEW k \in s .. Len(r) PROVE q[k + 1] = r[k]
  <2>1. k + 1 \in 1 .. Len(r) + 1 /\ ~ (k + 1 < s) /\ k + 1 # s /\ k + 1 - 1 = k BY <1>1, <1>3
  <2> QED BY <1>2, <2>1
<1>5. ASSUME NEW k \in 1 .. s - 1 PROVE q[k] = r[k]
  <2>1. k \in 1 .. Len(r) + 1 /\ k < s BY <1>1, <1>3
  <2> QED BY <1>2, <2>1
<1>6. q[s] = v /\ DOMAIN q = 1 .. Len(r) + 1 BY <1>1, <1>2, <1>3
<1> QED BY <1>1, <1>4, <1>5, <1>6 DEF s, q

LEMMA InsertMembers ==
    ASSUME NEW v \in Sample, NEW r \in Seq(Sample), NEW T, Within(r, T), v.u # 0 => v \in T
    PROVE  /\ Within(insertsort(v, r), T)
           /\ \A w : Has(r, w) => Has(insertsort(v, r), w)
           /\ v.u # 0 => Has(insertsort(v, r), v)
<1> DEFINE s == Slot(v, r)
           q == insertsort(v, r)
<1>1. CASE v.u = 0 BY <1>1 DEF insertsort
<1>2. CASE v.u # 0
  <2>1. /\ s \in 1 .. Len(r) + 1 /\ DOMAIN q = 1 .. Len(r) + 1 /\ q[s] = v
        /\ \A k \in 1 .. s - 1 : q[k] = r[k]
        /\ \A k \in s .. Len(r) : q[k + 1] = r[k]
    BY <1>2, InsertShape
  <2>2. Len(r) \in Nat /\ DOMAIN r = 1 .. Len(r) OBVIOUS
  <2> HIDE DEF s, q
  <2>3. ASSUME NEW k \in DOMAIN q PROVE q[k] \in T
    <3>1. CASE k < s
      <4>1. k \in 1 .. s - 1 /\ k \in DOMAIN r BY <2>1, <2>2, <3>1
      <4> QED BY <2>1, <4>1 DEF Within
    <3>2. CASE k = s BY <1>2, <2>1, <3>2
    <3>3. CASE k > s
      <4>1. k - 1 \in s .. Len(r) /\ k - 1 \in DOMAIN r /\ (k - 1) + 1 = k BY <2>1, <2>2, <3>3
      <4>2. q[k] = r[k - 1] BY <2>1, <4>1
      <4> QED BY <4>1, <4>2 DEF Within
    <3> QED BY <2>1, <2>2, <3>1, <3>2, <3>3
  <2>4. ASSUME NEW k \in DOMAIN r PROVE Has(q, r[k])
    <3>1. CASE k < s
      <4>1. k \in 1 .. s - 1 /\ k \in DOMAIN q BY <2>1, <2>2, <3>1
      <4> QED BY <2>1, <4>1 DEF Has
    <3>2. CASE ~ (k < s)
      <4>1. k \in s .. Len(r) /\ k + 1 \in DOMAIN q BY <2>1, <2>2, <3>2
      <4> QED BY <2>1, <4>1 DEF Has
    <3> QED BY <3>1, <3>2
  <2>5. Has(q, v) BY <2>1 DEF Has
  <2>6. \A w : Has(r, w) => Has(q, w) BY <2>4 DEF Has
  <2>7. Within(q, T) BY <2>3 DEF Within
  <2> QED BY <2>5, <2>6, <2>7 DEF q
<1> QED BY <1>1, <1>2

-----------------------------------------------------------------------------
(* The positions of a sample in a list can be counted.                     *)
LEMMA PositionsFinite ==
    ASSUME NEW r \in Seq(Sample), NEW w
    PROVE  IsFiniteSet(Positions(w, r)) /\ Cardinality(Positions(w, r)) \in Nat
<1>1. IsFiniteSet(1 .. Len(r)) /\ Positions(w, r) \subseteq 1 .. Len(r)
  BY FS_Interval DEF Positions
<1> QED BY <1>1, FS_Subset, FS_CardinalityType

(* Two sets of numbers of which one is the other shifted.                  *)
LEMMA SameCount ==
    ASSUME NEW S, NEW T, IsFiniteSet(S), NEW f \in [S -> T],
           \A x, y \in S : f[x] = f[y] => x = y, \A y \in T : \E x \in S : f[x] = y
    PROVE  IsFiniteSet(T) /\ Cardinality(T) = Cardinality(S)
<1>1. f \in Injection(S, T) BY DEF Injection, IsInjective
<1>2. f \in Surjection(S, T) BY DEF Surjection
<1>3. ExistsBijection(S, T) BY <1>1, <1>2 DEF ExistsBijection, Bijection
<1> QED BY <1>3, FS_Bijection

(* insertsort() adds one occurrence of the new sample.                     *)
LEMMA InsertCount ==
    ASSUME NEW v \in Sample, NEW r \in Seq(Sample), v.u # 0, NEW w
    PROVE  Cardinality(Positions(w, insertsort(v, r)))
               = Cardinality(Positions(w, r)) + (IF w = v THEN 1 ELSE 0)
<1> DEFINE s == Slot(v, r)
           q == insertsort(v, r)
           P == Positions(w, r)
           Q == Positions(w, q) \ {s}
           f == [k \in P |-> IF k < s THEN k ELSE k + 1]
<1>1. /\ s \in 1 .. Len(r) + 1 /\ DOMAIN q = 1 .. Len(r) + 1 /\ q[s] = v
      /\ \A k \in 1 .. s - 1 : q[k] = r[k]
      /\ \A k \in s .. Len(r) : q[k + 1] = r[k]
  BY InsertShape
<1>2. Len(r) \in Nat /\ DOMAIN r = 1 .. Len(r) OBVIOUS
<1>3. IsFiniteSet(P) /\ Cardinality(P) \in Nat BY PositionsFinite
<1> HIDE DEF s, q
<1>4. ASSUME NEW k \in P PROVE f[k] \in Q
  <2>1. k \in 1 .. Len(r) /\ r[k] = w BY <1>2 DEF Positions
  <2>2. CASE k < s
    <3>1. k \in 1 .. s - 1 /\ k \in 1 .. Len(r) + 1 /\ f[k] = k BY <1>1, <1>2, <2>1, <2>2
    <3> QED BY <1>1, <2>1, <2>2, <3>1 DEF Positions
  <2>3. CASE ~ (k < s)
    <3>1. k \in s .. Len(r) /\ k + 1 \in 1 .. Len(r) + 1 /\ f[k] = k + 1 /\ k + 1 # s
      BY <1>1, <1>2, <2>1, <2>3
    <3> QED BY <1>1, <2>1, <3>1 DEF Positions
  <2> QED BY <2>2, <2>3
<1>5. ASSUME NEW y \in Q PROVE \E k \in P : f[k] = y
  <2>1. y \in 1 .. Len(r) + 1 /\ q[y] = w /\ y # s BY <1>1 DEF Positions
  <2>2. CASE y < s
    <3>1. y \in 1 .. s - 1 /\ y \in 1 .. Len(r) BY <1>1, <1>2, <2>1, <2>2
    <3>2. y \in P BY <1>1, <1>2, <2>1, <3>1 DEF Positions
    <3> QED BY <2>2, <3>2
  <2>3. CASE y > s
    <3>1. y - 1 \in s .. Len(r) /\ y - 1 \in 1 .. Len(r) /\ (y - 1) + 1 = y /\ ~ (y - 1 < s)
      BY <1>1, <1>2, <2>1, <2>3
    <3>2. q[(y - 1) + 1] = r[y - 1] BY <1>1, <3>1
    <3>3. y - 1 \in P BY <1>2, <2>1, <3>1, <3>2 DEF Positions
    <3>4. f[y - 1] = (y - 1) + 1 BY <3>1, <3>3
    <3> QED BY <3>1, <3>3, <3>4
  <2> QED BY <1>1, <1>2, <2>1, <2>2, <2>3
<1>6. \A x, y \in P : f[x] = f[y] => x = y
  <2>1. P \subseteq Nat BY <1>2 DEF Positions
  <2>2. s \in Nat BY <1>1, <1>2
  <2> QED BY <2>1, <2>2
<1>7. f \in [P -> Q] BY <1>4
<1>8. IsFiniteSet(Q) /\ Cardinality(Q) = Cardinality(P)
  <2> HIDE DEF f, P, Q
  <2> QED BY <1>3, <1>5, <1>6, <1>7, SameCount
<1>9. CASE w = v
  <2>1. Positions(w, q) = Q \cup {s} /\ s \notin Q BY <1>1, <1>9 DEF Positions
  <2>2. Cardinality(Q \cup {s}) = Cardinality(Q) + 1
    <3> HIDE DEF Q
    <3> QED BY <1>8, <2>1, FS_AddElement
  <2>3. Cardinality(Positions(w, q)) = Cardinality(P) + 1
    <3> HIDE DEF P, Q
    <3> QED BY <1>8, <2>1, <2>2
  <2> QED BY <1>9, <2>3 DEF q
<1>10. CASE w # v
  <2>1. Positions(w, q) = Q BY <1>1, <1>10 DEF Positions
  <2>2. Cardinality(Positions(w, q)) = Cardinality(P) + 0
    <3> HIDE DEF P, Q
    <3> QED BY <1>3, <1>8, <2>1
  <2> QED BY <1>10, <2>2 DEF q
<1> QED BY <1>9, <1>10

(* Taking the first sample off a list takes one occurrence away.           *)
LEMMA TailCount ==
    ASSUME NEW r \in Seq(Sample), r # <<>>, NEW w
    PROVE  Cardinality(Positions(w, r))
               = Cardinality(Positions(w, Tail(r))) + (IF w = Head(r) THEN 1 ELSE 0)
<1> DEFINE t == Tail(r)
           P == Positions(w, t)
           Q == Positions(w, r) \ {1}
           f == [k \in P |-> k + 1]
<1>1. /\ Len(r) \in Nat \ {0} /\ DOMAIN r = 1 .. Len(r) /\ t \in Seq(Sample)
      /\ DOMAIN t = 1 .. Len(r) - 1 /\ Head(r) = r[1]
      /\ \A k \in 1 .. Len(r) - 1 : t[k] = r[k + 1]
  OBVIOUS
<1>2. IsFiniteSet(P) /\ Cardinality(P) \in Nat BY <1>1, PositionsFinite
<1> HIDE DEF t
<1>3. ASSUME NEW k \in P PROVE f[k] \in Q
  <2>1. k \in 1 .. Len(r) - 1 /\ t[k] = w BY <1>1 DEF Positions
  <2>2. k + 1 \in 1 .. Len(r) /\ k + 1 # 1 /\ r[k + 1] = w BY <1>1, <2>1
  <2> QED BY <1>1, <2>2 DEF Positions
<1>4. ASSUME NEW y \in Q PROVE \E k \in P : f[k] = y
  <2>1. y \in 1 .. Len(r) /\ y # 1 /\ r[y] = w BY <1>1 DEF Positions
  <2>2. y - 1 \in 1 .. Len(r) - 1 /\ (y - 1) + 1 = y BY <1>1, <2>1
  <2>3. t[y - 1] = r[(y - 1) + 1] BY <1>1, <2>2
  <2>4. y - 1 \in P BY <1>1, <2>1, <2>2, <2>3 DEF Positions
  <2> QED BY <2>2, <2>4
<1>5. \A x, y \in P : f[x] = f[y] => x = y
  <2>1. P \subseteq Nat BY <1>1 DEF Positions
  <2> QED BY <2>1
<1>6. f \in [P -> Q] BY <1>3
<1>7. IsFiniteSet(Q) /\ Cardinality(Q) = Cardinality(P)
  <2> HIDE DEF f, P, Q
  <2> QED BY <1>2, <1>4, <1>5, <1>6, SameCount
<1>8. CASE w = Head(r)
  <2>1. Positions(w, r) = Q \cup {1} /\ 1 \notin Q BY <1>1, <1>8 DEF Positions
  <2>2. Cardinality(Q \cup {1}) = Cardinality(Q) + 1
    <3> HIDE DEF Q
    <3> QED BY <1>7, <2>1, FS_AddElement
  <2>3. Cardinality(Positions(w, r)) = Cardinality(P) + 1
    <3> HIDE DEF P, Q
    <3> QED BY <1>7, <2>1, <2>2
  <2> QED BY <1>8, <2>3 DEF t
<1>9. CASE w # Head(r)
  <2>1. Positions(w, r) = Q BY <1>1, <1>9 DEF Positions
  <2>2. Cardinality(Positions(w, r)) = Cardinality(P) + 0
    <3> HIDE DEF P, Q
    <3> QED BY <1>2, <1>7, <2>1
  <2> QED BY <1>9, <2>2 DEF t
<1> QED BY <1>8, <1>9

(* A child that reports adds its turns to those of the others.             *)
LEMMA TakenCount ==
    ASSUME NEW S, IsFiniteSet(S), NEW c \in Children, c \notin S, NEW v,
           list \in [Children -> Seq(Sample)], Len(list[c]) <= Wanted
    PROVE  /\ IsFiniteSet(TakenBy(S, v)) /\ Cardinality(TakenBy(S, v)) \in Nat
           /\ Cardinality(TakenBy(S \cup {c}, v))
                  = Cardinality(TakenBy(S, v)) + Cardinality(Positions(v, list[c]))
<1> DEFINE A == TakenBy(S, v)
           P == Positions(v, list[c])
           B == {s \in {c} \X (1 .. Wanted) : s[2] \in P}
           f == [k \in P |-> <<c, k>>]
<1>1. IsFiniteSet(1 .. Wanted) BY ConstantFacts, FS_Interval
<1>2. IsFiniteSet(S \X (1 .. Wanted)) BY <1>1, FS_Product
<1>3. IsFiniteSet(A) /\ Cardinality(A) \in Nat
  <2>1. A \subseteq S \X (1 .. Wanted) BY DEF TakenBy
  <2> QED BY <1>2, <2>1, FS_Subset, FS_CardinalityType
<1>4. list[c] \in Seq(Sample) OBVIOUS
<1>5. IsFiniteSet(P) /\ Cardinality(P) \in Nat BY <1>4, PositionsFinite
<1>6. P \subseteq 1 .. Wanted
  <2>1. P \subseteq 1 .. Len(list[c]) /\ Len(list[c]) \in Nat BY <1>4 DEF Positions
  <2> QED BY <2>1, ConstantFacts
<1> HIDE DEF P
<1>7. IsFiniteSet(B) /\ Cardinality(B) = Cardinality(P)
  <2>1. f \in [P -> B] BY <1>6
  <2>2. \A x, y \in P : f[x] = f[y] => x = y OBVIOUS
  <2>3. \A y \in B : \E x \in P : f[x] = y
    <3> TAKE y \in B
    <3>1. y = <<c, y[2]>> /\ y[2] \in P OBVIOUS
    <3> QED BY <3>1
  <2> HIDE DEF f, B
  <2> QED BY <1>5, <2>1, <2>2, <2>3, SameCount
<1>8. TakenBy(S \cup {c}, v) = A \cup B BY DEF TakenBy, P
<1>9. A \cap B = {} BY DEF TakenBy
<1> HIDE DEF A, B
<1>10. Cardinality(A \cup B) = Cardinality(A) + Cardinality(B) - Cardinality(A \cap B)
  BY <1>3, <1>7, FS_Union
<1>11. Cardinality(A \cap B) = 0 BY <1>9, FS_EmptySet
<1>12. Cardinality(TakenBy(S \cup {c}, v)) = Cardinality(A) + Cardinality(P)
  <2>1. Cardinality(A \cup B) = Cardinality(A) + Cardinality(P)
    BY <1>3, <1>5, <1>7, <1>10, <1>11
  <2> QED BY <1>8, <2>1, Zenon
<1> QED BY <1>3, <1>12 DEF A, P

-----------------------------------------------------------------------------
(* The order of samples is transitive.                                     *)
LEMMA NotSlowerTransitive ==
    ASSUME NEW a \in Sample, NEW b \in Sample, NEW c \in Sample,
           ~ Slower(a, b), ~ Slower(b, c)
    PROVE  ~ Slower(a, c)
<1>1. PICK au, bu, cu \in Nat, an, bn, cn \in Nat \ {0} :
          /\ au = a.u /\ bu = b.u /\ cu = c.u /\ an = a.n /\ bn = b.n /\ cn = c.n
  BY DEF Sample
<1>2. au * bn <= bu * an /\ bu * cn <= cu * bn
  <2>1. au * bn \in Int /\ bu * an \in Int /\ bu * cn \in Int /\ cu * bn \in Int BY <1>1
  <2> QED BY <1>1, <2>1 DEF Slower
<1>3. au * cn <= cu * an
  <2>1. (au * bn) * cn <= (bu * an) * cn BY <1>2
  <2>2. (bu * cn) * an <= (cu * bn) * an BY <1>2
  <2>3. (bu * an) * cn = (bu * cn) * an OBVIOUS
  <2>4. (au * bn) * cn = (au * cn) * bn /\ (cu * bn) * an = (cu * an) * bn OBVIOUS
  <2>5. (au * cn) * bn <= (cu * an) * bn
    <3>1. (au * bn) * cn \in Int /\ (bu * an) * cn \in Int /\ (cu * bn) * an \in Int OBVIOUS
    <3> QED BY <2>1, <2>2, <2>3, <2>4, <3>1
  <2>6. PICK x, y \in Int : x = au * cn /\ y = cu * an
    <3>1. au * cn \in Int /\ cu * an \in Int OBVIOUS
    <3> QED BY <3>1
  <2>7. x * bn <= y * bn BY <2>5, <2>6
  <2>8. x <= y BY <2>7
  <2> QED BY <2>6, <2>8
<1>4. au * cn \in Int /\ cu * an \in Int OBVIOUS
<1> QED BY <1>1, <1>3, <1>4 DEF Slower

(* In a list that is in order, nothing is slower than what stands before.  *)
LEMMA SortedPairs ==
    ASSUME NEW r \in Seq(Sample), Sorted(r), NEW j \in 1 .. Len(r), NEW k \in j .. Len(r)
    PROVE  ~ Slower(r[k], r[j])
<1> DEFINE T == {m \in j .. Len(r) : Slower(r[m], r[j])}
<1>1. Len(r) \in Nat OBVIOUS
<1> SUFFICES ASSUME T # {} PROVE FALSE OBVIOUS
<1>2. T \in SUBSET Nat BY <1>1
<1>3. PICK x \in T : \A y \in T : x <= y
  <2> HIDE DEF T
  <2> QED BY <1>2, Least
<1>4. x \in j .. Len(r) /\ Slower(r[x], r[j]) OBVIOUS
<1>5. r[j] \in Sample /\ r[x] \in Sample BY <1>1, <1>4
<1>6. CASE x = j
  <2>1. ~ (r[j].u * r[j].n > r[j].u * r[j].n)
    <3>1. r[j].u * r[j].n \in Int BY <1>5 DEF Sample
    <3> QED BY <3>1
  <2> QED BY <1>4, <1>6, <2>1 DEF Slower
<1>7. CASE x > j
  <2>1. x - 1 \in j .. Len(r) /\ x \in 2 .. Len(r) /\ ~ (x <= x - 1) BY <1>1, <1>4, <1>7
  <2>2. x - 1 \notin T BY <1>3, <2>1
  <2>3. ~ Slower(r[x - 1], r[j]) BY <2>1, <2>2
  <2>4. ~ Slower(r[x], r[x - 1]) BY <2>1 DEF Sorted
  <2>5. r[x - 1] \in Sample BY <1>1, <2>1
  <2> QED BY <1>4, <1>5, <2>3, <2>4, <2>5, NotSlowerTransitive
<1> QED BY <1>1, <1>4, <1>6, <1>7

(* save_minimum() takes the fastest sample of a list in order.             *)
LEMMA MinimumIsFastest ==
    ASSUME NEW r \in Seq(Sample), Sorted(r), r # <<>>
    PROVE  /\ Has(r, minimum(r)) /\ minimum(r) \in Sample
           /\ \A k \in DOMAIN r : ~ Slower(minimum(r), r[k])
<1>1. Len(r) \in 1 .. Len(r) /\ DOMAIN r = 1 .. Len(r) /\ minimum(r) = r[Len(r)]
  BY DEF minimum
<1>2. ASSUME NEW k \in DOMAIN r PROVE ~ Slower(minimum(r), r[k])
  <2>1. k \in 1 .. Len(r) /\ Len(r) \in k .. Len(r) BY <1>1
  <2> QED BY <1>1, <2>1, SortedPairs
<1> QED BY <1>1, <1>2 DEF Has

(* A number of positions on either side of a bound.                        *)
LEMMA CountBelow ==
    ASSUME NEW a \in Int, NEW b \in Nat, NEW S, S \subseteq a + 1 .. a + b
    PROVE  IsFiniteSet(S) /\ Cardinality(S) \in Nat /\ Cardinality(S) <= b
<1>1. IsFiniteSet(a + 1 .. a + b) /\ Cardinality(a + 1 .. a + b) = b
  <2>1. a + 1 \in Int /\ a + b \in Int /\ (a + 1 > a + b <=> b = 0)
        /\ (a + b) - (a + 1) + 1 = b
    OBVIOUS
  <2> QED BY <2>1, FS_Interval
<1> QED BY <1>1, FS_Subset, FS_CardinalityType

(* save_median(), for a list in order whose samples have the same          *)
(* iteration count.                                                        *)
Middle(r, t) ==
    /\ 2 * Cardinality({k \in DOMAIN r : Slower(r[k], t)}) <= Len(r)
    /\ 2 * Cardinality({k \in DOMAIN r : Slower(t, r[k])}) <= Len(r)

LEMMA MedianIsInTheMiddle ==
    ASSUME NEW r \in Seq(Sample), Sorted(r), NEW n \in Nat \ {0},
           \A k \in DOMAIN r : r[k].n = n
    PROVE  Middle(r, median(r))
<1> DEFINE t == median(r)
           Above == {k \in DOMAIN r : Slower(r[k], t)}
           Below == {k \in DOMAIN r : Slower(t, r[k])}
<1>0. PICK L \in Nat : L = Len(r) /\ DOMAIN r = 1 .. L OBVIOUS
<1>1. PICK h \in Nat : h = L \div 2 /\ (L = 2 * h \/ L = 2 * h + 1)
                      /\ (L % 2 = 1 <=> L = 2 * h + 1)
  <2>1. L \div 2 \in Nat /\ (L = 2 * (L \div 2) \/ L = 2 * (L \div 2) + 1)
        /\ (L % 2 = 1 <=> L = 2 * (L \div 2) + 1)
    OBVIOUS
  <2> QED BY <2>1
<1>2. ASSUME NEW k \in 1 .. L PROVE r[k] \in Sample /\ r[k].u \in Nat /\ r[k].n = n
  <2>1. r[k] \in Sample /\ k \in DOMAIN r BY <1>0
  <2> QED BY <2>1 DEF Sample
<1>3. \A j \in 1 .. L : \A k \in j .. L : r[k].u <= r[j].u
  <2> TAKE j \in 1 .. L
  <2> TAKE k \in j .. L
  <2>1. j \in 1 .. L /\ k \in 1 .. L OBVIOUS
  <2>2. ~ Slower(r[k], r[j]) BY <1>0, <2>1, SortedPairs
  <2>3. PICK x, y \in Nat : x = r[k].u /\ y = r[j].u BY <1>2, <2>1
  <2>4. ~ (x * n > y * n) BY <1>2, <2>1, <2>2, <2>3 DEF Slower
  <2>5. x <= y BY <2>4
  <2> QED BY <2>3, <2>5
<1>4. CASE r = <<>>
  <2>1. L = 0 BY <1>0, <1>4
  <2>2. Above = {} /\ Below = {} BY <1>0, <2>1
  <2>3. Cardinality(Above) = 0 /\ Cardinality(Below) = 0 BY <2>2, FS_EmptySet
  <2> HIDE DEF Above, Below
  <2>4. 2 * Cardinality(Above) <= Len(r) /\ 2 * Cardinality(Below) <= Len(r)
    BY <1>0, <2>1, <2>3
  <2> QED BY <2>4 DEF Middle, Above, Below
<1>5. ASSUME r # <<>>, NEW m \in Nat, t.u = m, t.n = n,
             \A k \in h + 1 .. L : r[k].u <= m,
             \A k \in 1 .. L - h : r[k].u >= m
      PROVE  Middle(r, t)
  <2>1. \A k \in 1 .. L : (Slower(r[k], t) => r[k].u > m) /\ (Slower(t, r[k]) => m > r[k].u)
    <3> TAKE k \in 1 .. L
    <3>1. PICK x \in Nat : x = r[k].u BY <1>2
    <3>2. (x * n > m * n => x > m) /\ (m * n > x * n => m > x) OBVIOUS
    <3> QED BY <1>2, <1>5, <3>1, <3>2 DEF Slower
  <2>2. Above \subseteq 0 + 1 .. 0 + h
    <3> SUFFICES ASSUME NEW k \in Above PROVE k \in 0 + 1 .. 0 + h OBVIOUS
    <3>1. k \in 1 .. L /\ r[k].u > m BY <1>0, <2>1
    <3>2. r[k].u \in Nat BY <1>2, <3>1
    <3>3. ~ (k \in h + 1 .. L) BY <1>5, <3>1, <3>2
    <3> QED BY <1>1, <3>1, <3>3
  <2>3. Below \subseteq (L - h) + 1 .. (L - h) + h
    <3> SUFFICES ASSUME NEW k \in Below PROVE k \in (L - h) + 1 .. (L - h) + h OBVIOUS
    <3>1. k \in 1 .. L /\ m > r[k].u BY <1>0, <2>1
    <3>2. r[k].u \in Nat BY <1>2, <3>1
    <3>3. ~ (k \in 1 .. L - h) BY <1>5, <3>1, <3>2
    <3> QED BY <1>1, <3>1, <3>3
  <2> HIDE DEF Above, Below, t
  <2>4. Cardinality(Above) \in Nat /\ Cardinality(Above) <= h
    <3>1. PICK a \in Int : a = 0 OBVIOUS
    <3>2. Above \subseteq a + 1 .. a + h BY <2>2, <3>1
    <3> QED BY <1>1, <3>2, CountBelow
  <2>5. Cardinality(Below) \in Nat /\ Cardinality(Below) <= h
    <3>1. L - h \in Int BY <1>1
    <3> QED BY <1>1, <2>3, <3>1, CountBelow
  <2>6. 2 * Cardinality(Above) <= Len(r) /\ 2 * Cardinality(Below) <= Len(r)
    BY <1>0, <1>1, <2>4, <2>5
  <2> QED BY <2>6 DEF Middle, Above, Below
<1>6. CASE r # <<>> /\ L = 2 * h + 1
  <2>1. t = r[h + 1] /\ h + 1 \in 1 .. L BY <1>0, <1>1, <1>6 DEF median
  <2>2. r[h + 1].u \in Nat /\ r[h + 1].n = n BY <1>2, <2>1
  <2>3. \A k \in h + 1 .. L : r[k].u <= r[h + 1].u BY <1>3, <2>1
  <2>4. \A k \in 1 .. L - h : r[k].u >= r[h + 1].u
    <3> TAKE k \in 1 .. L - h
    <3>1. k \in 1 .. L /\ h + 1 \in k .. L BY <1>1, <1>6
    <3>2. r[h + 1].u <= r[k].u BY <1>3, <3>1
    <3> QED BY <1>2, <2>2, <3>1, <3>2
  <2> QED BY <1>5, <1>6, <2>1, <2>2, <2>3, <2>4
<1>7. CASE r # <<>> /\ L = 2 * h
  <2>0. L # 0 BY <1>0, <1>7
  <2>1. h \in 1 .. L /\ h + 1 \in 1 .. L /\ h + 1 \in h .. L /\ L % 2 # 1
    BY <1>1, <1>7, <2>0
  <2>2. PICK x, y \in Nat : x = r[h].u /\ y = r[h + 1].u /\ y <= x BY <1>2, <1>3, <2>1
  <2>3. t = [u |-> (y + x) \div 2, n |-> (n + n) \div 2]
    BY <1>0, <1>1, <1>2, <1>7, <2>1, <2>2 DEF median
  <2>4. (n + n) \div 2 = n /\ (y + x) \div 2 \in Nat
        /\ y <= (y + x) \div 2 /\ (y + x) \div 2 <= x
    <3>1. n \in Int /\ x \in Int /\ y \in Int /\ y <= x /\ y >= 0 BY <2>2
    <3>2. (n + n) \div 2 = n BY <3>1
    <3>3. (y + x) \div 2 \in Int /\ y <= (y + x) \div 2 /\ (y + x) \div 2 <= x BY <3>1
    <3> QED BY <3>1, <3>2, <3>3
  <2>5. PICK m \in Nat : m = (y + x) \div 2 BY <2>4
  <2>6. t.u = m /\ t.n = n /\ y <= m /\ m <= x BY <2>3, <2>4, <2>5
  <2>7. \A k \in h + 1 .. L : r[k].u <= m
    <3> TAKE k \in h + 1 .. L
    <3>1. r[k].u <= y /\ k \in 1 .. L BY <1>1, <1>3, <2>1, <2>2
    <3>2. r[k].u \in Nat BY <1>2, <3>1
    <3> QED BY <2>2, <2>6, <3>1, <3>2
  <2>8. \A k \in 1 .. L - h : r[k].u >= m
    <3> TAKE k \in 1 .. L - h
    <3>1. k \in 1 .. L /\ h \in k .. L BY <1>1, <1>7
    <3>2. x <= r[k].u /\ r[k].u \in Nat BY <1>2, <1>3, <2>2, <3>1
    <3> QED BY <2>2, <2>6, <3>2
  <2> QED BY <1>5, <1>7, <2>6, <2>7, <2>8
<1> QED BY <1>1, <1>4, <1>6, <1>7

-----------------------------------------------------------------------------
(* What the samples of an activation are, and where they are found.  A     *)
(* sample that took no time is in no list; the children of a group share   *)
(* their iteration count, so that the median may mix two of them.          *)
TakenInv ==
    /\ \A v \in taken : v \in Sample /\ v.u # 0 /\ (par > 1 => v.n = iterations)
    /\ \A v \in taken : \E c \in Active : Has(list[c], v)
    /\ \A c \in Children : Within(list[c], taken)
    /\ Within(merged, taken) /\ Within(report, taken)

(* What has been merged, and what of a report has not, is what the children*)
(* that reported took, sample by sample.                                   *)
MergedInv ==
    \A v \in Sample : Cardinality(Positions(v, merged)) + Cardinality(Positions(v, report))
                          = Cardinality(TakenBy(told, v))

(* No child reports before the last has measured; a measurement that       *)
(* succeeded has heard of all of them and published what it merged.        *)
PhaseInv ==
    /\ pc = "measure" => told = {} /\ merged = <<>> /\ report = <<>>
    /\ success => /\ pc \in {"size", "print", "exit"}
                  /\ told = Active /\ report = <<>> /\ results = merged
    /\ success /\ pc = "print" => time = median(results)
    /\ success /\ pc = "size" => line.time = minimum(results)

SamplesInv == IInv /\ TakenInv /\ MergedInv /\ PhaseInv

LEMMA NothingCounted ==
    ASSUME NEW v
    PROVE  Cardinality(Positions(v, <<>>)) = 0 /\ Cardinality(TakenBy({}, v)) = 0
<1>1. Positions(v, <<>>) = {} BY DEF Positions
<1>2. TakenBy({}, v) = {} BY DEF TakenBy
<1> QED BY <1>1, <1>2, FS_EmptySet

(* Nothing has been taken, merged or reported.                             *)
LEMMA FreshSamples ==
    ASSUME list = [c \in Children |-> <<>>], told = {}, report = <<>>, merged = <<>>, taken = {}
    PROVE  TakenInv /\ MergedInv
<1>1. \A c \in Children : list[c] = <<>> OBVIOUS
<1>2. TakenInv BY <1>1 DEF TakenInv, Within
<1>3. ASSUME NEW v \in Sample
      PROVE  Cardinality(Positions(v, merged)) + Cardinality(Positions(v, report))
                 = Cardinality(TakenBy(told, v))
  <2>1. Cardinality(Positions(v, merged)) = 0 /\ Cardinality(Positions(v, report)) = 0
        /\ Cardinality(TakenBy(told, v)) = 0
    BY NothingCounted
  <2> QED BY <2>1
<1> QED BY <1>2, <1>3 DEF MergedInv

LEMMA SamplesInit == Init => SamplesInv
<1> SUFFICES ASSUME Init PROVE SamplesInv OBVIOUS
<1>1. TakenInv /\ MergedInv BY FreshSamples DEF Init
<1>2. PhaseInv BY DEF Init, PhaseInv
<1> QED BY <1>1, <1>2, InitCorrect DEF SamplesInv

LEMMA FreshSamplesNext ==
    ASSUME NEW n, Activate(n) PROVE TakenInv' /\ MergedInv'
<1>1. \A c \in Children : list'[c] = <<>> BY DEF Activate
<1>2. TakenInv' BY <1>1 DEF TakenInv, Within, Activate
<1>3. ASSUME NEW v \in Sample
      PROVE  Cardinality(Positions(v, merged')) + Cardinality(Positions(v, report'))
                 = Cardinality(TakenBy(told, v)')
  <2>1. Cardinality(Positions(v, merged')) = 0 /\ Cardinality(Positions(v, report')) = 0
    BY NothingCounted DEF Activate
  <2>2. TakenBy(told, v)' = {} BY DEF TakenBy, Activate
  <2> QED BY <2>1, <2>2, FS_EmptySet
<1>4. MergedInv'
  <2>1. \A v \in Sample : Positions(v, merged)' = Positions(v, merged')
                          /\ Positions(v, report)' = Positions(v, report')
    BY DEF Positions
  <2> QED BY <1>3, <2>1 DEF MergedInv
<1> QED BY <1>2, <1>4

(* A step that leaves the samples alone.                                   *)
LEMMA SamplesFrame ==
    ASSUME SamplesInv, UNCHANGED <<par, iterations, list, told, report, merged, taken>>
    PROVE  TakenInv' /\ MergedInv'
<1>1. TakenInv' BY DEF SamplesInv, TakenInv, Active, Within, Has
<1>2. MergedInv' BY DEF SamplesInv, MergedInv, Positions, TakenBy
<1> QED BY <1>1, <1>2

LEMMA MeasureSamples ==
    ASSUME SamplesInv, NEW c \in Children, Measure(c)
    PROVE  TakenInv' /\ MergedInv' /\ PhaseInv'
<1> USE DEF Measure
<1>0. /\ list \in [Children -> Seq(Sample)] /\ c \in Active /\ TakenInv /\ MergedInv
      /\ pc = "measure" /\ told = {} /\ merged = <<>> /\ report = <<>> /\ ~ success
  BY DEF SamplesInv, IInv, TypeInv, PhaseInv
<1>1. PICK u \in Nat, n \in Nat \ {0} :
          /\ list' = [list EXCEPT ![c] = insertsort([u |-> u, n |-> n], @)]
          /\ taken' = IF u = 0 THEN taken ELSE taken \cup {[u |-> u, n |-> n]}
          /\ par > 1 => n = iterations
  <2>1. iterations \in Nat \ {0} BY DEF SamplesInv, IInv, TypeInv
  <2>2. PICK u \in IF par > 1 THEN Times ELSE Times \ {0},
             n \in IF par > 1 THEN {iterations} ELSE Iterations :
                /\ list' = [list EXCEPT ![c] = insertsort([u |-> u, n |-> n], @)]
                /\ taken' = IF u = 0 THEN taken ELSE taken \cup {[u |-> u, n |-> n]}
    OBVIOUS
  <2>3. u \in Nat /\ n \in Nat \ {0} /\ (par > 1 => n = iterations) BY <2>1, <2>2, DataAssumption
  <2> QED BY <2>2, <2>3
<1>2. PICK v \in Sample : v = [u |-> u, n |-> n] /\ v.u = u /\ v.n = n
  <2>1. [u |-> u, n |-> n] \in Sample BY DEF Sample
  <2> QED BY <2>1
<1>3. list' = [list EXCEPT ![c] = insertsort(v, @)]
      /\ taken' = IF v.u = 0 THEN taken ELSE taken \cup {v}
  BY <1>1, <1>2
<1>4. taken \subseteq taken' /\ (v.u # 0 => v \in taken') BY <1>3
<1>5. /\ Within(insertsort(v, list[c]), taken')
      /\ \A w : Has(list[c], w) => Has(insertsort(v, list[c]), w)
      /\ v.u # 0 => Has(insertsort(v, list[c]), v)
  <2>1. Within(list[c], taken') BY <1>0, <1>4 DEF TakenInv, Within
  <2> QED BY <1>0, <1>4, <2>1, InsertMembers
<1>6. TakenInv'
  <2>1. ASSUME NEW w \in taken'
        PROVE  /\ w \in Sample /\ w.u # 0 /\ (par > 1 => w.n = iterations)
               /\ \E d \in Active : Has(list'[d], w)
    <3>1. CASE w \in taken
      <4>1. PICK d \in Active : Has(list[d], w) BY <1>0, <3>1 DEF TakenInv
      <4>2. d \in Children BY <1>0, ConstantFacts DEF SamplesInv, IInv, TypeInv, Active, Children
      <4>3. Has(list'[d], w) BY <1>0, <1>3, <1>5, <4>1, <4>2
      <4> QED BY <1>0, <3>1, <4>3 DEF TakenInv
    <3>2. CASE w \notin taken
      <4>1. w = v /\ v.u # 0 BY <1>3, <3>2
      <4>2. Has(list'[c], w) BY <1>0, <1>3, <1>5, <4>1
      <4> QED BY <1>0, <1>1, <1>2, <4>1, <4>2
    <3> QED BY <3>1, <3>2
  <2>2. ASSUME NEW d \in Children PROVE Within(list'[d], taken')
    <3>1. CASE d = c BY <1>0, <1>3, <1>5, <3>1
    <3>2. CASE d # c
      <4>1. list'[d] = list[d] /\ Within(list[d], taken) BY <1>0, <1>3, <3>2 DEF TakenInv
      <4> QED BY <1>4, <4>1 DEF Within
    <3> QED BY <3>1, <3>2
  <2>3. Within(merged', taken') /\ Within(report', taken') BY <1>0 DEF Within
  <2>4. par' = par /\ iterations' = iterations OBVIOUS
  <2> QED BY <2>1, <2>2, <2>3, <2>4 DEF TakenInv, Active, Has, Within
<1>7. MergedInv'
  <2>1. \A w : TakenBy(told, w)' = {} /\ TakenBy(told, w) = {} BY <1>0 DEF TakenBy
  <2>2. merged' = merged /\ report' = report OBVIOUS
  <2> QED BY <1>0, <2>1, <2>2 DEF MergedInv, Positions
<1>8. PhaseInv' BY <1>0 DEF PhaseInv
<1> QED BY <1>6, <1>7, <1>8

LEMMA ReportSamples ==
    ASSUME SamplesInv, NEW c \in Children, Report(c)
    PROVE  TakenInv' /\ MergedInv' /\ PhaseInv'
<1> USE DEF Report
<1>0. /\ list \in [Children -> Seq(Sample)] /\ TakenInv /\ MergedInv /\ IsFiniteSet(told)
      /\ Len(list[c]) <= Wanted /\ report = <<>> /\ ~ success /\ c \notin told
  <2>1. Len(list[c]) <= i[c] /\ i[c] <= Wanted /\ i[c] \in Nat /\ Len(list[c]) \in Nat
    BY DEF SamplesInv, IInv, TypeInv, CountsInv
  <2> QED BY <2>1, ToldFinite, ConstantFacts DEF SamplesInv, IInv, TypeInv, PhaseInv
<1>1. TakenInv' BY <1>0 DEF TakenInv, Active, Within, Has
<1>2. MergedInv'
  <2>1. ASSUME NEW v \in Sample
        PROVE  Cardinality(Positions(v, merged')) + Cardinality(Positions(v, report'))
                   = Cardinality(TakenBy(told \cup {c}, v))
    <3>1. Cardinality(Positions(v, merged)) + 0 = Cardinality(TakenBy(told, v))
      BY <1>0, NothingCounted DEF MergedInv
    <3>2. Cardinality(TakenBy(told \cup {c}, v))
              = Cardinality(TakenBy(told, v)) + Cardinality(Positions(v, list[c]))
      BY <1>0, TakenCount
    <3>3. Cardinality(Positions(v, merged)) \in Nat
      BY PositionsFinite DEF SamplesInv, IInv, TypeInv
    <3> QED BY <3>1, <3>2, <3>3
  <2>2. \A v : TakenBy(told, v)' = TakenBy(told \cup {c}, v) BY DEF TakenBy
  <2> QED BY <2>1, <2>2 DEF MergedInv, Positions
<1>3. PhaseInv' BY <1>0 DEF PhaseInv
<1> QED BY <1>1, <1>2, <1>3

LEMMA MergeSamples ==
    ASSUME SamplesInv, Merge PROVE TakenInv' /\ MergedInv' /\ PhaseInv'
<1> USE DEF Merge
<1>0. /\ report \in Seq(Sample) /\ report # <<>> /\ merged \in Seq(Sample)
      /\ TakenInv /\ MergedInv /\ ~ success
  BY DEF SamplesInv, IInv, TypeInv, PhaseInv
<1>1. PICK v \in Sample : v = Head(report) /\ v \in taken
  <2>1. Head(report) \in Sample /\ 1 \in DOMAIN report /\ Head(report) = report[1] BY <1>0
  <2>2. report[1] \in taken BY <1>0, <2>1 DEF TakenInv, Within
  <2> QED BY <2>1, <2>2
<1>2. v.u # 0 BY <1>0, <1>1 DEF TakenInv
<1>3. Within(merged', taken) BY <1>0, <1>1, InsertMembers DEF TakenInv
<1>4. Within(report', taken)
  <2>1. \A k \in DOMAIN Tail(report) : k + 1 \in DOMAIN report /\ Tail(report)[k] = report[k + 1]
    BY <1>0
  <2> QED BY <1>0, <2>1 DEF TakenInv, Within
<1>5. TakenInv' BY <1>0, <1>3, <1>4 DEF TakenInv, Active, Within, Has
<1>6. MergedInv'
  <2>1. ASSUME NEW w \in Sample
        PROVE  Cardinality(Positions(w, merged')) + Cardinality(Positions(w, report'))
                   = Cardinality(TakenBy(told, w))
    <3>1. Cardinality(Positions(w, merged'))
              = Cardinality(Positions(w, merged)) + (IF w = v THEN 1 ELSE 0)
      BY <1>0, <1>1, <1>2, InsertCount
    <3>2. Cardinality(Positions(w, report))
              = Cardinality(Positions(w, report')) + (IF w = v THEN 1 ELSE 0)
      BY <1>0, <1>1, TailCount
    <3>3. Cardinality(Positions(w, merged)) + Cardinality(Positions(w, report))
              = Cardinality(TakenBy(told, w))
      BY <1>0 DEF MergedInv
    <3>4. Tail(report) \in Seq(Sample) BY <1>0
    <3>5. Cardinality(Positions(w, merged)) \in Nat /\ Cardinality(Positions(w, report')) \in Nat
      BY <1>0, <3>4, PositionsFinite
    <3> QED BY <3>1, <3>2, <3>3, <3>5
  <2>2. \A w : TakenBy(told, w)' = TakenBy(told, w) BY DEF TakenBy
  <2> QED BY <2>1, <2>2 DEF MergedInv, Positions
<1>7. PhaseInv' BY <1>0 DEF PhaseInv
<1> QED BY <1>5, <1>6, <1>7

LEMMA PublishSamples ==
    ASSUME SamplesInv, Publish PROVE TakenInv' /\ MergedInv' /\ PhaseInv'
<1> USE DEF Publish
<1>0. ~ success BY DEF SamplesInv, PhaseInv
<1>1. CASE Activate(Parallel) /\ pc' = "measure" /\ UNCHANGED success
  <2>1. PhaseInv' BY <1>0, <1>1 DEF PhaseInv, Activate
  <2> QED BY <1>1, <2>1, FreshSamplesNext
<1>2. CASE UNCHANGED <<par, iterations, groupVars>> /\ time' = median(merged) /\ pc' = "print"
  <2>1. TakenInv' /\ MergedInv' BY <1>2, SamplesFrame DEF groupVars
  <2>2. PhaseInv' BY <1>2 DEF PhaseInv, groupVars, Active
  <2> QED BY <2>1, <2>2
<1> QED BY <1>1, <1>2

LEMMA SamplesStep == SamplesInv /\ [Next]_vars => SamplesInv'
<1> SUFFICES ASSUME SamplesInv, [Next]_vars PROVE SamplesInv' OBVIOUS
<1>0. IInv' BY StepCorrect DEF SamplesInv
<1>1. SUFFICES TakenInv' /\ MergedInv' /\ PhaseInv' BY <1>0 DEF SamplesInv
<1>2. PhaseInv BY DEF SamplesInv
<1>3. CASE Call
  <2>1. PhaseInv' BY <1>3 DEF Call, PhaseInv, Activate
  <2> QED BY <1>3, <2>1, FreshSamplesNext DEF Call
<1>4. CASE Skip \/ Exit
  <2>1. TakenInv' /\ MergedInv' BY <1>4, SamplesFrame DEF Skip, Exit, groupVars
  <2>2. PhaseInv' BY <1>2, <1>4 DEF PhaseInv, Skip, Exit, groupVars, Active
  <2> QED BY <2>1, <2>2
<1>5. CASE AllDone \/ GiveUp
  <2>1. TakenInv' /\ MergedInv' BY <1>5, SamplesFrame DEF AllDone, GiveUp, groupVars
  <2>2. PhaseInv' BY <1>2, <1>5 DEF PhaseInv, AllDone, GiveUp, groupVars, Active
  <2> QED BY <2>1, <2>2
<1>6. CASE PrintLine
  <2>1. TakenInv' /\ MergedInv' BY <1>6, SamplesFrame DEF PrintLine, groupVars
  <2>2. PhaseInv' BY <1>2, <1>6 DEF PhaseInv, PrintLine, groupVars, Active
  <2> QED BY <2>1, <2>2
<1>7. CASE \E c \in Children : Exhausted(c)
  <2>1. TakenInv' /\ MergedInv' BY <1>7, SamplesFrame DEF Exhausted
  <2>2. PhaseInv' BY <1>2, <1>7 DEF PhaseInv, Exhausted
  <2> QED BY <2>1, <2>2
<1>8. CASE \E c \in Children : Measure(c) \/ Report(c)
  BY <1>8, MeasureSamples, ReportSamples
<1>9. CASE Merge BY <1>9, MergeSamples
<1>10. CASE Publish BY <1>10, PublishSamples
<1>11. CASE UNCHANGED vars
  <2>1. TakenInv' /\ MergedInv' BY <1>11, SamplesFrame DEF vars, groupVars
  <2>2. PhaseInv' BY <1>2, <1>11 DEF PhaseInv, vars, groupVars, Active
  <2> QED BY <2>1, <2>2
<1> QED BY <1>3, <1>4, <1>5, <1>6, <1>7, <1>8, <1>9, <1>10, <1>11 DEF Next

(* The samples are all there, at every step, whatever fails.               *)
THEOREM SamplesCorrect == Spec => []SamplesInv
<1>1. Init => SamplesInv BY SamplesInit
<1>2. SamplesInv /\ [Next]_vars => SamplesInv' BY SamplesStep
<1> QED BY <1>1, <1>2, PTL DEF Spec

(* The published list is what the children took, sample by sample, for     *)
(* every number of children and samples and whatever the order in which    *)
(* they measure and report.                                                *)
THEOREM NothingLostCorrect == Spec => []NothingLost
<1>1. SamplesInv => NothingLost
  <2> SUFFICES ASSUME SamplesInv, pc = "print", success, NEW v \in taken
               PROVE  Cardinality(Positions(v, results)) = Cardinality(TakenBy(Active, v))
    BY DEF NothingLost
  <2>1. told = Active /\ report = <<>> /\ results = merged BY DEF SamplesInv, PhaseInv
  <2>2. v \in Sample BY DEF SamplesInv, TakenInv
  <2>3. Cardinality(Positions(v, merged)) + Cardinality(Positions(v, report))
            = Cardinality(TakenBy(told, v))
    BY <2>2 DEF SamplesInv, MergedInv
  <2>4. Cardinality(Positions(v, report)) = 0 BY <2>1, NothingCounted
  <2>5. Cardinality(Positions(v, merged)) \in Nat
    BY PositionsFinite DEF SamplesInv, IInv, TypeInv
  <2> QED BY <2>1, <2>3, <2>4, <2>5
<1> QED BY <1>1, SamplesCorrect, PTL

(* The line is the fastest of all samples of its size.                     *)
THEOREM LineIsBestCorrect == Spec => []LineIsBest
<1>1. SamplesInv => LineIsBest
  <2> SUFFICES ASSUME SamplesInv, pc = "size", success
               PROVE  IF taken = {} THEN line.time = Nothing
                      ELSE line.time \in taken /\ \A v \in taken : ~ Slower(line.time, v)
    BY DEF LineIsBest
  <2>1. /\ line.time = minimum(results) /\ results = merged /\ told = Active /\ report = <<>>
        /\ results \in Seq(Sample) /\ Sorted(results) /\ Within(results, taken)
    BY DEF SamplesInv, PhaseInv, IInv, TypeInv, ListsSorted, TakenInv
  <2>2. ASSUME NEW v \in taken PROVE Has(results, v)
    <3>1. v \in Sample BY DEF SamplesInv, TakenInv
    <3>2. PICK c \in Active : Has(list[c], v) BY DEF SamplesInv, TakenInv
    <3>3. PICK k \in DOMAIN list[c] : list[c][k] = v BY <3>2 DEF Has
    <3>4. c \in Children /\ Len(list[c]) <= Wanted /\ list[c] \in Seq(Sample)
      <4>1. c \in Children BY ConstantFacts DEF SamplesInv, IInv, TypeInv, Active, Children
      <4>2. Len(list[c]) <= i[c] /\ i[c] <= Wanted /\ i[c] \in Nat /\ list[c] \in Seq(Sample)
        BY <4>1 DEF SamplesInv, IInv, TypeInv, CountsInv
      <4>3. Len(list[c]) \in Nat BY <4>2
      <4> QED BY <4>1, <4>2, <4>3, ConstantFacts
    <3>5. k \in 1 .. Wanted
      <4>1. k \in 1 .. Len(list[c]) /\ Len(list[c]) \in Nat BY <3>3, <3>4
      <4> QED BY <3>4, <4>1, ConstantFacts
    <3>6. <<c, k>> \in TakenBy(told, v) BY <2>1, <3>2, <3>3, <3>5 DEF TakenBy, Positions
    <3>7. IsFiniteSet(TakenBy(told, v))
      <4>1. IsFiniteSet(told \X (1 .. Wanted))
        <5>1. IsFiniteSet(1 .. Wanted) BY ConstantFacts, FS_Interval
        <5>2. IsFiniteSet(told) BY ToldFinite DEF SamplesInv, IInv
        <5> QED BY <5>1, <5>2, FS_Product
      <4>2. TakenBy(told, v) \subseteq told \X (1 .. Wanted) BY DEF TakenBy
      <4> QED BY <4>1, <4>2, FS_Subset
    <3>8. Cardinality(TakenBy(told, v)) # 0 BY <3>6, <3>7, FS_EmptySet
    <3>9. Cardinality(Positions(v, results)) # 0
      <4>1. Cardinality(Positions(v, merged)) + Cardinality(Positions(v, report))
                = Cardinality(TakenBy(told, v))
        BY <3>1 DEF SamplesInv, MergedInv
      <4>2. Cardinality(Positions(v, report)) = 0 BY <2>1, NothingCounted
      <4>3. Cardinality(Positions(v, merged)) \in Nat
        BY PositionsFinite DEF SamplesInv, IInv, TypeInv
      <4> QED BY <2>1, <3>8, <4>1, <4>2, <4>3
    <3>10. Positions(v, results) # {} BY <3>9, FS_EmptySet
    <3> QED BY <3>10 DEF Positions, Has
  <2>3. CASE results = <<>>
    <3>1. taken = {} BY <2>2, <2>3 DEF Has
    <3> QED BY <2>1, <2>3, <3>1 DEF minimum
  <2>4. CASE results # <<>>
    <3>1. /\ Has(results, line.time)
          /\ \A k \in DOMAIN results : ~ Slower(line.time, results[k])
      BY <2>1, <2>4, MinimumIsFastest
    <3>2. line.time \in taken BY <2>1, <3>1 DEF Has, Within
    <3>3. \A v \in taken : ~ Slower(line.time, v) BY <2>2, <3>1 DEF Has
    <3> QED BY <3>2, <3>3
  <2> QED BY <2>3, <2>4
<1> QED BY <1>1, SamplesCorrect, PTL

(* What a group publishes as its time is in the middle of its samples.     *)
THEOREM MedianCorrect == Spec => []MedianIsMiddle
<1>1. SamplesInv => MedianIsMiddle
  <2> SUFFICES ASSUME SamplesInv, pc = "print", success, par > 1
               PROVE  Middle(results, time)
    BY DEF MedianIsMiddle, Middle
  <2>1. /\ time = median(results) /\ results = merged
        /\ results \in Seq(Sample) /\ Sorted(results) /\ Within(results, taken)
        /\ iterations \in Nat \ {0}
    BY DEF SamplesInv, PhaseInv, IInv, TypeInv, ListsSorted, TakenInv
  <2>2. \A k \in DOMAIN results : results[k].n = iterations
    BY <2>1 DEF SamplesInv, TakenInv, Within
  <2> QED BY <2>1, <2>2, MedianIsInTheMiddle
<1> QED BY <1>1, SamplesCorrect, PTL

-----------------------------------------------------------------------------
(* The powers of two, up to one of them.                                   *)
Doubled(f, n) == [m \in 0 .. n |-> IF m = 0 THEN 1 ELSE 2 * f[m - 1]]

LEMMA DoubledExists ==
    ASSUME NEW n \in Nat
    PROVE  \E f : f = Doubled(f, n)
<1> DEFINE odd == {k \in Nat : ~ \E f : f = Doubled(f, k)}
<1>1. ASSUME odd # {} PROVE FALSE
  <2>1. PICK k \in odd : \A j \in odd : k <= j
    <3> HIDE DEF odd
    <3>1. odd \in SUBSET Nat BY DEF odd
    <3> QED BY <1>1, <3>1, Least
  <2>2. k \in Nat /\ ~ \E f : f = Doubled(f, k) OBVIOUS
  <2>3. CASE k = 0
    <3> DEFINE f == [m \in 0 .. 0 |-> 1]
    <3>1. f = Doubled(f, 0) BY DEF Doubled
    <3> QED BY <2>2, <2>3, <3>1
  <2>4. CASE k # 0
    <3>1. k - 1 \in Nat /\ k - 1 \notin odd BY <2>1, <2>2, <2>4
    <3>2. PICK g : g = Doubled(g, k - 1) BY <3>1
    <3>3. \A m \in 0 .. k - 1 : g[m] = IF m = 0 THEN 1 ELSE 2 * g[m - 1] BY <3>2 DEF Doubled
    <3> DEFINE f == [m \in 0 .. k |-> IF m = k THEN 2 * g[k - 1] ELSE g[m]]
    <3>4. \A m \in 0 .. k : f[m] = IF m = 0 THEN 1 ELSE 2 * f[m - 1]
      <4>1. SUFFICES ASSUME NEW m \in 0 .. k PROVE f[m] = IF m = 0 THEN 1 ELSE 2 * f[m - 1] OBVIOUS
      <4>2. CASE m = k
        <5>1. k - 1 \in 0 .. k /\ k - 1 # k BY <2>2, <2>4
        <5>2. f[k - 1] = g[k - 1] BY <5>1
        <5> QED BY <2>4, <4>2, <5>2
      <4>3. CASE m # k /\ m = 0
        <5>1. m \in 0 .. k - 1 BY <3>1, <4>3
        <5> QED BY <3>3, <4>3, <5>1
      <4>4. CASE m # k /\ m # 0
        <5>1. m \in 0 .. k - 1 /\ m - 1 \in 0 .. k /\ m - 1 # k BY <4>4
        <5>2. f[m - 1] = g[m - 1] BY <5>1
        <5> QED BY <3>3, <4>4, <5>1, <5>2
      <4> QED BY <4>2, <4>3, <4>4
    <3>5. f = [m \in 0 .. k |-> f[m]] OBVIOUS
    <3> HIDE DEF f
    <3>6. f = Doubled(f, k) BY <3>4, <3>5 DEF Doubled
    <3> QED BY <2>2, <3>6
  <2> QED BY <2>3, <2>4
<1> QED BY <1>1

LEMMA DoubledSame ==
    ASSUME NEW n \in Nat, NEW k \in Nat, NEW f, NEW g, f = Doubled(f, n), g = Doubled(g, k),
           NEW m \in Nat, m <= n, m <= k
    PROVE  f[m] = g[m]
<1>1. \A j \in 0 .. n : f[j] = IF j = 0 THEN 1 ELSE 2 * f[j - 1] BY DEF Doubled
<1>2. \A j \in 0 .. k : g[j] = IF j = 0 THEN 1 ELSE 2 * g[j - 1] BY DEF Doubled
<1> DEFINE odd == {j \in 0 .. m : f[j] # g[j]}
<1>3. ASSUME odd # {} PROVE FALSE
  <2>1. PICK j \in odd : \A h \in odd : j <= h
    <3>1. odd \in SUBSET Nat OBVIOUS
    <3> HIDE DEF odd
    <3> QED BY <1>3, <3>1, Least
  <2>2. j \in 0 .. m /\ j \in 0 .. n /\ j \in 0 .. k /\ f[j] # g[j] OBVIOUS
  <2>3. j # 0 BY <1>1, <1>2, <2>2
  <2>4. j - 1 \in 0 .. m /\ j - 1 \notin odd BY <2>1, <2>2, <2>3
  <2>5. f[j - 1] = g[j - 1] BY <2>4
  <2> QED BY <1>1, <1>2, <2>2, <2>3, <2>5
<1>4. m \in 0 .. m OBVIOUS
<1> QED BY <1>3, <1>4

(* The recursive definition has a solution, whose first values are those.  *)
LEMMA TwoToDefined ==
    TwoTo[0] = 1 /\ \A m \in Nat : TwoTo[m + 1] = 2 * TwoTo[m]
<1> DEFINE part(n) == CHOOSE f : f = Doubled(f, n)
           Whole(f) == [m \in Nat |-> IF m = 0 THEN 1 ELSE 2 * f[m - 1]]
           h == [m \in Nat |-> part(m)[m]]
<1>1. \A n \in Nat : part(n) = Doubled(part(n), n) BY DoubledExists
<1> HIDE DEF part
<1>2. \A m \in Nat : h[m] = IF m = 0 THEN 1 ELSE 2 * h[m - 1]
  <2>1. SUFFICES ASSUME NEW m \in Nat PROVE h[m] = IF m = 0 THEN 1 ELSE 2 * h[m - 1] OBVIOUS
  <2>2. part(m)[m] = IF m = 0 THEN 1 ELSE 2 * part(m)[m - 1]
    <3>1. part(m) = [j \in 0 .. m |-> IF j = 0 THEN 1 ELSE 2 * part(m)[j - 1]]
      BY <1>1 DEF Doubled
    <3>2. m \in 0 .. m OBVIOUS
    <3> QED BY <3>1, <3>2
  <2>3. CASE m = 0 BY <2>2, <2>3
  <2>4. CASE m # 0
    <3>1. m - 1 \in Nat /\ m - 1 <= m /\ m - 1 <= m - 1 BY <2>4
    <3>2. part(m)[m - 1] = part(m - 1)[m - 1]
      <4>1. part(m) = Doubled(part(m), m) /\ part(m - 1) = Doubled(part(m - 1), m - 1)
        BY <1>1, <3>1
      <4> QED BY <3>1, <4>1, DoubledSame
    <3> QED BY <2>2, <2>4, <3>1, <3>2
  <2> QED BY <2>3, <2>4
<1>3. h = Whole(h)
  <2>1. h = [m \in Nat |-> h[m]] OBVIOUS
  <2> HIDE DEF h
  <2> QED BY <1>2, <2>1
<1>4. TwoTo = CHOOSE f : f = Whole(f) BY DEF TwoTo
<1>5. TwoTo = Whole(TwoTo)
  <2> HIDE DEF h, Whole
  <2> QED BY <1>3, <1>4
<1>6. \A m \in Nat : TwoTo[m] = IF m = 0 THEN 1 ELSE 2 * TwoTo[m - 1] BY <1>5
<1>7. \A m \in Nat : m + 1 \in Nat /\ m + 1 # 0 /\ (m + 1) - 1 = m OBVIOUS
<1> QED BY <1>6, <1>7

LEMMA TwoToBeyond == \A m \in Nat : TwoTo[m] \in Nat /\ TwoTo[m] > m
<1> DEFINE odd == {m \in Nat : ~ (TwoTo[m] \in Nat /\ TwoTo[m] > m)}
<1>1. ASSUME odd # {} PROVE FALSE
  <2>1. PICK m \in odd : \A j \in odd : m <= j
    <3> HIDE DEF odd
    <3>1. odd \in SUBSET Nat BY DEF odd
    <3> QED BY <1>1, <3>1, Least
  <2>2. m \in Nat /\ ~ (TwoTo[m] \in Nat /\ TwoTo[m] > m) OBVIOUS
  <2>3. m # 0 BY <2>2, TwoToDefined
  <2>4. m - 1 \in Nat /\ m - 1 \notin odd /\ (m - 1) + 1 = m BY <2>1, <2>2, <2>3
  <2>5. TwoTo[m - 1] \in Nat /\ TwoTo[m - 1] > m - 1 BY <2>4
  <2>6. TwoTo[m] = 2 * TwoTo[m - 1] BY <2>4, TwoToDefined
  <2> QED BY <2>2, <2>3, <2>5, <2>6
<1> QED BY <1>1

LEMMA TwoToGrows ==
    ASSUME NEW a \in Nat, NEW b \in Nat, a < b
    PROVE  2 * TwoTo[a] <= TwoTo[b]
<1> DEFINE odd == {k \in Nat : a < k /\ ~ (2 * TwoTo[a] <= TwoTo[k])}
<1>1. ASSUME odd # {} PROVE FALSE
  <2>1. PICK k \in odd : \A j \in odd : k <= j
    <3> HIDE DEF odd
    <3>1. odd \in SUBSET Nat BY DEF odd
    <3> QED BY <1>1, <3>1, Least
  <2>2. k \in Nat /\ a < k /\ ~ (2 * TwoTo[a] <= TwoTo[k]) OBVIOUS
  <2>3. k - 1 \in Nat /\ (k - 1) + 1 = k /\ k - 1 \notin odd BY <2>1, <2>2
  <2>4. TwoTo[k] = 2 * TwoTo[k - 1] /\ TwoTo[k - 1] \in Nat /\ TwoTo[a] \in Nat
    BY <2>3, TwoToDefined, TwoToBeyond
  <2>5. CASE k - 1 = a BY <2>2, <2>4, <2>5
  <2>6. CASE k - 1 # a
    <3>1. 2 * TwoTo[a] <= TwoTo[k - 1] BY <2>2, <2>3, <2>6
    <3> QED BY <2>2, <2>4, <3>1
  <2> QED BY <2>5, <2>6
<1> QED BY <1>1

LEMMA TwoToValues ==
    /\ TwoTo[8] = 256 /\ TwoTo[9] = 512 /\ TwoTo[10] = 1024 /\ TwoTo[11] = 2048
    /\ TwoTo[12] = 4096
    /\ \A m \in Nat : 4096 * TwoTo[m] = TwoTo[m + 12]
<1>1. ASSUME NEW m \in Nat PROVE 4096 * TwoTo[m] = TwoTo[m + 12] /\ 256 * TwoTo[m] = TwoTo[m + 8]
                                 /\ 512 * TwoTo[m] = TwoTo[m + 9] /\ 1024 * TwoTo[m] = TwoTo[m + 10]
                                 /\ 2048 * TwoTo[m] = TwoTo[m + 11]
  <2>1. \A k \in Nat : TwoTo[k] \in Nat /\ TwoTo[k + 1] = 2 * TwoTo[k]
    BY TwoToDefined, TwoToBeyond
  <2>2. \A k \in Nat : TwoTo[k + 2] = 4 * TwoTo[k]
    <3>1. SUFFICES ASSUME NEW k \in Nat PROVE TwoTo[k + 2] = 4 * TwoTo[k] OBVIOUS
    <3>2. k + 1 \in Nat /\ (k + 1) + 1 = k + 2 OBVIOUS
    <3>3. TwoTo[k + 2] = 2 * TwoTo[k + 1] BY <2>1, <3>2
    <3> QED BY <2>1, <3>3
  <2>3. \A k \in Nat : TwoTo[k + 4] = 16 * TwoTo[k]
    <3>1. SUFFICES ASSUME NEW k \in Nat PROVE TwoTo[k + 4] = 16 * TwoTo[k] OBVIOUS
    <3>2. k + 2 \in Nat /\ (k + 2) + 2 = k + 4 OBVIOUS
    <3>3. TwoTo[k + 4] = 4 * TwoTo[k + 2] BY <2>2, <3>2
    <3> QED BY <2>1, <2>2, <3>3
  <2>4. m + 4 \in Nat /\ m + 8 \in Nat /\ m + 9 \in Nat /\ m + 10 \in Nat /\ m + 11 \in Nat
        /\ (m + 4) + 4 = m + 8 /\ (m + 8) + 1 = m + 9 /\ (m + 8) + 2 = m + 10
        /\ (m + 8) + 4 = m + 12 /\ (m + 10) + 1 = m + 11
    OBVIOUS
  <2>5. TwoTo[m] \in Nat /\ TwoTo[m + 4] = 16 * TwoTo[m] /\ TwoTo[m + 8] = 16 * TwoTo[m + 4]
    BY <2>1, <2>3, <2>4
  <2>6. TwoTo[m + 8] = 256 * TwoTo[m] BY <2>5
  <2>7. TwoTo[m + 9] = 2 * TwoTo[m + 8] /\ TwoTo[m + 10] = 4 * TwoTo[m + 8]
        /\ TwoTo[m + 12] = 16 * TwoTo[m + 8] /\ TwoTo[m + 11] = 2 * TwoTo[m + 10]
    BY <2>1, <2>2, <2>3, <2>4
  <2> QED BY <2>5, <2>6, <2>7
<1>2. TwoTo[0] = 1 BY TwoToDefined
<1>3. 0 + 8 = 8 /\ 0 + 9 = 9 /\ 0 + 10 = 10 /\ 0 + 11 = 11 /\ 0 + 12 = 12 /\ 0 \in Nat OBVIOUS
<1>4. TwoTo[8] = 256 * TwoTo[0] /\ TwoTo[9] = 512 * TwoTo[0] /\ TwoTo[10] = 1024 * TwoTo[0]
      /\ TwoTo[11] = 2048 * TwoTo[0] /\ TwoTo[12] = 4096 * TwoTo[0]
  BY <1>1, <1>3
<1> QED BY <1>1, <1>2, <1>4

(* The loop finds the power of two above a size.                           *)
LEMMA OctaveRight ==
    ASSUME NEW m \in Nat, m >= 11, NEW k \in Nat, TwoTo[m + 1] <= k, k < TwoTo[m + 2]
    PROVE  Octave(k) = 4 * TwoTo[m]
<1> DEFINE Choices == {4096 * TwoTo[j] : j \in 0 .. k \div 4096}
           Fits(s) == s > k /\ (s > 4096 => s \div 2 <= k)
<1>1. \A j \in Nat : TwoTo[j] \in Nat /\ TwoTo[j] > j /\ TwoTo[j + 1] = 2 * TwoTo[j]
  BY TwoToDefined, TwoToBeyond
<1>2. m - 11 \in Nat /\ m - 10 \in Nat /\ (m - 11) + 1 = m - 10 /\ (m - 11) + 12 = m + 1
      /\ (m - 10) + 12 = m + 2 /\ m + 1 \in Nat /\ (m + 1) + 1 = m + 2
  OBVIOUS
<1>3. TwoTo[m + 1] = 2 * TwoTo[m] /\ TwoTo[m + 2] = 4 * TwoTo[m] BY <1>1, <1>2
<1>4. TwoTo[m + 2] \in Choices
  <2>1. 4096 * TwoTo[m - 11] = TwoTo[m + 1] BY <1>2, TwoToValues
  <2>2. TwoTo[m - 11] \in Nat /\ TwoTo[m - 11] >= m - 10 BY <1>1, <1>2
  <2>3. 4096 * (m - 10) <= k BY <1>2, <2>1, <2>2
  <2>4. m - 10 \in 0 .. k \div 4096 BY <1>2, <2>3
  <2>5. 4096 * TwoTo[m - 10] = TwoTo[m + 2] BY <1>2, TwoToValues
  <2> QED BY <2>4, <2>5
<1>5. Fits(TwoTo[m + 2])
  <2>1. TwoTo[m + 2] \div 2 = TwoTo[m + 1] BY <1>1, <1>3
  <2> QED BY <2>1
<1>6. ASSUME NEW s \in Choices, Fits(s) PROVE s = TwoTo[m + 2]
  <2>1. PICK j \in 0 .. k \div 4096 : s = 4096 * TwoTo[j] OBVIOUS
  <2>2. j \in Nat BY <2>1
  <2>3. s = TwoTo[j + 12] /\ j + 11 \in Nat /\ (j + 11) + 1 = j + 12 BY <2>1, <2>2, TwoToValues
  <2>4. TwoTo[j + 12] = 2 * TwoTo[j + 11] /\ TwoTo[j + 11] \in Nat BY <1>1, <2>3
  <2>5. ~ (j + 12 < m + 2)
    <3>1. SUFFICES ASSUME j + 12 < m + 2 PROVE FALSE OBVIOUS
    <3>2. TwoTo[j + 12] <= TwoTo[m + 1]
      <4>1. CASE j + 12 = m + 1 BY <1>1, <1>2, <4>1
      <4>2. CASE j + 12 # m + 1
        <5>1. j + 12 \in Nat /\ j + 12 < m + 1 BY <2>2, <3>1, <4>2
        <5>2. 2 * TwoTo[j + 12] <= TwoTo[m + 1] BY <1>2, <5>1, TwoToGrows
        <5> QED BY <1>1, <5>1, <5>2
      <4> QED BY <4>1, <4>2
    <3> QED BY <1>1, <1>2, <1>6, <2>3, <2>4, <3>2
  <2>6. ~ (m + 2 < j + 12)
    <3>1. SUFFICES ASSUME m + 2 < j + 12 PROVE FALSE OBVIOUS
    <3>2. TwoTo[m + 2] <= TwoTo[j + 11]
      <4>1. CASE j + 11 = m + 2 BY <1>1, <2>3, <4>1
      <4>2. CASE j + 11 # m + 2
        <5>1. m + 2 \in Nat /\ m + 2 < j + 11 BY <2>2, <3>1, <4>2
        <5>2. 2 * TwoTo[m + 2] <= TwoTo[j + 11] BY <2>3, <5>1, TwoToGrows
        <5> QED BY <1>1, <5>1, <5>2
      <4> QED BY <4>1, <4>2
    <3>3. s \div 2 = TwoTo[j + 11] BY <2>3, <2>4
    <3>4. s > 4096
      <4>1. TwoTo[j] \in Nat /\ j # 0 BY <1>1, <2>2, <3>1
      <4>2. TwoTo[j] > 1 BY <1>1, <2>2, <4>1
      <4> QED BY <2>1, <4>1, <4>2
    <3> QED BY <1>1, <1>6, <3>2, <3>3, <3>4
  <2> QED BY <2>2, <2>3, <2>5, <2>6
<1> HIDE DEF Choices, Fits
<1>7. Octave(k) = CHOOSE s \in Choices : Fits(s) BY DEF Octave, Choices, Fits
<1>8. Octave(k) = TwoTo[m + 2] BY <1>4, <1>5, <1>6, <1>7
<1> QED BY <1>3, <1>8

(* Sizes are powers of two or, beyond 2048, half way from one to the next. *)
SizeAfter(k, m) ==
    /\ m \in Nat /\ m >= 8
    /\ k = 2 * TwoTo[m] \/ (m >= 10 /\ k = 3 * TwoTo[m])
SizeInv == \E m \in Nat : SizeAfter(range, m)

LEMMA StepRight ==
    ASSUME NEW k, NEW m, SizeAfter(k, m)
    PROVE  /\ k \in Nat /\ step(k) \in Nat /\ TwoTo[m + 1] <= k /\ k < step(k)
           /\ step(k) <= TwoTo[m + 2]
           /\ SizeAfter(step(k), m) \/ SizeAfter(step(k), m + 1)
<1>1. m \in Nat /\ m + 1 \in Nat /\ m >= 8 /\ (m + 1) + 1 = m + 2 BY DEF SizeAfter
<1>2. TwoTo[m] \in Nat /\ TwoTo[m] > 0 /\ TwoTo[m + 1] = 2 * TwoTo[m] /\ TwoTo[m + 2] = 4 * TwoTo[m]
  <2>1. TwoTo[m + 1] = 2 * TwoTo[m] /\ TwoTo[m + 2] = 2 * TwoTo[m + 1] BY <1>1, TwoToDefined
  <2> QED BY <1>1, <2>1, TwoToBeyond
<1>3. k \in Nat /\ TwoTo[m + 1] <= k /\ k < TwoTo[m + 2] BY <1>2 DEF SizeAfter
<1>4. /\ m = 8 => k = 512 /\ step(k) = 2 * k
      /\ m = 9 => k = 1024 /\ step(k) = k + 1024
  BY TwoToValues DEF SizeAfter, step
<1>5. m = 10 => k \in {2048, 3072} /\ step(k) = k + 1024 BY TwoToValues DEF SizeAfter, step
<1>6. m >= 11 => step(k) = k + TwoTo[m]
  <2>1. SUFFICES ASSUME m >= 11 PROVE step(k) = k + TwoTo[m] OBVIOUS
  <2>2. Octave(k) = 4 * TwoTo[m] BY <1>1, <1>3, <2>1, OctaveRight
  <2>3. k >= 4096
    <3>1. TwoTo[12] = 4096 BY TwoToValues
    <3>2. m + 1 = 12 \/ 12 < m + 1 BY <1>1, <2>1
    <3>3. 12 < m + 1 => 2 * TwoTo[12] <= TwoTo[m + 1] BY <1>1, TwoToGrows
    <3> QED BY <1>2, <1>3, <3>1, <3>2, <3>3
  <2>4. step(k) = k + Octave(k) \div 4 BY <1>3, <2>3 DEF step
  <2> QED BY <1>2, <2>2, <2>4
<1>7. CASE m \in {8, 9}
  <2>1. step(k) = 2 * TwoTo[m + 1] BY <1>2, <1>4, <1>7, TwoToValues
  <2>2. SizeAfter(step(k), m + 1) BY <1>1, <2>1 DEF SizeAfter
  <2> QED BY <1>2, <1>3, <2>1, <2>2, <1>7, <1>4
<1>8. CASE m >= 10
  <2>1. step(k) = k + TwoTo[m] BY <1>1, <1>5, <1>6, <1>8, TwoToValues
  <2>2. CASE k = 2 * TwoTo[m]
    <3>1. step(k) = 3 * TwoTo[m] BY <1>2, <2>1, <2>2
    <3>2. SizeAfter(step(k), m) BY <1>1, <1>8, <3>1 DEF SizeAfter
    <3> QED BY <1>2, <1>3, <2>1, <3>1, <3>2
  <2>3. CASE k = 3 * TwoTo[m]
    <3>1. step(k) = 2 * TwoTo[m + 1] BY <1>2, <2>1, <2>3
    <3>2. SizeAfter(step(k), m + 1) BY <1>1, <3>1 DEF SizeAfter
    <3> QED BY <1>2, <1>3, <2>1, <3>1, <3>2
  <2> QED BY <2>2, <2>3 DEF SizeAfter
<1> QED BY <1>1, <1>7, <1>8

(* No power of two is between two powers that follow each other.           *)
LEMMA NonePassed ==
    ASSUME NEW k, NEW m, SizeAfter(k, m), NEW q \in Nat
    PROVE  TwoTo[q] \notin k + 1 .. step(k) - 1
<1>1. /\ k \in Nat /\ step(k) \in Nat /\ TwoTo[m + 1] <= k /\ step(k) <= TwoTo[m + 2]
  BY StepRight
<1>2. m \in Nat /\ m + 1 \in Nat /\ m + 2 \in Nat BY DEF SizeAfter
<1>3. TwoTo[q] \in Nat /\ TwoTo[m + 1] \in Nat /\ TwoTo[m + 2] \in Nat BY <1>2, TwoToBeyond
<1>4. CASE q < m + 1
  <2>1. 2 * TwoTo[q] <= TwoTo[m + 1] BY <1>2, <1>4, TwoToGrows
  <2> QED BY <1>1, <1>3, <2>1
<1>5. CASE q = m + 1 BY <1>1, <1>3, <1>5
<1>6. CASE q = m + 2 BY <1>1, <1>3, <1>6
<1>7. CASE m + 2 < q
  <2>1. 2 * TwoTo[m + 2] <= TwoTo[q] BY <1>2, <1>7, TwoToGrows
  <2> QED BY <1>1, <1>3, <2>1
<1> QED BY <1>2, <1>4, <1>5, <1>6, <1>7

LEMMA RangeStep == [Next]_vars => range' = range \/ range' = step(range)
BY DEF Next, vars, Call, Skip, Exit, AllDone, Merge, Publish, GiveUp, PrintLine, Measure, Exhausted,
       Report

LEMMA SizeInit == Init => SizeInv
<1>1. 2 * TwoTo[8] = 512 BY TwoToValues
<1> QED BY <1>1 DEF Init, SizeInv, SizeAfter

LEMMA SizeStep == SizeInv /\ [Next]_vars => SizeInv'
<1> SUFFICES ASSUME SizeInv, [Next]_vars PROVE SizeInv' OBVIOUS
<1>1. PICK m \in Nat : SizeAfter(range, m) BY DEF SizeInv
<1>2. CASE range' = range BY <1>1, <1>2 DEF SizeInv
<1>3. CASE range' = step(range)
  <2>1. SizeAfter(step(range), m) \/ SizeAfter(step(range), m + 1) BY <1>1, StepRight
  <2>2. m + 1 \in Nat OBVIOUS
  <2> QED BY <1>3, <2>1, <2>2 DEF SizeInv
<1> QED BY <1>2, <1>3, RangeStep

(* The array sizes of a sweep: powers of two and, from 2048 on, the sizes  *)
(* half way between them (lat_mem_rd.c:154-169).                           *)
THEOREM SizesCorrect == Spec => []SizeInv
<1> QED BY SizeInit, SizeStep, PTL DEF Spec

(* The sizes grow, and no power of two is passed over, however long the    *)
(* largest array is (lat_mem_rd.c:154-169).                                *)
THEOREM PowersCorrect == Spec => PowersVisited
<1>1. SizeInv /\ [Next]_vars =>
        [range' # range => /\ range' > range
                           /\ \A m \in Exponents : TwoTo[m] \notin range + 1 .. range' - 1]_range
  <2> SUFFICES ASSUME SizeInv, [Next]_vars, range' # range
               PROVE  /\ range' > range
                      /\ \A m \in Exponents : TwoTo[m] \notin range + 1 .. range' - 1
    OBVIOUS
  <2>1. range' = step(range) BY RangeStep
  <2>2. PICK m \in Nat : SizeAfter(range, m) BY DEF SizeInv
  <2>3. range' > range BY <2>1, <2>2, StepRight
  <2>4. \A q \in Exponents : TwoTo[q] \notin range + 1 .. range' - 1
    BY <2>1, <2>2, NonePassed, ExponentsAssumption
  <2> QED BY <2>3, <2>4
<1> QED BY <1>1, SizesCorrect, PTL DEF Spec, PowersVisited
=============================================================================
