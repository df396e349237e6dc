------------------------------ MODULE Results ------------------------------
(***************************************************************************)
(* The lists of samples of lib_timing.c.  A sample says that n iterations  *)
(* took u microseconds; a list (result_t) is kept in order, the slowest    *)
(* sample first, in an array whose size was fixed when it was allocated.   *)
(***************************************************************************)
EXTENDS Integers, Sequences

CONSTANT TRIES  \* slots of a result_t, 11 in bench.h

ASSUME TriesAssumption == TRIES \in Nat \ {0}

Sample == [u : Nat, n : Nat \ {0}]

(* a.u / a.n > b.u / b.n.                                                  *)
Slower(a, b) == a.u * b.n > b.u * a.n

(* MUTANT: every list has the same size.                                   *)
sizeof_resultFixed(repetitions) == IF repetitions <= TRIES THEN TRIES ELSE TRIES

(* The slots of a list allocated for so many repetitions; the number may   *)
(* be negative.                                                            *)
sizeof_result(repetitions) == IF repetitions <= TRIES THEN TRIES ELSE repetitions

(* The first slot whose sample is faster than v, or the one after the last.*)
Slot(v, r) == CHOOSE i \in 1 .. Len(r) + 1 :
    /\ i <= Len(r) => Slower(v, r[i])
    /\ \A k \in 1 .. i - 1 : ~ Slower(v, r[k])

(* MUTANT: a sample goes before the slower ones.                           *)
SlotReversed(v, r) == CHOOSE i \in 1 .. Len(r) + 1 :
    /\ i <= Len(r) => Slower(r[i], v)
    /\ \A k \in 1 .. i - 1 : ~ Slower(r[k], v)

insertsortReversed(v, r) ==
    IF v.u = 0 THEN r
    ELSE LET i == SlotReversed(v, r)
         IN  [k \in 1 .. Len(r) + 1 |-> IF k < i THEN r[k] ELSE IF k = i THEN v ELSE r[k - 1]]

(* A sample of no time at all is dropped.                                  *)
insertsort(v, r) ==
    IF v.u = 0 THEN r
    ELSE LET i == Slot(v, r)
         IN  [k \in 1 .. Len(r) + 1 |-> IF k < i THEN r[k] ELSE IF k = i THEN v ELSE r[k - 1]]

(* What gettime() and get_n() answer before anything was measured.         *)
Nothing == [u |-> 0, n |-> 1]

(* MUTANT: the first sample is taken for the fastest.                      *)
minimumFirst(r) == IF r = <<>> THEN Nothing ELSE r[1]

(* save_minimum(): the fastest sample.                                     *)
minimum(r) == IF r = <<>> THEN Nothing ELSE r[Len(r)]

(* MUTANT: the slots are counted from one.                                 *)
medianBefore(r) ==
    LET i == Len(r) \div 2 IN
    IF r = <<>> THEN Nothing
    ELSE IF Len(r) % 2 = 1 THEN r[IF i = 0 THEN 1 ELSE i]
    ELSE [u |-> (r[i + 1].u + r[i].u) \div 2, n |-> (r[i + 1].n + r[i].n) \div 2]

(* save_median(): the middle sample, or the middle of the two.             *)
median(r) ==
    LET i == Len(r) \div 2 IN
    IF r = <<>> THEN Nothing
    ELSE IF Len(r) % 2 = 1 THEN r[i + 1]
    ELSE [u |-> (r[i + 1].u + r[i].u) \div 2, n |-> (r[i + 1].n + r[i].n) \div 2]
=============================================================================
