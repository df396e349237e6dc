---------------------------- MODULE SweepSafety ----------------------------
(* Safety of the lists of samples, for every run of lat_mem_rd.            *)
EXTENDS Sweep, FiniteSets

TypeInv ==
    /\ pc \in {"size", "measure", "report", "print", "exit"}
    /\ par \in {1, Parallel} /\ iterations \in Nat \ {0}
    /\ list \in [Children -> Seq(Sample)] /\ i \in [Children -> Nat]
    /\ done \subseteq Children /\ told \subseteq Active
    /\ report \in Seq(Sample) /\ merged \in Seq(Sample) /\ results \in Seq(Sample)

Sorted(r) == \A k \in 2 .. Len(r) : ~ Slower(r[k], r[k - 1])

(* Every list is in order, also while it is being merged and after it was  *)
(* published (lib_timing.c:1226-1248): save_minimum() and save_median()    *)
(* rely on the positions alone.                                            *)
ListsSorted ==
    /\ \A c \in Children : Sorted(list[c])
    /\ Sorted(merged) /\ Sorted(results)

(* No list outgrows the array it was given (lib_timing.c:356-357, 623,     *)
(* 1210-1216): a child takes no sample more than was asked for, and the    *)
(* parent merges no more than the children took.                           *)
WithinCapacity ==
    /\ \A c \in Children : Len(list[c]) <= sizeof_result(Repetitions)
    /\ Len(merged) <= sizeof_result(par * Repetitions)

(* Why: a child counts its samples, and a report adds no more to the       *)
(* merged list than one child may have taken.                              *)
CountsInv ==
    /\ \A c \in Children :
          Len(list[c]) <= i[c] /\ i[c] <= Wanted /\ (c \in Active \ done => i[c] < Wanted)
    /\ Len(merged) + Len(report) <= Cardinality(told) * Wanted

IInv == TypeInv /\ ListsSorted /\ CountsInv
=============================================================================
