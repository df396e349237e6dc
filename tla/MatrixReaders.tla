--------------------------- MODULE MatrixReaders ---------------------------
(***************************************************************************)
(* How the library reads the matrices of the scripts: by counting words    *)
(* from the start of the file, blank cells being no words.  na_latency(),  *)
(* na_numafactor() and na_bandwidth() number the nodes from one, the       *)
(* matrices of na_fill_latency_matrix() from zero.                         *)
(***************************************************************************)
EXTENDS Integers, Sequences, FiniteSets

CONSTANTS
    MAXNODES,  \* archTopo.h
    Blank,     \* a cell without a number
    Initial    \* the variable fscanf() reads into, before it does

(* The words among the first k cells; how many words there are, and which  *)
(* one is word k.                                                          *)
Words(file, k)  == {i \in DOMAIN file : i <= k /\ file[i] # Blank}
Count(file)     == Cardinality(Words(file, Len(file)))
WordAt(file, k) == file[CHOOSE i \in Words(file, Len(file)) : Cardinality(Words(file, i)) = k]

(* MUTANT: the loop runs once more.                                        *)
NthOneMore(file, k) ==
    LET last == IF k < 0 THEN 1 ELSE k + 1
    IN  IF Count(file) = 0 THEN Initial
        ELSE WordAt(file, IF last > Count(file) THEN Count(file) ELSE last)

(* `do fscanf while (i < k)': at least one word is read, and when there    *)
(* are fewer the last one stays.                                           *)
Nth(file, k) ==
    LET last == IF k < 1 THEN 1 ELSE k
    IN  IF Count(file) = 0 THEN Initial
        ELSE WordAt(file, IF last > Count(file) THEN Count(file) ELSE last)

na_latency(file, node1, node2)    == Nth(file, (node1 - 1) * MAXNODES + node2)
na_numafactor(file, node1, node2) == Nth(file, (node1 - 1) * MAXNODES + node2)
na_bandwidth(file, node1, node2)  == Nth(file, (node1 - 1) * MAXNODES + node2)

(* Cells that have no word keep what malloc() gave the caller.             *)
na_fill_latency_matrix(file) ==
    [p \in (0 .. MAXNODES - 1) \X (0 .. MAXNODES - 1) |->
        LET k == p[1] * MAXNODES + p[2] + 1
        IN  IF k <= Count(file) THEN WordAt(file, k) ELSE Initial]
=============================================================================
