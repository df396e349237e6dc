----------------------------- MODULE CoreLatency -----------------------------
(***************************************************************************)
(* compute-latencies.c: from the latencies of the caches above the first   *)
(* processor and the latencies between the nodes, which the scripts        *)
(* measured, a latency for every two cores.  It goes by the numbers of     *)
(* hwloc for the cores and by those of the kernel for the nodes.  Runs     *)
(* after na_init().                                                        *)
(***************************************************************************)
EXTENDS ArchTopology

(* What hwloc finds: the data caches by level, the first and third index   *)
(* and so on of sysfs (the second is the instruction cache).               *)
Levels == 1 .. machine.indexes - 1
Cache(level, c) == machine.share[IF level = 1 THEN 0 ELSE level][c]

(* The groups of processors a processor is in, and the order of the leaves *)
(* of the tree of these groups: by the smallest number below.              *)
Groups(c) ==
    {NodeCpus(machine.node[c]), {d \in machine.online : machine.package[d] = machine.package[c]}}
        \cup {Cache(level, c) : level \in Levels}
Apart(c, d) == UNION {g \in Groups(c) \cup {{c}} : d \notin g}
Before(c, d) == c # d /\ Min(Apart(c, d)) < Min(Apart(d, c))
Logical(S) ==
    [k \in 1 .. Cardinality(S) |-> CHOOSE c \in S : Cardinality({d \in S : Before(d, c)}) = k - 1]
LogicalOrder == Logical(machine.online)

(* hwloc_get_obj_by_type(HWLOC_OBJ_CORE, i): the processors of core i, {}  *)
(* when there is none.                                                     *)
Cores == Logical({c \in machine.online : c = Min(Cache(1, c))})
core(i) == IF i < Len(Cores) THEN Cache(1, Cores[i + 1]) ELSE {}

nb_cores == Cardinality(machine.online)
NoLatency == <<"undefined">>

(* Three are measured.  A level that does not exist has size 0, which      *)
(* makes the length a negative number; a fourth is written after the end   *)
(* of the array.                                                           *)
cache_latencies(level) ==
    IF level \in Levels /\ Cardinality(Levels) <= 3 THEN <<"cache", level>> ELSE NoLatency

cpus_to_nodes(i) == IF NUMA THEN HashCpuNode[i] ELSE 0
nodes_matrix(a, b) ==
    IF {a, b} \subseteq 0 .. Cardinality(machine.nodes) - 1 THEN <<"memory", a, b>> ELSE NoLatency

(* MUTANT: the depth of a cache is taken for its index.                    *)
coreFactorDepth(i, j) ==
    LET common == {level \in Levels : \E c \in core(i) : core(i) \cup core(j) \subseteq Cache(level, c)}
    IN  IF i = j THEN cache_latencies(1)
        ELSE IF core(i) = {} \/ core(j) = {} THEN NoLatency
        ELSE IF common # {} THEN cache_latencies(Min(common) + 1)
        ELSE nodes_matrix(cpus_to_nodes(i), cpus_to_nodes(i))

(* The deepest object above both cores.                                    *)
coreFactor(i, j) ==
    LET common == {level \in Levels : \E c \in core(i) : core(i) \cup core(j) \subseteq Cache(level, c)}
    IN  IF i = j THEN cache_latencies(1)
        ELSE IF core(i) = {} \/ core(j) = {} THEN NoLatency
        ELSE IF common # {} THEN cache_latencies(Min(common))
        ELSE nodes_matrix(cpus_to_nodes(i), cpus_to_nodes(i))

cores_matrix ==
    [p \in (0 .. nb_cores - 1) \X (0 .. nb_cores - 1) |->
        LET current == cpus_to_nodes(p[1])
        IN  IF cpus_to_nodes(p[2]) = current THEN coreFactor(p[1], p[2])
            ELSE nodes_matrix(current, cpus_to_nodes(p[2]))]
=============================================================================
