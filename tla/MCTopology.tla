----------------------------- MODULE MCTopology -----------------------------
(* Machines of different shapes, and what the answers about them must say. *)
EXTENDS CoreLatency

(* A machine whose processors are all online; the caches given as groups.  *)
Box(cpus, node(_), package(_), caches) ==
    [nodes |-> {node(c) : c \in 0 .. cpus - 1}, cpus |-> cpus, online |-> 0 .. cpus - 1,
     node |-> [c \in 0 .. cpus - 1 |-> node(c)], package |-> [c \in 0 .. cpus - 1 |-> package(c)],
     indexes |-> Len(caches), entries |-> Len(caches),
     share |-> [i \in 0 .. Len(caches) - 1 |->
                   [c \in 0 .. cpus - 1 |-> CHOOSE g \in caches[i + 1] : c \in g]]]

Own(cpus) == {{c} : c \in 0 .. cpus - 1}
OneGroup(cpus) == {0 .. cpus - 1}

(* One node; the last cache is shared by two processors of four.           *)
Uniform == Box(4, LAMBDA c : 0, LAMBDA c : 0, <<Own(4), Own(4), {{0, 2}, {1, 3}}>>)
(* Even processors on one node, odd ones on the other.                     *)
Interleaved ==
    Box(4, LAMBDA c : c % 2, LAMBDA c : c % 2, <<Own(4), Own(4), Own(4), {{0, 2}, {1, 3}}>>)
(* Numbers of two digits; caches shared by ranges.                         *)
Wide == Box(12, LAMBDA c : c \div 6, LAMBDA c : c \div 6, <<Own(12), Own(12), {0 .. 5, 6 .. 11}>>)
(* Two sockets in each node.                                               *)
Sockets == Box(8, LAMBDA c : c \div 4, LAMBDA c : c \div 2, <<Own(8), Own(8), Own(8)>>)
(* A cache that is not the last is shared by two processors of four.       *)
Middle ==
    Box(4, LAMBDA c : c % 2, LAMBDA c : c % 2, <<Own(4), Own(4), {{0, 2}, {1, 3}}, OneGroup(4)>>)
(* Node 2 is missing.                                                      *)
Sparse == Box(3, LAMBDA c : <<0, 1, 3>>[c + 1], LAMBDA c : c, <<Own(3), Own(3), OneGroup(3)>>)
(* Three processors share the last cache.                                  *)
Triples == Box(6, LAMBDA c : c % 2, LAMBDA c : c % 2, <<Own(6), Own(6), {{0, 2, 4}, {1, 3, 5}}>>)
(* Three caches of the last level, shared by two, three and one.           *)
Uneven == Box(6, LAMBDA c : 0, LAMBDA c : 0, <<Own(6), Own(6), {{0, 2}, {1, 3, 5}, {4}}>>)
(* The second node is larger, or smaller, than the first.                  *)
Larger  == Box(3, LAMBDA c : <<0, 1, 1>>[c + 1], LAMBDA c : c, <<Own(3), Own(3), Own(3)>>)
Smaller == Box(3, LAMBDA c : <<0, 0, 1>>[c + 1], LAMBDA c : c \div 2, <<Own(3), Own(3), Own(3)>>)
(* Processor 3 of `Interleaved' is offline.                                *)
Offline == [nodes |-> {0, 1}, cpus |-> 4, online |-> {0, 1, 2},
            node |-> [c \in {0, 1, 2} |-> c % 2], package |-> [c \in {0, 1, 2} |-> c % 2],
            indexes |-> 3, entries |-> 3, share |-> [i \in 0 .. 2 |-> [c \in {0, 1, 2} |-> {c}]]]

(* Three levels: pairs share the second, three processors the last, and    *)
(* each node has two of the last.                                          *)
Ladder ==
    Box(12, LAMBDA c : c \div 6, LAMBDA c : c \div 6,
        <<Own(12), Own(12), {{0, 1}, {2}, {3, 4}, {5}, {6, 7}, {8}, {9, 10}, {11}},
          {{0, 1, 2}, {3, 4, 5}, {6, 7, 8}, {9, 10, 11}}>>)
(* Two processors in each core.                                            *)
Threads == Box(4, LAMBDA c : 0, LAMBDA c : 0,
               <<{{0, 2}, {1, 3}}, {{0, 2}, {1, 3}}, {{0, 2}, {1, 3}}, OneGroup(4)>>)

(* `Uniform' under a kernel that has one more entry in the cache directory.*)
Later == [Uniform EXCEPT !.entries = 4]

AllMachines == {Uniform, Later, Interleaved, Wide, Sockets, Middle, Sparse, Triples, Uneven, Larger,
                Smaller, Offline, Ladder, Threads}
Shared == {Middle, Later}

Answered(query) == answer.query = query

(* The two directions of the map between processors and nodes agree, on a  *)
(* machine whose nodes are numbered without gaps: na_get_cpusidnode()      *)
(* lists in order the processors that na_get_nodeidcpu() places on the     *)
(* node.  All of them unless the node is larger than node 0, and never one *)
(* of another node (archTopology.c:435-490, 598-627).                      *)
NodeCpusRight ==
    Answered("na_get_cpusidnode") =>
        LET ids == ToSet(answer.ids)
            there == NodeCpus(answer.id)
        IN
        /\ \A i, j \in DOMAIN answer.ids : i < j => answer.ids[i] < answer.ids[j]
        /\ ids \subseteq there
        /\ Cardinality(there) <= Cardinality(NodeCpus(0)) => ids = there
        /\ machine.nodes = 0 .. Cardinality(machine.nodes) - 1 =>
              \A c \in DOMAIN HashCpuNode \cap machine.online :
                  (HashCpuNode[c] = answer.id) <=> (c \in there)

(* The other processors of the cache, each once, if it is shared by as     *)
(* many as that of processor 0, and the one asked about is the first or    *)
(* the last of the list; the code loses one for any other                  *)
(* (archTopology.c:661-665, 683-692).                                      *)
SiblingsRight ==
    LET list == shared_cpu_list(na_get_shared_cacheLevel, answer.id) IN
    (/\ Answered("na_get_cacheShare_cores") /\ Len(list) = na_get_cache_cores
     /\ answer.id \in {Head(list), Last(list)}) =>
        /\ ToSet(answer.ids) = ToSet(list) \ {answer.id}
        /\ IsInjective(answer.ids)

Packages(n) == {machine.package[c] : c \in NodeCpus(n)}

(* The sockets of a node, each once, on a machine with several nodes and   *)
(* none with more processors or sockets than node 0 has room for           *)
(* (archTopology.c:333-352).                                               *)
SocketsOnce ==
    (/\ Answered("na_get_socketsId_node") /\ NUMA
     /\ Cardinality(NodeCpus(answer.id)) <= CPUSNODE
     /\ Cardinality(Packages(answer.id)) <= SOCKETSNODE) =>
        /\ ToSet(answer.ids) \ {-1} = Packages(answer.id)
        /\ \A i, j \in DOMAIN answer.ids :
              i # j /\ answer.ids[i] # -1 => answer.ids[i] # answer.ids[j]

(* Nodes like node 0, and only the last cache shared by separate ranges.   *)
Regular ==
    /\ \A n \in machine.nodes : /\ Cardinality(NodeCpus(n)) = Cardinality(NodeCpus(0))
                                /\ NUMA => Cardinality(Packages(n)) <= SOCKETSNODE
    /\ \A i \in 2 .. machine.entries - 2 : Len(shared_cpu_list(i, 0)) = 1
    /\ LET last == machine.indexes - 1 IN
       \A c \in machine.online : Len(shared_cpu_list(last, c)) = Len(shared_cpu_list(last, 0))

(* On a regular machine a query ends unless earlier queries have used up   *)
(* the streams they left open (archTopology.c:532-543, 559-568).           *)
RegularSurvives == Regular /\ ~alive => ~Room(CacheStreams + 1)

(* Two cores are as far apart as the smallest cache that both are below,   *)
(* or else as their nodes, on a machine that the program is made for: the  *)
(* numbers of hwloc are those of the kernel, a core has one processor, and *)
(* there are three levels of caches, none across nodes                     *)
(* (compute-latencies.c:67-88, 129-138, 147-152).                          *)
MadeFor ==
    /\ machine.online = 0 .. Cardinality(machine.online) - 1
    /\ \A i \in 1 .. Len(LogicalOrder) : LogicalOrder[i] = i - 1
    /\ \A c \in machine.online : machine.share[0][c] = {c}
    /\ machine.indexes = 4 /\ machine.nodes = 0 .. Cardinality(machine.nodes) - 1
    /\ \A c \in machine.online, i \in 2 .. 3 : machine.share[i][c] \subseteq NodeCpus(machine.node[c])
Fresh == HashCpuNode # <<>> /\ stack = <<>> /\ answer.query = "none"
CoresRight ==
    Fresh /\ MadeFor => \A c, d \in machine.online :
        LET below == {i \in {0, 2, 3} : d \in machine.share[i][c]} IN
        cores_matrix[<<c, d>>] =
            IF below = {} THEN <<"memory", machine.node[c], machine.node[d]>>
            ELSE <<"cache", IF Min(below) = 0 THEN 1 ELSE Min(below)>>

(* archTopology.c:574, "get cpus/cores id of a node": the query returns.   *)
NodeAnswered == ~alive => stack[1].query # "na_get_cpusidnode"
=============================================================================
