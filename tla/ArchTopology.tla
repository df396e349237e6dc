---------------------------- MODULE ArchTopology ----------------------------
(***************************************************************************)
(* The queries of archTopology.c about nodes, sockets and shared caches,   *)
(* asked one after another by one process.  A query reads sysfs through    *)
(* popen(); those about the caches do not close what they open.  The       *)
(* library is compiled with the header that topology.sh wrote on the same  *)
(* machine.                                                                *)
(*                                                                         *)
(* A query that another query asks is a frame on the stack.                *)
(***************************************************************************)
EXTENDS Integers, Sequences, FiniteSets, SequencesExt

CONSTANTS
    Machines,    \* what sysfs says, a set of records as in Machine below
    StackLimit,  \* how deep calls can nest
    StreamLimit  \* how many streams a process can have open

ASSUME LimitAssumption == StackLimit \in Nat \ {0, 1} /\ StreamLimit \in Nat

VARIABLES
    machine,
    HashCpuNode,  \* the node of each processor, <<>> before na_init()
    stack,        \* the queries being answered, the outermost first
    answer,       \* the last query that returned, with the ids it returned
    streams,      \* the streams left open
    alive         \* the process has not crashed

vars == <<machine, HashCpuNode, stack, answer, streams, alive>>

(* Node directories; processor directories and, of those, the ones that    *)
(* are online; their nodes and packages; the number of cache indexes, and  *)
(* of all entries of a cache directory, where later kernels have another   *)
(* one; for each index and processor those that share the cache, itself    *)
(* among them.                                                             *)
Machine(m) ==
    /\ 0 \in m.nodes /\ m.nodes \subseteq Nat /\ IsFiniteSet(m.nodes)
    /\ m.cpus \in Nat /\ m.online \subseteq 0 .. m.cpus - 1 /\ 0 \in m.online
    /\ m.node \in [m.online -> m.nodes] /\ m.package \in [m.online -> Nat]
    /\ m.indexes \in Nat \ {0} /\ m.entries \in {m.indexes, m.indexes + 1}
    /\ m.share \in [0 .. m.indexes - 1 -> [m.online -> SUBSET m.online]]
    /\ \A i \in 0 .. m.indexes - 1, c \in m.online : c \in m.share[i][c]

ASSUME MachineAssumption == \A m \in Machines : Machine(m)

(* The members of a set by their places.                                   *)
Sorted(S, place) ==
    [k \in 1 .. Cardinality(S) |->
        CHOOSE x \in S : Cardinality({y \in S : place[y] < place[x]}) = k - 1]

Ascending(S) == Sorted(S, [x \in S |-> x])
NodeCpus(n)  == {c \in machine.online : machine.node[c] = n}

(* `ls' sorts names: cpu1, cpu10, cpu2.  Bound: fewer than 100 processors. *)
ls(S) ==
    Sorted(S, [c \in S |-> IF c < 10 THEN 11 * c ELSE 11 * (c \div 10) + (c % 10) + 1])

(* The numbers atoi() finds in a shared_cpu_list, such as 0 and 4 in       *)
(* "0-1,4-5": the first of each range.  Bound: lists that the buffer of    *)
(* na_get_cacheShare_cores() holds, four characters for each range.        *)
shared_cpu_list(index, c) ==
    LET sharers == IF index < machine.indexes THEN machine.share[index][c] ELSE {}
    IN  Ascending({d \in sharers : d - 1 \notin sharers})

-----------------------------------------------------------------------------
(* The header.                                                             *)
NUMA     == 1 \in machine.nodes
MAXNODES == IF NUMA THEN Cardinality(machine.nodes) ELSE 0
MAXCPUS  == IF NUMA THEN machine.cpus ELSE Cardinality(NodeCpus(0))
CPUSNODE == IF NUMA THEN Cardinality(NodeCpus(0)) ELSE 0
SOCKETSNODE ==
    IF NUMA THEN Max({machine.package[c] : c \in NodeCpus(0)} \cup {0}) + 1 ELSE 0

(* MUTANT: the last node is not looked at.                                 *)
get_nodeidcpuLast(cpu) ==
    LET stops == {i \in 0 .. MAXNODES - 2 : i \notin machine.nodes \/ cpu \in NodeCpus(i)}
    IN  IF MAXNODES <= 1 THEN 0
        ELSE IF stops = {} THEN -1
        ELSE IF Min(stops) \in machine.nodes THEN Min(stops) ELSE 0

(* The search ends with zero at the first number that is no node.          *)
get_nodeidcpu(cpu) ==
    LET stops == {i \in 0 .. MAXNODES - 1 : i \notin machine.nodes \/ cpu \in NodeCpus(i)}
    IN  IF MAXNODES <= 1 THEN 0
        ELSE IF stops = {} THEN -1
        ELSE IF Min(stops) \in machine.nodes THEN Min(stops) ELSE 0

na_get_numcaches == machine.entries - 1

(* A cache is taken as shared if its list of processor 0 has a comma.  A   *)
(* scan that found none ends with the lines of the last list.              *)
SharedIndexes == {i \in 2 .. na_get_numcaches : Len(shared_cpu_list(i, 0)) > 1}
na_get_shared_cacheLevel == IF SharedIndexes = {} THEN -1 ELSE Min(SharedIndexes)
na_get_cache_cores ==
    IF SharedIndexes # {} THEN Len(shared_cpu_list(na_get_shared_cacheLevel, 0))
    ELSE IF na_get_numcaches > 1 THEN Len(shared_cpu_list(na_get_numcaches, 0)) ELSE 1

(* Each of the two leaves one stream open for every index it looks at.     *)
Scanned == IF SharedIndexes # {} THEN na_get_shared_cacheLevel - 1
           ELSE IF na_get_numcaches > 1 THEN na_get_numcaches - 1 ELSE 0
CacheStreams == 2 * Scanned

(* MUTANT: a last level that is shared is not excepted.                    *)
ThroughSocketsAlways == na_get_shared_cacheLevel # -1

(* A cache below the last level is shared: na_get_cpusidnode() goes by     *)
(* sockets.                                                                *)
ThroughSockets == na_get_shared_cacheLevel \notin {-1, na_get_numcaches}

na_get_socket_cpu(c) == IF c \in machine.online THEN machine.package[c] ELSE -1

-----------------------------------------------------------------------------
Queries == {"na_get_cpusidnode", "na_get_socketsId_node", "na_get_cacheShare_cores"}
Frame(query, id) == [query |-> query, id |-> id, cpus |-> <<>>]
Top == stack[Len(stack)]
Runs(query) == alive /\ stack # <<>> /\ Top.query = query

(* popen() fails when there is no room for n more streams, and fscanf()    *)
(* crashes on what it returns.                                             *)
Room(n) == streams + n <= StreamLimit

Crash ==
    /\ alive' = FALSE
    /\ UNCHANGED <<machine, HashCpuNode, stack, answer, streams>>

(* The query on top calls another.                                         *)
Enter(query, id, opened) ==
    IF Len(stack) < StackLimit
    THEN /\ stack' = Append(stack, Frame(query, id)) /\ streams' = streams + opened
         /\ UNCHANGED <<machine, HashCpuNode, answer, alive>>
    ELSE Crash

(* The query on top returns ids to its caller.                             *)
Return(ids, opened) ==
    /\ IF Len(stack) = 1
       THEN /\ stack' = <<>> /\ answer' = [query |-> Top.query, id |-> Top.id, ids |-> ids]
       ELSE /\ stack' = [Front(stack) EXCEPT ![Len(stack) - 1].cpus = ids]
            /\ UNCHANGED answer
    /\ streams' = streams + opened
    /\ UNCHANGED <<machine, HashCpuNode, alive>>

na_init ==
    /\ alive /\ stack = <<>>
    /\ HashCpuNode' = [cpu \in 0 .. MAXCPUS - 1 |-> get_nodeidcpu(cpu)]
    /\ UNCHANGED <<machine, stack, answer, streams, alive>>

(* The application asks; for siblings only if there is a shared cache.     *)
Ask(query, id) ==
    /\ alive /\ stack = <<>>
    /\ id \in IF query = "na_get_cacheShare_cores" THEN machine.online ELSE machine.nodes
    /\ query = "na_get_cacheShare_cores" => na_get_shared_cacheLevel # -1
    /\ stack' = <<Frame(query, id)>>
    /\ UNCHANGED <<machine, HashCpuNode, answer, streams, alive>>

(* As many names as node 0 has processors are read; strtok() finds no more *)
(* in a smaller node, and atoi() crashes.                                  *)
CpusOfNode ==
    /\ Runs("na_get_cpusidnode") /\ ~ThroughSockets
    /\ LET tcpus == Cardinality(NodeCpus(0))
           names == ls(NodeCpus(Top.id))
       IN  IF Room(CacheStreams + 1) /\ Len(names) >= tcpus
           THEN Return(Ascending(ToSet(SubSeq(names, 1, tcpus))), CacheStreams)
           ELSE Crash

(* na_get_cpusidnode() asks na_get_socketsId_node(), which asks            *)
(* na_get_cpusidnode() about the same node.  What follows the first call,  *)
(* na_get_cpusidsocket() for each socket, is never reached.                *)
CpusAskSockets ==
    /\ Runs("na_get_cpusidnode") /\ ThroughSockets
    /\ IF Room(CacheStreams + 1) THEN Enter("na_get_socketsId_node", Top.id, CacheStreams)
       ELSE Crash

SocketsAskCpus ==
    /\ Runs("na_get_socketsId_node") /\ Top.cpus = <<>>
    /\ Enter("na_get_cpusidnode", Top.id, 0)

(* A socket that is not among the first SOCKETSNODE is appended.           *)
AddSocket(found, socket) ==
    IF \E j \in 1 .. SOCKETSNODE : j <= Len(found) /\ found[j] = socket
    THEN found ELSE Append(found, socket)

(* The loop over the processors.                                           *)
SocketsOf(cpus) ==
    LET found[k \in 0 .. Len(cpus)] ==
            IF k = 0 THEN <<>> ELSE AddSocket(found[k - 1], na_get_socket_cpu(cpus[k]))
    IN  found[Len(cpus)]

(* An entry beyond the array is written into the heap, which may be noticed*)
(* or not; the caller reads SOCKETSNODE entries.                           *)
SocketsOfNode ==
    /\ Runs("na_get_socketsId_node") /\ Top.cpus # <<>>
    /\ LET found == SocketsOf(SubSeq(Top.cpus, 1, CPUSNODE))
           ids   == [j \in 1 .. SOCKETSNODE |-> IF j <= Len(found) THEN found[j] ELSE -1]
       IN  \/ Room(1) /\ Return(ids, 0)
           \/ (~Room(1) \/ Len(found) > SOCKETSNODE) /\ Crash

Garbage == -2  \* the id in memory that nothing was written to

(* MUTANT: k is not advanced.                                              *)
SiblingsOver(core, list) ==
    [i \in 1 .. na_get_cache_cores - 1 |->
        IF list[i + 1] # core THEN list[i + 1] ELSE IF i = 1 THEN list[1] ELSE Garbage]

(* The first id is kept unless it is the processor itself; of the others   *)
(* the processor's own leaves its place unwritten.                         *)
Siblings(core, list) ==
    LET k == IF list[1] # core THEN 1 ELSE 0 IN
    [i \in 1 .. na_get_cache_cores - 1 |->
        IF i <= k THEN list[1]
        ELSE IF list[i + 1 - k] # core THEN list[i + 1 - k] ELSE Garbage]

(* strtok() must find as many ids as in the list of processor 0.           *)
SiblingsOfCore ==
    /\ Runs("na_get_cacheShare_cores")
    /\ LET core == Top.id
           list == shared_cpu_list(na_get_shared_cacheLevel, core)
           read == na_get_cache_cores - (IF list[1] # core THEN 1 ELSE 0)
       IN  IF Room(CacheStreams + 1) /\ Len(list) >= read
           THEN Return(Siblings(core, list), CacheStreams)
           ELSE Crash

Init ==
    /\ machine \in Machines
    /\ HashCpuNode = <<>> /\ stack = <<>> /\ streams = 0 /\ alive = TRUE
    /\ answer = [query |-> "none", id |-> 0, ids |-> <<>>]

Next ==
    \/ na_init \/ CpusOfNode \/ CpusAskSockets \/ SocketsAskCpus \/ SocketsOfNode
    \/ SiblingsOfCore
    \/ \E query \in Queries, id \in machine.nodes \cup machine.online : Ask(query, id)

Spec == Init /\ [][Next]_vars
=============================================================================
