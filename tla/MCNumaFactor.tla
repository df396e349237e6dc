---------------------------- MODULE MCNumaFactor ----------------------------
(* The pipeline on two or three nodes, and what its matrices must contain. *)
EXTENDS NumaFactor

(* The position of a pair in a matrix, and what belongs there.             *)
Cell(p) == p[1] * N + p[2] + 1
Own(t, p) == Time(t, p[1], p[2])
OwnFactor(t, p) == [num |-> Own(t, p), div |-> Own(t, <<p[1], p[1]>>)]

(* No run of tool t for a pair up to p failed.                             *)
Undisturbed(t, p) == ~leftover /\ \A f \in failed : f[1] = t => Cell(<<f[2], f[3]>>) > Cell(p)

Holds(matrix, p, value) == Cell(p) \in DOMAIN matrix /\ matrix[Cell(p)] = value

(* The scripts address a file by counting lines, three times over: in the  *)
(* loops that write it, in the table, and in paste.  Up to the first run   *)
(* that fails, each cell of each matrix is the measurement of its own pair *)
(* in this attempt (calc_numafactor.sh:31-38, 62-82, 148-203).             *)
MatricesRight ==
    pc = "done" => \A p \in Pairs :
        /\ Undisturbed("stream", p) => Holds(bandwidth, p, Own("stream", p))
        /\ Undisturbed("lat_mem_rd", p) => Holds(latency_lmbench, p, Own("lat_mem_rd", p))

(* Likewise for the factors, which also need the row's local value         *)
(* (calc_numafactor.sh:86-97, 179-194).                                    *)
FactorsRight ==
    pc = "done" => \A p \in Pairs :
        LET Sound(t) == Undisturbed(t, p) /\ Undisturbed(t, <<p[1], p[1]>>) IN
        /\ Sound("stream") => Holds(numafactor_stream, p, OwnFactor("stream", p))
        /\ Sound("lat_mem_rd") => Holds(numafactor_lmbench, p, OwnFactor("lat_mem_rd", p))

R == INSTANCE MatrixReaders WITH
         MAXNODES <- N, Blank <- Word("blank"), Initial <- Word("unset")

(* What the library reads back is what the scripts measured: its functions *)
(* count words from one and over blank cells, those that fill a matrix     *)
(* from zero, and both find, for every pair that no failure precedes, the  *)
(* pair's own value (archTopology.c:714-721, 742-754, 800-807, 836-843).   *)
ReadersRight ==
    pc = "done" => \A p \in Pairs :
        /\ Undisturbed("lat_mem_rd", p) =>
              /\ R!na_latency(latency_lmbench, p[1] + 1, p[2] + 1) = Own("lat_mem_rd", p)
              /\ R!na_fill_latency_matrix(latency_lmbench)[p] = Own("lat_mem_rd", p)
        /\ Undisturbed("stream", p) =>
              R!na_bandwidth(bandwidth, p[1] + 1, p[2] + 1) = Own("stream", p)
        /\ (/\ Undisturbed("lat_mem_rd", p)
            /\ Undisturbed("lat_mem_rd", <<p[1], p[1]>>)) =>
              R!na_numafactor(numafactor_lmbench, p[1] + 1, p[2] + 1)
                  = OwnFactor("lat_mem_rd", p)

(* The bandwidth matrix is never a mixture of attempts, however often the  *)
(* script was interrupted and whatever failed (calc_numafactor.sh:12-13).  *)
FreshBandwidth == \A k \in DOMAIN bandwidth : bandwidth[k].run = attempt

(* A failed STREAM leaves no line, so a bandwidth matrix that has all its  *)
(* cells is right, whatever failed and whatever was left behind.  Nothing  *)
(* of the kind holds of the latencies, whose failures leave other lines    *)
(* (calc_numafactor.sh:36, 48-49, 68, 156).                                *)
CompleteIsRight ==
    Len(bandwidth) = N * N => \A p \in Pairs : Holds(bandwidth, p, Own("stream", p))

(* calc_numafactor.sh:196: the NUMA factor is calculated using lmbench3    *)
(* (latency), and not from what STREAM left in the variables.              *)
LmbenchOnly ==
    pc = "done" /\ ~leftover => \A k \in DOMAIN latency_lmbench :
        LET v == latency_lmbench[k] IN "tool" \in DOMAIN v => v.tool = "lat_mem_rd"
=============================================================================
