------------------------------ MODULE TokenRing ------------------------------
(***************************************************************************)
(* lat_ctx: procs pipes and procs - 1 daemons in a ring; daemon i reads pipe  *)
(* i - 1 and writes pipe i, the benchmark writes pipe 0 and reads pipe        *)
(* procs - 1.  main() first measures the pipes alone (overhead), in a call of  *)
(* benchmp() of its own, then the ring.                                        *)
(***************************************************************************)
EXTENDS BenchChild, FiniteSets

CONSTANT MaxProcs   \* bound: the largest ring

ASSUME RingAssumption == MaxProcs \in Nat \ {0}

(* The harness's part of the benchmark process and the program's own (_state):    *)
(* the number of processes, the call of benchmp() that runs, the next daemon.      *)
RingChild(n, phase) ==
  LET own == [procs |-> n, phase |-> phase, next |-> 1]
  IN [f \in DOMAIN ChildInit \cup DOMAIN own |->
        IF f \in DOMAIN own THEN own[f] ELSE ChildInit[f]]

(* chan.pipe[i]: messages in pipe i.  chan.daemon[i]: where daemon i stands.     *)
(* chan.open: whether the benchmark has the pipes open (all ends: it closes none *)
(* before cleanup()).                                                            *)
RingInit ==
  /\ program = "lat_ctx"
  /\ pc = [p \in {"bench"} |-> "main"]
  /\ mem = RingChild(1, "overhead")
  /\ chan = [pipe |-> <<>>, daemon |-> <<>>, open |-> FALSE]

Procs == mem.procs
Daemons == 1..(Procs - 1)

CtxMain ==
  \/ \E n \in 1..MaxProcs : Call("lat_ctx", RingChild(n, "overhead"))
  \/ (* the child of the first call has ended: benchmp() for the ring, if there *)
     (* is a result (main 104)                                                  *)
     /\ At("lat_ctx", "bench", "ended") /\ mem.phase = "overhead" /\ mem.rounds > 0
     /\ pc' = [pc EXCEPT !["bench"] = "init"]
     /\ mem' = [RingChild(Procs, "ring") EXCEPT !.faults = mem.faults, !.first = FALSE]
     /\ UNCHANGED <<program, chan>>

(* initialize_overhead() and create_pipes(): with too few pipes exit(1).          *)
CreatePipes ==
  /\ At("lat_ctx", "bench", "init")
  /\ \/ /\ chan' = [pipe |-> [i \in 0..(Procs - 1) |-> 0],
                    daemon |-> [i \in Daemons |-> "none"], open |-> TRUE]
        /\ pc' = [pc EXCEPT !["bench"] =
                    IF mem.phase = "overhead" THEN AfterInitialize ELSE "fork"]
        /\ mem' = [mem EXCEPT !.cookie = IF mem.phase = "overhead" THEN Cookie ELSE @]
     \/ /\ mem.faults > 0
        /\ mem' = [mem EXCEPT !.faults = @ - 1]
        /\ pc' = [pc EXCEPT !["bench"] = "ended"] /\ UNCHANGED chan
  /\ UNCHANGED program

(* MUTANT: initialize() puts a message into the ring, and create_daemons() too.   *)
CtxInitializeToken ==
  /\ At("lat_ctx", "bench", "fork") /\ mem.next = Procs
  /\ pc' = [pc EXCEPT !["bench"] = "shake"]
  /\ chan' = [chan EXCEPT !.pipe[0] = @ + 1] /\ UNCHANGED <<program, mem>>

CtxInitialize ==
  /\ At("lat_ctx", "bench", "fork") /\ mem.next = Procs
  /\ pc' = [pc EXCEPT !["bench"] = "shake"]
  /\ UNCHANGED <<program, mem, chan>>

(* create_daemons(): one fork after the other, then once around the ring.  A      *)
(* fork that fails ends in cleanup(0) and exit(1).                                *)
CreateDaemons ==
  \/ /\ At("lat_ctx", "bench", "fork") /\ mem.next < Procs
     /\ \/ /\ chan' = [chan EXCEPT !.daemon[mem.next] = "read"]
           /\ mem' = [mem EXCEPT !.next = @ + 1] /\ UNCHANGED pc
        \/ /\ mem.faults > 0
           /\ mem' = [mem EXCEPT !.faults = @ - 1, !.next = 1]
           /\ pc' = [pc EXCEPT !["bench"] = "cleanup"] /\ UNCHANGED chan
     /\ UNCHANGED program
  \/ /\ At("lat_ctx", "bench", "shake")
     /\ chan' = [chan EXCEPT !.pipe[0] = @ + 1]
     /\ pc' = [pc EXCEPT !["bench"] = "shaken"]
     /\ UNCHANGED <<program, mem>>
  \/ /\ At("lat_ctx", "bench", "shaken") /\ chan.pipe[Procs - 1] > 0
     /\ chan' = [chan EXCEPT !.pipe[Procs - 1] = @ - 1]
     /\ pc' = [pc EXCEPT !["bench"] = AfterInitialize]
     /\ mem' = [mem EXCEPT !.cookie = Cookie]
     /\ UNCHANGED program

(* MUTANT: a daemon leaves the write ends of all the pipes open.                   *)
KeptEndsAll(i) == {<<i - 1, "read">>} \cup {<<j, "write">> : j \in 0..(Procs - 1)}

(* Of each pipe a daemon keeps the end it uses (312-315).                         *)
KeptEnds(i) == {<<i - 1, "read">>, <<i, "write">>}

Alive(i) == chan.daemon[i] \in {"read", "write"}
Holders(j, end) == {i \in Daemons : Alive(i) /\ <<j, end>> \in KeptEnds(i)}
EndOfFile(j) == chan.pipe[j] = 0 /\ ~chan.open /\ Holders(j, "write") = {}
Broken(j) == ~chan.open /\ Holders(j, "read") = {}

(* A daemon has ended, in the way of BenchChild!ChildEnded.                       *)
DaemonEnds(i) ==
  /\ chan' = [chan EXCEPT !.daemon[i] = IF pc["bench"] = "ended" THEN "gone" ELSE "zombie"]
  /\ pc' = [pc EXCEPT !["bench"] = IF Notices THEN "cleanup" ELSE @]
  /\ mem' = MemAfterChild
  /\ UNCHANGED program

(* doit(): pass the message on for ever; exit(1) at end of file.                  *)
CtxDoit(i) ==
  /\ program = "lat_ctx"
  /\ \/ /\ chan.daemon[i] = "read" /\ chan.pipe[i - 1] > 0
        /\ chan' = [chan EXCEPT !.pipe[i - 1] = @ - 1, !.daemon[i] = "write"]
        /\ UNCHANGED <<program, pc, mem>>
     \/ chan.daemon[i] = "read" /\ EndOfFile(i - 1) /\ DaemonEnds(i)
     \/ /\ chan.daemon[i] = "write" /\ ~Broken(i)
        /\ chan' = [chan EXCEPT !.pipe[i] = @ + 1, !.daemon[i] = "read"]
        /\ UNCHANGED <<program, pc, mem>>
     \/ chan.daemon[i] = "write" /\ Broken(i) /\ DaemonEnds(i)

(* One iteration of the overhead: write and read a pipe, each in its turn.        *)
BenchmarkOverhead ==
  /\ At("lat_ctx", "bench", "run") /\ mem.phase = "overhead"
  /\ IF mem.left = 0
     THEN pc' = [pc EXCEPT !["bench"] = "interval"] /\ UNCHANGED mem
     ELSE mem' = [mem EXCEPT !.left = @ - 1] /\ UNCHANGED pc
  /\ UNCHANGED <<program, chan>>

(* One iteration of the ring: the message goes round once.  The benchmark holds    *)
(* both ends of every pipe, so that it never sees a daemon die.                    *)
CtxBenchmark ==
  /\ program = "lat_ctx" /\ mem.phase = "ring" /\ UNCHANGED program
  /\ \/ /\ pc["bench"] = "run" /\ mem.left = 0
        /\ pc' = [pc EXCEPT !["bench"] = "interval"] /\ UNCHANGED <<mem, chan>>
     \/ /\ pc["bench"] = "run" /\ mem.left > 0
        /\ chan' = [chan EXCEPT !.pipe[0] = @ + 1]
        /\ pc' = [pc EXCEPT !["bench"] = "reply"] /\ UNCHANGED mem
     \/ /\ pc["bench"] = "reply" /\ chan.pipe[Procs - 1] > 0
        /\ chan' = [chan EXCEPT !.pipe[Procs - 1] = @ - 1]
        /\ mem' = [mem EXCEPT !.left = @ - 1]
        /\ pc' = [pc EXCEPT !["bench"] = "run"]

(* cleanup_overhead(): close the pipes.                                            *)
CleanupOverhead ==
  /\ At("lat_ctx", "bench", "cleanup") /\ mem.cookie = "own"
  /\ chan' = [chan EXCEPT !.open = FALSE]
  /\ mem' = [mem EXCEPT !.next = 1]
  /\ pc' = [pc EXCEPT !["bench"] = IF mem.phase = "overhead" THEN "ended" ELSE "reap"]
  /\ UNCHANGED program

(* A benchmark that dies closes its pipes, and init waits for its children.        *)
AllClosed(d) ==
  [chan EXCEPT !.open = FALSE,
     !.daemon = [i \in Daemons |-> IF d[i] = "zombie" THEN "gone" ELSE d[i]]]

(* cleanup(): kill and wait for the daemons that were forked, one by one.           *)
CtxCleanup ==
  /\ At("lat_ctx", "bench", "reap")
  /\ IF mem.next = Procs
     THEN pc' = [pc EXCEPT !["bench"] = "ended"] /\ UNCHANGED <<mem, chan>>
     ELSE /\ chan' = [chan EXCEPT !.daemon[mem.next] = IF @ = "none" THEN @ ELSE "gone"]
          /\ mem' = [mem EXCEPT !.next = @ + 1] /\ UNCHANGED pc
  /\ UNCHANGED program

(* With the harness's state in the place of its own, procs and p are no such        *)
(* things: the first p[i] kills the benchmark (SIGSEGV).                             *)
CtxCleanupCrash ==
  /\ At("lat_ctx", "bench", "cleanup") /\ mem.cookie = "other"
  /\ chan' = AllClosed(chan.daemon)
  /\ pc' = [pc EXCEPT !["bench"] = "ended"]
  /\ UNCHANGED <<program, mem>>

KillDaemon(i) ==
  /\ program = "lat_ctx" /\ mem.faults > 0 /\ Alive(i)
  /\ chan' = [chan EXCEPT !.daemon[i] = IF pc["bench"] = "ended" THEN "gone" ELSE "zombie"]
  /\ pc' = [pc EXCEPT !["bench"] = IF Notices THEN "cleanup" ELSE @]
  /\ mem' = [MemAfterChild EXCEPT !.faults = @ - 1]
  /\ UNCHANGED program

RingBench ==
  \/ CtxMain \/ CreatePipes \/ CtxInitialize \/ CreateDaemons
  \/ BenchmarkOverhead \/ CtxBenchmark
  \/ CleanupOverhead \/ CtxCleanup \/ CtxCleanupCrash
  \/ Interval

RingDaemon(i) == i \in DOMAIN chan.daemon /\ CtxDoit(i)

RingNext ==
  /\ program = "lat_ctx"
  /\ \/ RingBench \/ Sigterm
     \/ \E i \in 1..(MaxProcs - 1) : RingDaemon(i)
     \/ \E i \in DOMAIN chan.daemon : KillDaemon(i)

(* There is one message in the ring while the benchmark waits for it and none       *)
(* otherwise: an iteration is one round of every process.                           *)
Carried == {i \in DOMAIN chan.daemon : chan.daemon[i] = "write"}
Filled == {j \in DOMAIN chan.pipe : chan.pipe[j] > 0}
OneToken ==
  program = "lat_ctx" /\ mem.phase = "ring" =>
    /\ \A j \in Filled : chan.pipe[j] = 1
    /\ Cardinality(Carried) + Cardinality(Filled) <=
         (IF pc["bench"] \in {"reply", "shaken"} \/ mem.cookie = "other"
             \/ pc["bench"] \in {"cleanup", "reap", "ended"} THEN 1 ELSE 0)
=============================================================================
