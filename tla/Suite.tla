-------------------------------- MODULE Suite --------------------------------
(***************************************************************************)
(* The programs of the suite: one of them runs, alone but for its own helpers,  *)
(* servers and clients, as scripts/lmbench runs them.                           *)
(***************************************************************************)
EXTENDS EchoPrograms, TransferPrograms, TokenRing, ForkPrograms, ForkingServers,
        SequentialServers, DatagramServers, MemoryPrograms, LockPrograms, Copier

BenchNames == EchoNames \cup TransferNames \cup {"lat_ctx"} \cup ForkNames
                \cup MemoryNames \cup LockNames \cup {"lmdd"}
ServerNames == ForkingNames \cup SequentialNames \cup DatagramNames

Init ==
  \/ EchoInit \/ TransferInit \/ RingInit \/ ForkInit
  \/ ForkingInit \/ SequentialInit \/ DatagramInit
  \/ MemoryInit \/ LockInit \/ LmddInit

Next ==
  \/ EchoNext \/ TransferNext \/ RingNext \/ ForkNext
  \/ ForkingNext \/ SequentialNext \/ DatagramNext
  \/ MemoryNext \/ LockNext \/ LmddNext

(* The operating system runs every process that can run.  Signals, deaths,     *)
(* failing forks and lost datagrams are never due.  Nothing is said of the      *)
(* programs of MemoryPrograms, which have one process and wait for nobody.       *)
Fairness ==
  /\ WF_childvars(program \in EchoNames /\ EchoBench) /\ WF_childvars(program \in EchoNames /\ EchoHelper)
  /\ WF_childvars(program \in TransferNames /\ TransferBench)
  /\ WF_childvars(program \in TransferNames /\ TransferHelper)
  /\ WF_childvars(program = "lat_ctx" /\ RingBench)
  /\ \A i \in 1..(MaxProcs - 1) : WF_childvars(program = "lat_ctx" /\ RingDaemon(i))
  /\ WF_childvars(program \in ForkNames /\ ForkBench) /\ WF_childvars(program \in ForkNames /\ ForkChild)
  /\ WF_childvars(program \in ForkingNames /\ (LatTcpMain \/ BwTcpMain))
  /\ \A c \in Users : WF_childvars(program \in ForkingNames /\ ForkingClient(c))
  /\ WF_childvars(program \in ForkingNames /\ ForkingServer)
  /\ \A i \in 1..3 : WF_childvars(program \in ForkingNames /\ ForkingHandler(i))
  /\ WF_childvars(sigchld_wait_handler)
  /\ WF_childvars(program \in SequentialNames /\ SequentialServer)
  /\ WF_childvars(program \in SequentialNames /\ SequentialClient)
  /\ WF_childvars(program \in DatagramNames /\ DatagramMain)
  /\ \A c \in Users : WF_childvars(program \in DatagramNames /\ DatagramClient(c))
  /\ WF_childvars(program \in DatagramNames /\ DatagramServer)
  /\ WF_childvars(program \in LockNames /\ LockBench)
  /\ WF_childvars(program \in LockNames /\ LockHelper)
  /\ WF_childvars(program \in LockNames /\ LockParent)
  /\ WF_childvars(program = "lmdd" /\ LmddBench) /\ WF_childvars(program = "lmdd" /\ LmddChild)

Spec == Init /\ [][Next]_childvars /\ Fairness

(* What is timed is whole exchanges: an interval of a program with a helper ends with      *)
(* nothing on its way that the next one would count, and with lat_fcntl's lock 2, which     *)
(* the first iteration gives up, in the hands of the benchmark.                              *)
IntervalsSeparate ==
  /\ WholeRoundTrips
  /\ TransfersSeparate
  /\ program = "lat_fcntl" /\ pc["bench"] = "interval" =>
       /\ chan.owner[2] = "bench"
       /\ mem.rounds = 0 <=> chan.owner[1] = "bench"

BenchOver == program \in BenchNames /\ pc["bench"] \in {"usage", "ended"}

(* Without a signal, a death or a failing fork every benchmark comes to its end:  *)
(* no exchange with a helper, round of the ring or wait for a child blocks for      *)
(* ever, and lat_fcntl's two processes never wait for each other's lock.  lat_fifo    *)
(* waits for a helper that ignores its SIGTERM; lmdd at random ends only with count=,    *)
(* and norepeat= may leave it no offset to draw.                                          *)
Endable ==
  program \in BenchNames \ ({"lat_fifo"} \cup MemoryNames)
    /\ (program = "lmdd" => mem.seek = "none" \/ (mem.gotcnt /\ ~mem.norepeat))
BenchmarksEnd == Endable ~> (BenchOver \/ ~Endable \/ mem.faults < MaxFaults)

Helper(p) == p \in DOMAIN pc /\ pc[p] \notin Dead \cup {"none"}
HelperRuns ==
  IF program = "lat_ctx" THEN \E i \in DOMAIN chan.daemon : Alive(i)
  ELSE Helper("helper") \/ \E p \in Jobs : Helper(p)

(* No process of a benchmark outlives it for ever, even where cleanup() was called   *)
(* with the harness's state and killed nobody: the helpers of bw_pipe, bw_unix and    *)
(* lat_ctx see the end of their pipes (bw_unix's once it was asked for something:       *)
(* before that it loops on the byte count that was never set, if that is 0).  Those of   *)
(* lat_pipe, lat_unix, lat_sem and lat_fcntl do not, nor does lat_fifo's.  lat_select's    *)
(* server, which never looks for its parent while it waits for a connection, stays when     *)
(* main() was killed.                                                                         *)
HelperMayStay ==
  \/ program = "lat_fifo"
  \/ program \in EchoNames \cup {"lat_fcntl"} /\ mem.cookie = "other"
  \/ program = "bw_unix" /\ chan.todo = 0

HelpersEnd ==
  (BenchOver /\ ~HelperMayStay)
    ~> (program \in BenchNames /\ ~HelperRuns) \/ (program = "lat_select" /\ mem.faults < MaxFaults)

(* What a -S run asked for happens: the server ends, once a connection or a datagram   *)
(* has carried the request.  lat_udp's four datagrams make up for three lost ones,      *)
(* lat_rpc's only one must not be lost; of lmhttp's two processes one ends; bw_udp's     *)
(* server knows no such request.                                                         *)
ServerAsked ==
  /\ program \in ServerNames /\ pc["stopper"] = "ended"
  /\ program \in ForkingNames \cup SequentialNames =>
       mem.sock["stopper"] # 0 /\ mem.faults = MaxFaults   \* forks that do not fail
  /\ program \in DatagramNames => chan.to["stopper"] # {}
  /\ program = "lat_rpc" => mem.lost = 0

ServerStops ==
  (ServerAsked /\ program # "bw_udp")
    ~> \/ program \in ServerNames /\ \E s \in DOMAIN pc \ Clients : pc[s] = "ended"
       \/ program \notin DatagramNames /\ mem.faults < MaxFaults
=============================================================================
