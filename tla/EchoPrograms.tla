---------------------------- MODULE EchoPrograms ----------------------------
(***************************************************************************)
(* lat_pipe, lat_fifo, lat_unix and lat_sem: initialize() forks a helper     *)
(* that sends back every message, one iteration of the benchmark is one      *)
(* exchange with it, cleanup() gets rid of it.  chan.to counts the messages   *)
(* on their way to the helper, chan.from those on their way back; for the    *)
(* semaphores, the values of semaphore 0 and of semaphore 1.                 *)
(***************************************************************************)
EXTENDS BenchChild

EchoNames == {"lat_pipe", "lat_fifo", "lat_unix", "lat_sem"}

EchoInit ==
  /\ program \in EchoNames
  /\ pc = [p \in {"bench", "helper"} |-> IF p = "bench" THEN "main" ELSE "none"]
  /\ mem = ChildInit
  /\ chan = [to |-> 0, from |-> 0, opened |-> {}, exists |-> FALSE]

PipeMain == Call("lat_pipe", ChildInit)
FifoMain == Call("lat_fifo", ChildInit)
UnixMain == Call("lat_unix", ChildInit)
SemMain == Call("lat_sem", ChildInit)

(* fork(): the helper starts at label h and the benchmark goes on at label b, *)
(* or the fork fails, pid is -1 and initialize() returns.                     *)
Fork(h, b) ==
  \/ /\ pc' = [pc EXCEPT !["helper"] = h, !["bench"] = b]
     /\ mem' = [mem EXCEPT !.pid = "helper",
                  !.cookie = IF b = "cleanup" THEN "other" ELSE @]
  \/ /\ mem.faults > 0
     /\ pc' = [pc EXCEPT !["bench"] = AfterInitialize]
     /\ mem' = [mem EXCEPT !.pid = "failed", !.faults = @ - 1, !.cookie = Cookie]

(* The two ends of an exchange.  On the pipes and fifos each process holds     *)
(* only its own ends, so that the death of the peer is seen: SIGPIPE on a      *)
(* write, end of file on a read.  On the socket pair both hold both ends.      *)
OwnEnds == program \in {"lat_pipe", "lat_fifo"}
HelperLost == OwnEnds /\ mem.pid = "helper" /\ pc["helper"] \in Dead
BenchLost == OwnEnds /\ (pc["bench"] = "ended" \/ <<"bench", "both">> \notin chan.opened)

Send(label) ==
  IF HelperLost
  THEN pc' = BenchEnds(pc) /\ UNCHANGED chan
  ELSE /\ chan' = [chan EXCEPT !.to = @ + 1]
       /\ pc' = [pc EXCEPT !["bench"] = label]

Receive(label) ==
  \/ /\ chan.from > 0
     /\ chan' = [chan EXCEPT !.from = @ - 1]
     /\ pc' = [pc EXCEPT !["bench"] = label]
  \/ /\ chan.from = 0 /\ HelperLost
     /\ pc' = BenchEnds(pc) /\ UNCHANGED chan

(* MUTANT: the answer to the first message is left in the pipe.                *)
HandshakeUnread(p) ==
  /\ At(p, "bench", "shake") /\ Send(AfterInitialize)
  /\ mem' = [mem EXCEPT !.cookie = Cookie] /\ UNCHANGED program

(* "One time around to make sure both processes are started."                 *)
Handshake(p) ==
  \/ At(p, "bench", "shake") /\ Send("shaken") /\ UNCHANGED <<program, mem>>
  \/ /\ At(p, "bench", "shaken")
     /\ Receive(AfterInitialize)
     /\ mem' = [mem EXCEPT !.cookie = Cookie]
     /\ UNCHANGED program

PipeInitialize ==
  \/ /\ At("lat_pipe", "bench", "init")
     /\ Fork("read", "shake")
     /\ chan' = [chan EXCEPT !.opened = {"bench", "helper"} \X {"both"}]
     /\ UNCHANGED program
  \/ Handshake("lat_pipe")

FifoInitialize ==
  /\ At("lat_fifo", "bench", "init")
  /\ Fork("open1", "open1")
  /\ chan' = [chan EXCEPT !.exists = TRUE]
  /\ UNCHANGED program

(* open() of a fifo returns once both sides have called it: "f1" is written    *)
(* by the benchmark, "f2" by the helper.                                       *)
Open(process, label, fifo, next) ==
  /\ program = "lat_fifo" /\ pc[process] = label
  /\ LET called == chan.opened \cup {<<process, fifo>>} IN
     IF {<<p, fifo>> : p \in {"bench", "helper"}} \subseteq called
     THEN /\ chan' = [chan EXCEPT !.opened = called \cup {<<process, "both">>}]
          /\ pc' = [pc EXCEPT ![process] = next]
     ELSE chan' = [chan EXCEPT !.opened = called] /\ UNCHANGED pc
  /\ UNCHANGED <<program, mem>>

FifoOpen == \/ Open("bench", "open1", "f1", "open2")
            \/ Open("bench", "open2", "f2", "shake")
FifoHelperOpen == \/ Open("helper", "open1", "f1", "open2")
                  \/ Open("helper", "open2", "f2", "read")

UnixInitialize ==
  /\ At("lat_unix", "bench", "init")
  /\ Fork("read", AfterInitialize)
  /\ UNCHANGED <<program, chan>>

SemInitialize ==
  /\ At("lat_sem", "bench", "init")
  /\ Fork("post", AfterInitialize)
  /\ chan' = [chan EXCEPT !.exists = TRUE]
  /\ UNCHANGED program

(* The iterations of an interval: write one message, read the answer.         *)
Exchange(p) ==
  \/ /\ At(p, "bench", "run") /\ mem.left = 0
     /\ pc' = [pc EXCEPT !["bench"] = "interval"]
     /\ UNCHANGED <<program, mem, chan>>
  \/ /\ At(p, "bench", "run") /\ mem.left > 0
     /\ Send("reply")
     /\ mem' = [mem EXCEPT !.left = @ - 1]
     /\ UNCHANGED program
  \/ At(p, "bench", "reply") /\ Receive("run") /\ UNCHANGED <<program, mem>>

PipeDoit == Exchange("lat_pipe")

(* After a failed fork lat_fifo's descriptors were never set: write() fails,    *)
(* or the message goes to whatever the number stands for.                       *)
FifoDoit ==
  IF mem.pid = "failed" /\ mem.left > 0
  THEN /\ At("lat_fifo", "bench", "run")
       /\ pc' \in {BenchEnds(pc), [pc EXCEPT !["bench"] = "stuck"]}
       /\ UNCHANGED <<program, mem, chan>>
  ELSE Exchange("lat_fifo")

UnixBenchmark == Exchange("lat_unix")

(* One semop() takes semaphore 1 down and semaphore 0 up, or waits.            *)
SemDoit ==
  /\ At("lat_sem", "bench", "run")
  /\ IF mem.left = 0
     THEN pc' = [pc EXCEPT !["bench"] = "interval"] /\ UNCHANGED <<mem, chan>>
     ELSE /\ chan.from > 0
          /\ chan' = [chan EXCEPT !.from = @ - 1, !.to = @ + 1]
          /\ mem' = [mem EXCEPT !.left = @ - 1]
          /\ UNCHANGED pc
  /\ UNCHANGED program

(* The helpers.  writer() of lat_pipe and lat_fifo reports an error and tries   *)
(* again for ever when the benchmark is gone ("spin"); an answer that nobody    *)
(* can read kills it (SIGPIPE).                                                 *)
Echo(p) ==
  /\ UNCHANGED program
  /\ \/ /\ At(p, "helper", "read") /\ chan.to > 0
        /\ chan' = [chan EXCEPT !.to = @ - 1]
        /\ pc' = [pc EXCEPT !["helper"] = "write"] /\ UNCHANGED mem
     \/ /\ At(p, "helper", "read") /\ chan.to = 0 /\ BenchLost
        /\ pc' = [pc EXCEPT !["helper"] = "spin"] /\ UNCHANGED <<mem, chan>>
     \/ /\ At(p, "helper", "write")
        /\ IF BenchLost
           THEN pc' = ChildEnded("helper") /\ mem' = MemAfterChild /\ UNCHANGED chan
           ELSE /\ chan' = [chan EXCEPT !.from = @ + 1]
                /\ pc' = [pc EXCEPT !["helper"] = "read"] /\ UNCHANGED mem

PipeWriter == Echo("lat_pipe")
FifoWriter == Echo("lat_fifo")
UnixChild == Echo("lat_unix")

(* A semaphore set that was removed ends it.                                    *)
SemWriter ==
  /\ UNCHANGED <<program, mem>>
  /\ \/ /\ program = "lat_sem" /\ ~chan.exists /\ pc["helper"] \in {"post", "loop"}
        /\ pc' = ChildEnded("helper") /\ UNCHANGED chan
     \/ /\ At("lat_sem", "helper", "post") /\ chan.exists
        /\ chan' = [chan EXCEPT !.from = @ + 1]
        /\ pc' = [pc EXCEPT !["helper"] = "loop"]
     \/ /\ At("lat_sem", "helper", "loop") /\ chan.exists /\ chan.to > 0
        /\ chan' = [chan EXCEPT !.to = @ - 1, !.from = @ + 1]
        /\ UNCHANGED pc

(* kill(pid, SIGKILL); waitpid(pid): "if (pid)" also takes the -1 of a failed  *)
(* fork for a process, and kill(-1) is every process of the user.  Called with *)
(* the harness's state in the place of its own, cleanup() finds in the place of *)
(* pid whatever that holds (a stranger, or nobody): the helper is left alone.   *)
KillAndWait ==
  IF mem.cookie = "own"
  THEN /\ mem' = [mem EXCEPT !.pid = "none", !.killed = @ \cup ({mem.pid} \ {"none"})]
       /\ pc' = BenchEnds([pc EXCEPT !["helper"] =
                             IF mem.pid = "helper" THEN "zombie" ELSE @])
  ELSE /\ \E target \in {{}, {"stranger"}} : mem' = [mem EXCEPT !.killed = @ \cup target]
       /\ pc' = BenchEnds(pc)

PipeCleanup == /\ At("lat_pipe", "bench", "cleanup")
               /\ KillAndWait /\ UNCHANGED <<program, chan>>

UnixCleanup == /\ At("lat_unix", "bench", "cleanup")
               /\ KillAndWait /\ UNCHANGED <<program, chan>>

SemCleanup ==
  /\ At("lat_sem", "bench", "cleanup") /\ KillAndWait
  /\ \E left \in IF mem.cookie = "own" THEN {FALSE} ELSE BOOLEAN :
       chan' = [chan EXCEPT !.exists = left]
  /\ UNCHANGED program

(* lat_fifo sends SIGTERM, for which the helper has the flag-only handler       *)
(* benchmp_sigterm() it inherited: unless it is dead already, waitpid() waits   *)
(* for ever ("waiting").                                                        *)
FifoCleanup ==
  \/ /\ At("lat_fifo", "bench", "cleanup") /\ mem.cookie = "own"
     /\ chan' = [chan EXCEPT !.exists = FALSE, !.opened = @ \ {<<"bench", "both">>}]
     /\ mem' = [mem EXCEPT !.killed = @ \cup ({mem.pid} \cap {"helper"})]
     /\ pc' = IF mem.pid = "helper" THEN [pc EXCEPT !["bench"] = "waiting"]
              ELSE BenchEnds(pc)
     /\ UNCHANGED program
  \/ /\ At("lat_fifo", "bench", "waiting") /\ pc["helper"] \in Dead
     /\ pc' = BenchEnds(pc) /\ UNCHANGED <<program, mem, chan>>
  \/ (* benchmp() sends SIGTERM when its alarm goes off (255-259)              *)
     /\ At("lat_fifo", "bench", "waiting") /\ mem.cookie = "own" /\ mem.first
     /\ mem' = [mem EXCEPT !.cookie = "other", !.sigchld = "default"]
     /\ pc' = [pc EXCEPT !["bench"] = "cleanup"] /\ UNCHANGED <<program, chan>>
  \/ /\ At("lat_fifo", "bench", "cleanup") /\ mem.cookie = "other"
     /\ pc' = BenchEnds(pc) /\ UNCHANGED <<program, mem, chan>>

EchoBench ==
  \/ PipeMain \/ FifoMain \/ UnixMain \/ SemMain
  \/ PipeInitialize \/ FifoInitialize \/ FifoOpen \/ Handshake("lat_fifo")
  \/ UnixInitialize \/ SemInitialize
  \/ PipeDoit \/ FifoDoit \/ UnixBenchmark \/ SemDoit
  \/ PipeCleanup \/ FifoCleanup \/ UnixCleanup \/ SemCleanup
  \/ Interval

EchoHelper == PipeWriter \/ FifoWriter \/ FifoHelperOpen \/ UnixChild \/ SemWriter

EchoNext ==
  /\ program \in EchoNames
  /\ EchoBench \/ EchoHelper \/ Sigterm \/ KillHelper("helper")

(* An interval ends with no message on its way and the helper where it began: what    *)
(* is timed is whole exchanges, none of the one before or the one after.  lat_sem's    *)
(* two semaphores hold one unit between them, or none before the helper's first.       *)
WholeRoundTrips ==
  program \in EchoNames /\ pc["bench"] = "interval" =>
    IF program = "lat_sem"
    THEN chan.to + chan.from = (IF mem.pid = "helper" /\ pc["helper"] # "post" THEN 1 ELSE 0)
    ELSE chan.to = 0 /\ chan.from = 0 /\ pc["helper"] # "write"
=============================================================================
