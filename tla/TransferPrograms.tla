-------------------------- MODULE TransferPrograms --------------------------
(***************************************************************************)
(* bw_pipe and bw_unix: the helper writes, the benchmark reads bytes bytes   *)
(* in pieces of at most xfer.  bw_pipe's helper writes for ever; bw_unix's    *)
(* writes what the benchmark asks for on a control pipe, once per iteration.  *)
(***************************************************************************)
EXTENDS BenchChild

TransferNames == {"bw_pipe", "bw_unix"}

(* todo, done, piece: what the helper was asked for, has written and still      *)
(* writes of the present write(); its todo is not initialised (113), so that    *)
(* any number may stand there.                                                  *)
TransferInit ==
  /\ program \in TransferNames
  /\ pc = [p \in {"bench", "helper"} |-> IF p = "bench" THEN "main" ELSE "none"]
  /\ mem = ChildInit
  /\ chan = [data |-> 0, control |-> 0, todo |-> 0, done |-> 0, piece |-> 0]

(* "round up total byte count to a multiple of xfer": both programs add          *)
(* bytes - bytes % xfer, which leaves the remainder what it was.                 *)
RoundPipe(bytes, xfer) ==
  IF bytes < xfer THEN xfer
  ELSE IF bytes % xfer # 0 THEN bytes + (bytes - (bytes % xfer)) ELSE bytes

RoundUnix(bytes, xfer) ==
  IF bytes % xfer # 0 THEN bytes + (bytes - (bytes % xfer)) ELSE bytes

Memory(xfer, bytes) == With(ChildInit, [xfer |-> xfer, bytes |-> bytes, read |-> 0])

BwPipeMain ==
  \E xfer \in 1..2, bytes \in 1..3 : Call("bw_pipe", Memory(xfer, RoundPipe(bytes, xfer)))

BwUnixMain ==
  \E xfer \in 1..2, bytes \in 1..3 : Call("bw_unix", Memory(xfer, RoundUnix(bytes, xfer)))

(* initialize(): nobody looks at initerr, so that after a failed fork the        *)
(* benchmark reads a descriptor that was never set.                              *)
Start(p, label) ==
  /\ At(p, "bench", "init")
  /\ \/ /\ pc' = [pc EXCEPT !["helper"] = label, !["bench"] = AfterInitialize]
        /\ mem' = [mem EXCEPT !.pid = "helper", !.cookie = Cookie]
        /\ \E garbage \in 0..1 : chan' = [chan EXCEPT !.todo = garbage]
     \/ /\ mem.faults > 0
        /\ pc' = [pc EXCEPT !["bench"] = AfterInitialize]
        /\ mem' = [mem EXCEPT !.pid = "failed", !.faults = @ - 1, !.cookie = Cookie]
        /\ UNCHANGED chan
  /\ UNCHANGED program

BwPipeInitialize == Start("bw_pipe", "write")
BwUnixInitialize == Start("bw_unix", "ask")

BenchAt(label) == [pc EXCEPT !["bench"] = label]
HelperDead == pc["helper"] \in Dead
BenchGone == pc["bench"] = "ended"

(* An iteration ends once at least bytes bytes came.                             *)
Take(n) ==
  /\ chan' = [chan EXCEPT !.data = @ - n]
  /\ IF mem.read + n >= mem.bytes
     THEN mem' = [mem EXCEPT !.read = 0, !.left = @ - 1] /\ pc' = BenchAt("run")
     ELSE mem' = [mem EXCEPT !.read = @ + n] /\ UNCHANGED pc

Smaller(a, b) == IF a < b THEN a ELSE b

(* bw_pipe reads with no question asked.  At end of file read() returns 0,       *)
(* which is no error: the loop goes on for ever ("spin").                        *)
BwPipeReader ==
  /\ At("bw_pipe", "bench", "run") /\ UNCHANGED program
  /\ IF mem.left = 0 THEN pc' = BenchAt("interval") /\ UNCHANGED <<mem, chan>>
     ELSE \/ \E n \in 1..Smaller(chan.data, mem.xfer) : Take(n)
          \/ /\ chan.data = 0 /\ HelperDead
             /\ pc' = BenchAt("spin") /\ UNCHANGED <<mem, chan>>
          \/ /\ mem.pid = "failed"
             /\ pc' \in {BenchEnds(pc), BenchAt("spin")} /\ UNCHANGED <<mem, chan>>

(* bw_unix asks, then reads; end of file ends it, a control pipe nobody reads    *)
(* kills it.                                                                     *)
BwUnixReader ==
  /\ program = "bw_unix" /\ UNCHANGED program
  /\ \/ /\ pc["bench"] = "run" /\ mem.left = 0
        /\ pc' = BenchAt("interval") /\ UNCHANGED <<mem, chan>>
     \/ /\ pc["bench"] = "run" /\ mem.left > 0
        /\ IF HelperDead THEN pc' = BenchEnds(pc) /\ UNCHANGED chan
           ELSE /\ chan' = [chan EXCEPT !.control = @ + 1]
                /\ pc' = BenchAt("read")
        /\ UNCHANGED mem
     \/ /\ pc["bench"] = "read"
        /\ \/ \E n \in 1..Smaller(chan.data, mem.xfer) : Take(n)
           \/ /\ chan.data = 0 /\ HelperDead
              /\ pc' = BenchEnds(pc) /\ UNCHANGED <<mem, chan>>

HelperDies == /\ pc' = ChildEnded("helper") /\ mem' = MemAfterChild
              /\ UNCHANGED <<program, chan>>

(* The helpers: a write() with no reader left is SIGPIPE.                        *)
BwPipeWriter ==
  /\ At("bw_pipe", "helper", "write")
  /\ IF BenchGone THEN HelperDies
     ELSE /\ chan.data < Capacity
          /\ chan' = [chan EXCEPT !.data = @ + 1]
          /\ UNCHANGED <<program, pc, mem>>

Asked(n) == IF n > 0 THEN "write" ELSE "ask"

(* bw_unix's helper writes whole pieces of xfer until it has written todo.  It   *)
(* does not look at what read() of the control pipe returns: at end of file it   *)
(* goes on with the todo it has.                                                 *)
BwUnixWriter ==
  \/ /\ At("bw_unix", "helper", "ask") /\ chan.control > 0
     /\ chan' = [chan EXCEPT !.control = @ - 1, !.todo = mem.bytes, !.done = 0,
                             !.piece = mem.xfer]
     /\ pc' = [pc EXCEPT !["helper"] = Asked(mem.bytes)]
     /\ UNCHANGED <<program, mem>>
  \/ /\ At("bw_unix", "helper", "ask") /\ chan.control = 0 /\ BenchGone
     /\ pc' = [pc EXCEPT !["helper"] = Asked(chan.todo)]
     /\ UNCHANGED <<program, mem, chan>>
  \/ /\ At("bw_unix", "helper", "write")
     /\ IF BenchGone THEN HelperDies
        ELSE /\ chan.data < Capacity
             /\ IF chan.piece > 1
                THEN /\ chan' = [chan EXCEPT !.data = @ + 1, !.piece = @ - 1]
                     /\ UNCHANGED pc
                ELSE /\ chan' = [chan EXCEPT !.data = @ + 1, !.piece = mem.xfer,
                                             !.done = @ + mem.xfer]
                     /\ pc' = [pc EXCEPT !["helper"] =
                                 IF chan.done + mem.xfer < chan.todo THEN "write" ELSE "ask"]
             /\ UNCHANGED <<program, mem>>

(* cleanup(): only a pid > 0 is killed.  With the harness's state in the place   *)
(* of its own it closes other descriptors and kills a stranger or nobody.        *)
KillHelperOnly ==
  /\ IF mem.cookie = "own"
     THEN /\ mem' = [mem EXCEPT !.pid = "none",
                       !.killed = @ \cup ({mem.pid} \cap {"helper"})]
          /\ pc' = BenchEnds([pc EXCEPT !["helper"] =
                                IF mem.pid = "helper" THEN "zombie" ELSE @])
     ELSE /\ \E target \in {{}, {"stranger"}} :
               mem' = [mem EXCEPT !.killed = @ \cup target]
          /\ pc' = BenchEnds(pc)
  /\ UNCHANGED <<program, chan>>

BwPipeCleanup == At("bw_pipe", "bench", "cleanup") /\ KillHelperOnly
BwUnixCleanup == At("bw_unix", "bench", "cleanup") /\ KillHelperOnly

TransferBench ==
  \/ BwPipeMain \/ BwUnixMain \/ BwPipeInitialize \/ BwUnixInitialize
  \/ BwPipeReader \/ BwUnixReader \/ BwPipeCleanup \/ BwUnixCleanup
  \/ Interval

TransferHelper == BwPipeWriter \/ BwUnixWriter

TransferNext ==
  /\ program \in TransferNames
  /\ TransferBench \/ TransferHelper \/ Sigterm \/ KillHelper("helper")

(* When the byte count is a multiple of the piece, an interval of bw_unix ends    *)
(* with nothing left over: no byte, no question, and the helper waits.  What the   *)
(* next interval reads was written for it.                                         *)
TransfersSeparate ==
  program = "bw_unix" /\ pc["bench"] = "interval" /\ mem.pid = "helper"
    /\ mem.bytes % mem.xfer = 0
  => chan.data = 0 /\ chan.control = 0 /\ pc["helper"] \in {"ask"} \cup Dead

(* bw_pipe.c:173, bw_unix.c:174: "round up total byte count to a multiple of xfer".              *)
WholePieces ==
  program \in TransferNames /\ pc["bench"] = "interval" => mem.bytes % mem.xfer = 0
=============================================================================
