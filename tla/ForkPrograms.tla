---------------------------- MODULE ForkPrograms ----------------------------
(***************************************************************************)
(* lat_proc, lat_cmd, lat_pmake and lat_sig: the programs whose benchmark     *)
(* creates processes or raises signals itself.  They have no helper that      *)
(* lives from one interval to the next.                                       *)
(***************************************************************************)
EXTENDS BenchChild, Sequences

ForkNames == {"lat_proc", "lat_cmd", "lat_pmake", "lat_sig"}
Jobs == {"job1", "job2"}     \* bound: the jobs of lat_pmake
JobNames == <<"job1", "job2">>

(* kind: what lat_proc or lat_sig measures.  calls: the calls of benchmp()     *)
(* still to come after the present one.  started: the jobs forked in this      *)
(* iteration.  clones: the processes of lat_cmd that wait for the one that     *)
(* runs, with the iterations each has left.  caught, n: lat_sig's counters.    *)
ForkInit ==
  /\ program \in ForkNames
  /\ pc = [p \in {"bench", "helper"} \cup Jobs |-> IF p = "bench" THEN "main" ELSE "none"]
  /\ mem = With(ChildInit, [kind |-> "none", stage |-> "none"])
  /\ chan = <<>>

Running(p, kind) == At(p, "bench", "run") /\ mem.kind = kind
BenchTo(label) == [pc EXCEPT !["bench"] = label]
IntervalDone == pc' = BenchTo("interval") /\ UNCHANGED <<mem, chan>>

LatProcMain ==
  \E kind \in {"procedure", "fork", "exec", "shell"} :
    Call("lat_proc", With(ChildInit, [kind |-> kind]))

(* benchmp_child() without an initialize routine.                              *)
NoInitialize ==
  /\ program \in {"lat_proc", "lat_cmd"} /\ pc["bench"] = "init"
  /\ pc' = BenchTo(AfterInitialize)
  /\ mem' = [mem EXCEPT !.cookie = Cookie]
  /\ UNCHANGED <<program, chan>>

(* One iteration: fork, store the pid, wait, clear the pid; SIGTERM may come    *)
(* between any two of these.  A fork that fails leaves -1 in child_pid.         *)
ForkAndWait(kind) ==
  /\ program = "lat_proc" /\ mem.kind = kind /\ UNCHANGED <<program, chan>>
  /\ \/ pc["bench"] = "run" /\ mem.left = 0 /\ pc' = BenchTo("interval") /\ UNCHANGED mem
     \/ /\ pc["bench"] = "run" /\ mem.left > 0
        /\ pc' = [BenchTo("forked") EXCEPT !["helper"] = "child"]
        /\ mem' = [mem EXCEPT !.sigchld = "default"]
     \/ /\ pc["bench"] = "run" /\ mem.left > 0 /\ mem.faults > 0
        /\ pc' = BenchTo("failed")
        /\ mem' = [mem EXCEPT !.pid = "failed", !.faults = @ - 1, !.sigchld = "default"]
     \/ pc["bench"] = "failed" /\ pc' = BenchEnds(pc) /\ UNCHANGED mem
     \/ /\ pc["bench"] = "forked"
        /\ mem' = [mem EXCEPT !.pid = "helper"] /\ pc' = BenchTo("wait")
     \/ /\ pc["bench"] = "wait" /\ pc["helper"] = "zombie"
        /\ pc' = [BenchTo("waited") EXCEPT !["helper"] = "gone"] /\ UNCHANGED mem
     \/ /\ pc["bench"] = "waited"
        /\ mem' = [mem EXCEPT !.pid = "none", !.left = @ - 1] /\ pc' = BenchTo("run")

DoShell == ForkAndWait("shell")
DoForkexec == ForkAndWait("exec")
DoFork == ForkAndWait("fork")
DoProcedure == Running("lat_proc", "procedure") /\ IntervalDone /\ UNCHANGED program

(* The child exits, or runs the command and exits.                              *)
ProcChild ==
  /\ At("lat_proc", "helper", "child")
  /\ pc' = ChildEnded("helper") /\ mem' = MemAfterChild
  /\ UNCHANGED <<program, chan>>

(* cleanup() looks at the global child_pid, whatever cookie it gets: kill and    *)
(* wait.  "stale" stands for a pid that was waited for already, "failed" for -1. *)
ProcCleanup ==
  /\ At("lat_proc", "bench", "cleanup")
  /\ LET target == IF mem.pid = "helper" /\ pc["helper"] = "gone" THEN "stale" ELSE mem.pid IN
       mem' = [mem EXCEPT !.pid = "none", !.killed = @ \cup ({target} \ {"none"})]
  /\ pc' = BenchEnds([pc EXCEPT !["helper"] = IF mem.pid = "helper" THEN "gone" ELSE @])
  /\ UNCHANGED <<program, chan>>

LatCmdMain == Call("lat_cmd", With(ChildInit, [clones |-> <<>>, delivered |-> FALSE]))

(* "case '0'" is no case of the value 0: the command is never executed.  The     *)
(* child goes on with the loop where its parent waits for it, so that every      *)
(* iteration leaves a waiting process behind.  A fork that fails is passed over. *)
CmdBench ==
  /\ program = "lat_cmd" /\ UNCHANGED <<program, chan>>
  /\ \/ pc["bench"] = "run" /\ mem.left = 0 /\ ~mem.delivered
        /\ pc' = BenchTo("interval") /\ UNCHANGED mem
     \/ /\ pc["bench"] = "run" /\ mem.left > 0
        /\ mem' = [mem EXCEPT !.left = @ - 1, !.clones = Append(@, mem.left - 1),
                              !.sigchld = "default"]
        /\ UNCHANGED pc
     \/ /\ pc["bench"] = "run" /\ mem.left > 0 /\ mem.faults > 0
        /\ mem' = [mem EXCEPT !.left = @ - 1, !.faults = @ - 1]
        /\ UNCHANGED pc

(* There is no cleanup (main passes NULL): the process exits, and the one that   *)
(* waits for it goes on with its own iterations; nobody reads its results any     *)
(* more, and it dies of SIGPIPE at the end.                                       *)
CmdEnds ==
  /\ program = "lat_cmd" /\ UNCHANGED <<program, chan>>
  /\ \/ pc["bench"] = "cleanup"
     \/ pc["bench"] = "run" /\ mem.left = 0 /\ mem.delivered
  /\ IF mem.clones = <<>> THEN pc' = BenchEnds(pc) /\ UNCHANGED mem
     ELSE /\ pc' = BenchTo("run")
          /\ mem' = [mem EXCEPT !.delivered = TRUE, !.left = mem.clones[Len(mem.clones)],
                       !.clones = SubSeq(@, 1, Len(@) - 1)]

(* SIGTERM goes to the process benchmp() forked, the oldest of those that wait.   *)
CmdSigterm ==
  IF program = "lat_cmd" /\ pc["bench"] = "run" /\ mem.clones # <<>>
  THEN /\ mem.faults > 0 /\ mem.first
       /\ mem' = [mem EXCEPT !.clones = Tail(@), !.faults = @ - 1]
       /\ UNCHANGED <<program, pc, chan>>
  ELSE Sigterm

PmakeMain ==
  \/ \E jobs \in 1..2 : Call("lat_pmake",
       With(ChildInit, [kind |-> "work", jobs |-> jobs, next |-> 1, started |-> {}]))
  \/ /\ At("lat_pmake", "bench", "ended") /\ mem.kind = "work" /\ mem.rounds > 0
     /\ pc' = BenchTo("init")
     /\ mem' = With([ChildInit EXCEPT !.faults = mem.faults, !.first = FALSE],
                    [kind |-> "bench", jobs |-> mem.jobs, next |-> 1, started |-> {}])
     /\ UNCHANGED <<program, chan>>

PmakeSetup ==
  /\ At("lat_pmake", "bench", "init")
  /\ pc' = BenchTo(AfterInitialize)
  /\ mem' = [mem EXCEPT !.cookie = Cookie]
  /\ UNCHANGED <<program, chan>>

PmakeWork == Running("lat_pmake", "work") /\ IntervalDone /\ UNCHANGED program

(* One iteration forks the jobs, then waits for each.  No cleanup routine is      *)
(* passed, so that nothing resets SIGCHLD: the end of the first job runs           *)
(* benchmp_child_sigchld() (ChildEnded), which exits.  waitpid() returns only      *)
(* when no job could be forked; status was never set then.                         *)
PmakeBench ==
  /\ program = "lat_pmake" /\ mem.kind = "bench" /\ UNCHANGED <<program, chan>>
  /\ \/ pc["bench"] = "run" /\ mem.left = 0 /\ pc' = BenchTo("interval") /\ UNCHANGED mem
     \/ /\ pc["bench"] = "run" /\ mem.left > 0 /\ mem.next <= mem.jobs
        /\ \/ /\ pc' = [pc EXCEPT ![JobNames[mem.next]] = "work"]
              /\ mem' = [mem EXCEPT !.next = @ + 1, !.started = @ \cup {JobNames[mem.next]}]
           \/ /\ mem.faults > 0
              /\ mem' = [mem EXCEPT !.next = @ + 1, !.faults = @ - 1] /\ UNCHANGED pc
     \/ /\ pc["bench"] = "run" /\ mem.left > 0 /\ mem.next > mem.jobs /\ mem.started = {}
        /\ \/ mem' = [mem EXCEPT !.left = @ - 1, !.next = 1] /\ UNCHANGED pc
           \/ pc' = BenchEnds(pc) /\ UNCHANGED mem

PmakeJob(p) ==
  /\ At("lat_pmake", p, "work")
  /\ pc' = ChildEnded(p) /\ mem' = MemAfterChild
  /\ UNCHANGED <<program, chan>>

(* benchmp_child_sigchld() or _sigterm() with no cleanup routine, or the exit at   *)
(* the end: the jobs that run are left alone.                                      *)
PmakeEnds ==
  /\ At("lat_pmake", "bench", "cleanup")
  /\ pc' = BenchEnds(pc) /\ UNCHANGED <<program, mem, chan>>

LatSigMain ==
  \E kind \in {"install", "catch", "prot"} :
    Call("lat_sig", With(ChildInit,
      [kind |-> kind, stage |-> IF kind = "install" THEN "install" ELSE "send",
       caught |-> 0, n |-> 0]))

(* bench_catch() measures sending before catching, bench_prot() both before the    *)
(* protection faults: one call of benchmp() each.                                  *)
NextStage(from, to) ==
  /\ At("lat_sig", "bench", "ended") /\ mem.stage = from
  /\ pc' = BenchTo("init")
  /\ mem' = With([ChildInit EXCEPT !.faults = mem.faults, !.first = FALSE],
                 [kind |-> mem.kind, stage |-> to, caught |-> 0, n |-> 0])
  /\ UNCHANGED <<program, chan>>

BenchCatch == NextStage("send", "catch")
BenchProt == NextStage("catch", "prot") /\ mem.kind = "prot"

(* initialize() maps the page and takes SIGSEGV and SIGBUS; a file that cannot be  *)
(* mapped is exit(1).  The other stages have no initialize.                        *)
SigInitialize ==
  /\ At("lat_sig", "bench", "init")
  /\ \/ pc' = BenchTo(AfterInitialize) /\ mem' = [mem EXCEPT !.cookie = Cookie]
     \/ mem.stage = "prot" /\ pc' = BenchEnds(pc) /\ UNCHANGED mem
  /\ UNCHANGED <<program, chan>>

SigDone(stage) ==
  /\ At("lat_sig", "bench", "run") /\ mem.stage = stage
  /\ IntervalDone /\ UNCHANGED program

DoSend == SigDone("send")
DoInstall == SigDone("install")
DoCatch == SigDone("catch")

(* The store to the page faults again each time prot() returns, and prot() calls    *)
(* benchmp_interval() at every n-th fault: the benchmark routine never returns.     *)
DoProt ==
  /\ At("lat_sig", "bench", "run") /\ mem.stage = "prot"
  /\ mem' = [mem EXCEPT !.n = mem.left, !.caught = IF mem.n = 0 THEN 0 ELSE @]
  /\ pc' = BenchTo("fault")
  /\ UNCHANGED <<program, chan>>

Prot ==
  /\ At("lat_sig", "bench", "fault")
  /\ IF mem.caught + 1 = mem.n
     THEN mem' = [mem EXCEPT !.caught = 0, !.left = 0] /\ pc' = BenchTo("interval")
     ELSE mem' = [mem EXCEPT !.caught = @ + 1, !.left = @ - 1] /\ UNCHANGED pc
  /\ UNCHANGED <<program, chan>>

SigEnds ==
  /\ At("lat_sig", "bench", "cleanup")
  /\ pc' = BenchEnds(pc) /\ UNCHANGED <<program, mem, chan>>

ForkBench ==
  \/ LatProcMain \/ LatCmdMain \/ PmakeMain \/ LatSigMain \/ NoInitialize
  \/ DoShell \/ DoForkexec \/ DoFork \/ DoProcedure \/ ProcCleanup
  \/ CmdBench \/ CmdEnds
  \/ PmakeSetup \/ PmakeWork \/ PmakeBench \/ PmakeEnds
  \/ BenchCatch \/ BenchProt \/ SigInitialize
  \/ DoSend \/ DoInstall \/ DoCatch \/ DoProt \/ Prot \/ SigEnds
  \/ Interval

ForkChild == ProcChild \/ \E p \in Jobs : PmakeJob(p)

ForkNext ==
  /\ program \in ForkNames
  /\ \/ ForkBench \/ ForkChild \/ CmdSigterm
     \/ \E p \in {"helper"} \cup Jobs : KillHelper(p)
=============================================================================
