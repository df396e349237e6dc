------------------------------ MODULE Benchmp ------------------------------
(***************************************************************************)
(* benchmp(), the measurement harness of lmbench3/src/lib_timing.c: a      *)
(* parent forks `parallel' children that all run the benchmark, holds them *)
(* together with three barrier pipes (start, result and exit signals), and *)
(* collects their answers from one shared response pipe.                   *)
(*                                                                         *)
(* The parent and the children are processes with program counters; every  *)
(* action is the code between two points where another process can         *)
(* interfere (a system call on a pipe, a wait, a loop test on a flag that  *)
(* a signal handler sets).  A benchmark program calls benchmp() several    *)
(* times, and benchmp() calls itself once with one child (the baseline)    *)
(* before it runs more than one: state that survives a call, such as the   *)
(* disposition of SIGTERM, is kept between calls.                          *)
(***************************************************************************)
EXTENDS Integers

CONSTANTS
    Parallel,     \* the `parallel' argument of benchmp()
    Repetitions,  \* samples a child collects; -1 when the option was not given
    HasCleanup,   \* does the benchmark pass a cleanup routine?
    MaxCalls,     \* bound: calls of benchmp() the program makes
    MaxRescale,   \* bound: timing intervals a child rejects for their length
    FaultKinds,   \* the faults the environment may cause, see AllFaults
    MaxFaults     \* bound: how many faults it causes

(* "child": a child dies; "sigterm": somebody sends the parent SIGTERM;    *)
(* "kill": somebody sends it SIGKILL; the others are failing system calls. *)
AllFaults == {"child", "sigterm", "kill", "fork", "pipe", "malloc"}

ASSUME ParallelAssumption == Parallel \in Nat \ {0}
ASSUME ArgumentAssumption == Repetitions \in Int /\ HasCleanup \in BOOLEAN
ASSUME BoundAssumption == /\ MaxCalls \in Nat /\ MaxRescale \in Nat
                          /\ MaxFaults \in Nat /\ FaultKinds \subseteq AllFaults

Children == 0 .. Parallel - 1          \* indices of the array pids
Kinds == {"ready", "done", "results"}  \* what a child writes to `response'
Messages == Kinds \X Children
Signals == {"start", "result", "exit"} \* the barrier pipes

VARIABLES
    \* the parent
    pc,       \* where it is
    calls,    \* calls of benchmp() made so far
    par,      \* `parallel' of the activation that is running (1: baseline)
    i,        \* the loop index
    alarmed,  \* has benchmp_sigalrm() fired during this waitpid()?
    time,     \* gettime(): "zero" or "measured"
    merged,   \* per child, how often its results were merged
    \* its signal handling
    sigterm,  \* disposition of SIGTERM
    saved,    \* benchmp_sigterm_handler: disposition found on entry
    sigchld,  \* disposition of SIGCHLD
    termed,   \* benchmp_sigterm_received
    chlded,   \* benchmp_sigchld_received
    \* the pipes of the current activation
    open,     \* does the parent hold its ends?
    response, \* per message, how many copies are in the response pipe
    bytes,    \* per barrier pipe, how many bytes are in it
    \* the children
    kid,      \* where each child is
    st,       \* its benchmp_state
    need,     \* need_warmup: 1 until it has sent `ready'
    n,        \* state->i: samples collected
    rescaled, \* intervals rejected for their length
    kterm,    \* its disposition of SIGTERM
    ktermed,  \* its copy of benchmp_sigterm_received
    ran,      \* has it run the benchmark at all?  (history variable)
    \* the environment
    faults,   \* faults so far
    faulted   \* a fault hit since the current activation set its handlers

parentVars == <<calls, par, time, merged>>
signalVars == <<sigterm, saved, termed>>
chldVars   == <<sigchld, chlded>>
pipeVars   == <<open, response, bytes>>
sampleVars == <<n, rescaled>>
ktermVars  == <<kterm, ktermed>>
kidVars    == <<kid, st, need, sampleVars, ktermVars, ran>>
faultVars  == <<faults, faulted>>
vars == <<pc, i, alarmed, parentVars, signalVars, chldVars, pipeVars, kidVars, faultVars>>

ParentPCs == {"idle", "prologue", "fork", "forking", "ready", "start", "done",
              "askResult", "result", "exit", "killAll", "waitAll",
              "killForked", "waitForked", "reap", "return", "dead"}
LivePCs == {"initialize", "interval", "benchmark", "readStart",
            "readResult", "reply", "readExit"}
KidPCs == LivePCs \cup {"none", "exited", "reaped"}
KidStates == {"warmup", "timing_interval", "cooldown"}

ParentTypeOK ==
    /\ pc \in ParentPCs /\ calls \in 0 .. MaxCalls /\ par \in {1, Parallel}
    /\ i \in 0 .. par /\ time \in {"zero", "measured"}
    /\ merged \in [Children -> Nat] /\ faults \in 0 .. MaxFaults

FlagTypeOK ==
    /\ alarmed \in BOOLEAN /\ termed \in BOOLEAN /\ chlded \in BOOLEAN
    /\ open \in BOOLEAN /\ faulted \in BOOLEAN

SignalTypeOK ==
    /\ sigterm \in {"default", "benchmp_sigterm"}
    /\ saved \in {"default", "benchmp_sigterm"}
    /\ sigchld \in {"default", "benchmp_sigchld"}

PipeTypeOK == response \in [Messages -> Nat] /\ bytes \in [Signals -> Nat]

KidTypeOK ==
    /\ kid \in [Children -> KidPCs] /\ st \in [Children -> KidStates]
    /\ need \in [Children -> {0, 1}] /\ n \in [Children -> Nat]
    /\ rescaled \in [Children -> 0 .. MaxRescale]
    /\ kterm \in [Children -> {"benchmp_sigterm", "benchmp_child_sigterm"}]
    /\ ktermed \in [Children -> BOOLEAN] /\ ran \in [Children -> BOOLEAN]

TypeOK == ParentTypeOK /\ FlagTypeOK /\ SignalTypeOK /\ PipeTypeOK /\ KidTypeOK

Live(c) == kid[c] \in LivePCs
Members == 0 .. par - 1                \* the children of this activation

(* What the properties about the system boundary and the mapping onto the  *)
(* abstract specification say of a child.                                  *)
Forked(c) == kid[c] # "none"

-----------------------------------------------------------------------------
(* Faults, exits and signals *)

Fault(kind) == /\ kind \in FaultKinds /\ faults < MaxFaults
               /\ faults' = faults + 1 /\ faulted' = TRUE

(* The parent is gone: the kernel closes its ends of the pipes.            *)
ParentDies == pc' = "dead" /\ open' = FALSE

(* A child is gone, and the parent's SIGCHLD handler, if it is installed,  *)
(* notes that and uninstalls itself.                                       *)
ChildExits(c) ==
    /\ kid' = [kid EXCEPT ![c] = "exited"]
    /\ sigchld' = "default"
    /\ chlded' = (chlded \/ sigchld = "benchmp_sigchld")

(* kill(pids[c], SIGTERM): benchmp_child_sigterm() cleans up and exits,    *)
(* benchmp_sigterm() only sets a flag in the child.                        *)
Terminate(c) ==
    IF Live(c) /\ kterm[c] = "benchmp_child_sigterm"
    THEN ChildExits(c) /\ UNCHANGED ktermed
    ELSE /\ ktermed' = [ktermed EXCEPT ![c] = @ \/ Live(c)]
         /\ UNCHANGED <<kid, chldVars>>

(* waitpid(pids[c]) returns.                                               *)
Reap(c) == kid[c] \in {"exited", "reaped"} /\ kid' = [kid EXCEPT ![c] = "reaped"]

(* No child is left: a write to a barrier pipe now kills the parent, as    *)
(* nothing ignores SIGPIPE.                                                *)
Broken == \A c \in Children : ~Live(c)

(* MUTANT: a child keeps the parent's end open and never sees end of file. *)
ReadableNoEof(s) == bytes[s] > 0

Readable(s) == bytes[s] > 0 \/ ~open
(* MUTANT: a read() that takes more than its own byte.                     *)
TakeTwo(s) == Readable(s) /\ bytes' = [bytes EXCEPT ![s] = IF @ > 1 THEN @ - 2 ELSE 0]

(* read() of one byte: it blocks on an empty pipe and returns at once at   *)
(* end of file.                                                            *)
Take(s) == Readable(s) /\ bytes' = [bytes EXCEPT ![s] = IF @ > 0 THEN @ - 1 ELSE 0]

(* A child writes a message and goes on to `next', or dies of SIGPIPE.     *)
Send(c, kind, next) ==
    IF open
    THEN /\ response' = [response EXCEPT ![<<kind, c>>] = @ + 1]
         /\ kid' = [kid EXCEPT ![c] = next]
         /\ UNCHANGED chldVars
    ELSE ChildExits(c) /\ UNCHANGED response

Goto(c, next) == kid' = [kid EXCEPT ![c] = next] /\ UNCHANGED chldVars

-----------------------------------------------------------------------------
(* benchmp(): prologue and fork loop *)

(* A call of benchmp() by the program.  With more than one child it first  *)
(* calls itself with one.                                                  *)
Call ==
    /\ pc = "idle" /\ calls < MaxCalls
    /\ pc' = "prologue" /\ calls' = calls + 1 /\ par' = 1 /\ time' = "zero"
    /\ UNCHANGED <<i, alarmed, merged, signalVars, chldVars, pipeVars, kidVars, faultVars>>

(* MUTANT: the flags of an earlier activation are not reset.               *)
InstallHandlersStale ==
    /\ saved' = sigterm /\ sigterm' = "benchmp_sigterm"
    /\ sigchld' = "benchmp_sigchld"
    /\ UNCHANGED <<termed, chlded>>

(* The handlers are installed, the dispositions found are kept.            *)
InstallHandlers ==
    /\ saved' = sigterm /\ sigterm' = "benchmp_sigterm"
    /\ sigchld' = "benchmp_sigchld"
    /\ termed' = FALSE /\ chlded' = FALSE

(* Fresh pipes, no child yet, the handlers.                                *)
Prologue ==
    /\ pc = "prologue" /\ pc' = "fork"
    /\ open' = TRUE
    /\ response' = [m \in Messages |-> 0] /\ bytes' = [s \in Signals |-> 0]
    /\ InstallHandlers
    /\ i' = 0 /\ faulted' = FALSE
    /\ merged' = [c \in Children |-> 0]
    /\ kid' = [c \in Children |-> "none"]
    /\ st' = [c \in Children |-> "warmup"]
    /\ need' = [c \in Children |-> 1]
    /\ n' = [c \in Children |-> 0] /\ rescaled' = [c \in Children |-> 0]
    /\ kterm' = [c \in Children |-> "benchmp_sigterm"]
    /\ ktermed' = [c \in Children |-> FALSE] /\ ran' = [c \in Children |-> FALSE]
    /\ UNCHANGED <<calls, par, time, alarmed, faults>>

PipeFails ==
    /\ pc = "prologue" /\ Fault("pipe") /\ pc' = "return"
    /\ UNCHANGED <<i, alarmed, parentVars, signalVars, chldVars, pipeVars, kidVars>>

(* malloc(pids) fails: the handlers stay.                                  *)
PidsFail ==
    /\ pc = "prologue" /\ Fault("malloc") /\ pc' = "return"
    /\ InstallHandlers
    /\ UNCHANGED <<i, alarmed, parentVars, pipeVars, kidVars>>

(* MUTANT: the loop runs once too often.                                   *)
ForkTestOff ==
    /\ pc = "fork" /\ i <= par
    /\ IF termed
       THEN pc' = "killForked" /\ sigchld' = "default"
       ELSE pc' = "forking" /\ UNCHANGED sigchld
    /\ UNCHANGED <<i, alarmed, parentVars, signalVars, chlded, pipeVars, kidVars, faultVars>>

(* One turn of the fork loop tests the flag ...                            *)
ForkTest ==
    /\ pc = "fork" /\ i < par
    /\ IF termed
       THEN pc' = "killForked" /\ sigchld' = "default"
       ELSE pc' = "forking" /\ UNCHANGED sigchld
    /\ UNCHANGED <<i, alarmed, parentVars, signalVars, chlded, pipeVars, kidVars, faultVars>>

(* ... and forks; the child inherits the handler and the flag.             *)
Fork ==
    /\ pc = "forking" /\ pc' = "fork"
    /\ kid' = [kid EXCEPT ![i] = "initialize"]
    /\ ktermed' = [ktermed EXCEPT ![i] = termed]
    /\ i' = i + 1
    /\ UNCHANGED <<alarmed, parentVars, signalVars, chldVars, pipeVars,
                   st, need, sampleVars, kterm, ran, faultVars>>

ForkFails ==
    /\ pc = "forking" /\ Fault("fork")
    /\ pc' = "killForked" /\ sigchld' = "default"
    /\ UNCHANGED <<i, alarmed, parentVars, signalVars, chlded, pipeVars, kidVars>>

(* benchmp:error_exit, entered with i children forked.                     *)
KillForked ==
    /\ pc = "killForked"
    /\ IF i = 0
       THEN pc' = "return" /\ UNCHANGED <<kid, ktermed, chldVars>>
       ELSE pc' = "waitForked" /\ Terminate(i - 1)
    /\ UNCHANGED <<i, alarmed, parentVars, signalVars, pipeVars,
                   st, need, sampleVars, kterm, ran, faultVars>>

WaitForked ==
    /\ pc = "waitForked" /\ Reap(i - 1)
    /\ pc' = "killForked" /\ i' = i - 1
    /\ UNCHANGED <<alarmed, parentVars, signalVars, chldVars, pipeVars,
                   st, need, sampleVars, ktermVars, ran, faultVars>>

-----------------------------------------------------------------------------
(* benchmp_parent() *)

Alert == termed \/ chlded

(* benchmp_parent:error_exit is entered.                                   *)
ErrorExit == pc' = "killAll" /\ i' = 0 /\ sigchld' = "default"

EnterParent ==
    /\ pc = "fork" /\ i = par
    /\ IF Alert THEN ErrorExit ELSE pc' = "ready" /\ i' = 0 /\ UNCHANGED sigchld
    /\ UNCHANGED <<alarmed, parentVars, signalVars, chlded, pipeVars, kidVars, faultVars>>

(* A buffer cannot be allocated: benchmp_parent() just returns.            *)
BuffersFail ==
    /\ pc = "fork" /\ i = par /\ ~Alert /\ Fault("malloc")
    /\ pc' = "reap" /\ alarmed' = FALSE /\ sigchld' = "default"
    /\ UNCHANGED <<i, parentVars, signalVars, chlded, pipeVars, kidVars>>

(* The test after each select() of the three loops that read `response'.   *)
ParentNotices ==
    /\ pc \in {"ready", "done", "result"} /\ Alert /\ ErrorExit
    /\ UNCHANGED <<alarmed, parentVars, signalVars, chlded, pipeVars, kidVars, faultVars>>

(* read(response): one message; a read that returns k bytes is k steps.    *)
Receive(m) ==
    /\ ~Alert /\ response[m] > 0
    /\ response' = [response EXCEPT ![m] = @ - 1]

(* MUTANT: one `ready' is enough.                                          *)
CollectReadyOne ==
    /\ pc = "ready" /\ \E m \in Messages : Receive(m)
    /\ i' = i + 1 /\ pc' = "start"
    /\ UNCHANGED <<alarmed, parentVars, signalVars, chldVars, open, bytes, kidVars, faultVars>>

CollectReady ==
    /\ pc = "ready" /\ \E m \in Messages : Receive(m)
    /\ i' = i + 1 /\ pc' = IF i + 1 = par THEN "start" ELSE "ready"
    /\ UNCHANGED <<alarmed, parentVars, signalVars, chldVars, open, bytes, kidVars, faultVars>>

(* The parent writes k bytes and goes on, or dies of SIGPIPE.              *)
Signal(s, k, next) ==
    IF Broken
    THEN ParentDies /\ UNCHANGED bytes
    ELSE /\ bytes' = [bytes EXCEPT ![s] = @ + k]
         /\ pc' = next /\ UNCHANGED open

SendStart ==
    /\ pc = "start" /\ Signal("start", par, "done") /\ i' = 0
    /\ UNCHANGED <<alarmed, parentVars, signalVars, chldVars, response, kidVars, faultVars>>

(* MUTANT: one `done' is enough.                                           *)
CollectDoneOne ==
    /\ pc = "done" /\ \E m \in Messages : Receive(m)
    /\ pc' = "askResult" /\ i' = 0
    /\ UNCHANGED <<alarmed, parentVars, signalVars, chldVars, open, bytes, kidVars, faultVars>>

CollectDone ==
    /\ pc = "done" /\ \E m \in Messages : Receive(m)
    /\ IF i + 1 = par THEN pc' = "askResult" /\ i' = 0
                      ELSE pc' = "done" /\ i' = i + 1
    /\ UNCHANGED <<alarmed, parentVars, signalVars, chldVars, open, bytes, kidVars, faultVars>>

(* MUTANT: every child is told at once, as for the other barriers.         *)
AskResultAll ==
    /\ pc = "askResult" /\ Signal("result", par, "result")
    /\ UNCHANGED <<i, alarmed, parentVars, signalVars, chldVars, response, kidVars, faultVars>>

AskResult ==
    /\ pc = "askResult" /\ Signal("result", 1, "result")
    /\ UNCHANGED <<i, alarmed, parentVars, signalVars, chldVars, response, kidVars, faultVars>>

(* MUTANT: the last child is not asked.                                    *)
CollectResultOff ==
    /\ pc = "result"
    /\ \E m \in Messages : /\ Receive(m)
                           /\ merged' = [merged EXCEPT ![m[2]] = @ + 1]
    /\ i' = i + 1 /\ pc' = IF i + 2 >= par THEN "exit" ELSE "askResult"
    /\ UNCHANGED <<alarmed, calls, par, time, signalVars, chldVars, open, bytes,
                   kidVars, faultVars>>

CollectResult ==
    /\ pc = "result"
    /\ \E m \in Messages : /\ Receive(m)
                           /\ merged' = [merged EXCEPT ![m[2]] = @ + 1]
    /\ i' = i + 1 /\ pc' = IF i + 1 = par THEN "exit" ELSE "askResult"
    /\ UNCHANGED <<alarmed, calls, par, time, signalVars, chldVars, open, bytes,
                   kidVars, faultVars>>

(* Deaths of children are no error any more; exit signals; set_results()   *)
(* of the merged samples, all of which may have been dropped as zero; the  *)
(* pipes are closed and benchmp() goes on to cleanup_exit.                 *)
SendExit ==
    /\ pc = "exit" /\ sigchld' = "default"
    /\ IF Broken
       THEN ParentDies /\ UNCHANGED <<bytes, time, i, alarmed>>
       ELSE /\ bytes' = [bytes EXCEPT !["exit"] = @ + par]
            /\ time' \in {"zero", "measured"}
            /\ pc' = "reap" /\ open' = FALSE /\ i' = par /\ alarmed' = FALSE
    /\ UNCHANGED <<calls, par, merged, signalVars, chlded, response, kidVars, faultVars>>

(* benchmp_parent:error_exit: kill and wait, child by child.               *)
KillAll ==
    /\ pc = "killAll" /\ pc' = "waitAll" /\ Terminate(i)
    /\ UNCHANGED <<i, alarmed, parentVars, signalVars, pipeVars,
                   st, need, sampleVars, kterm, ran, faultVars>>

WaitAll ==
    /\ pc = "waitAll" /\ Reap(i)
    /\ IF i + 1 = par
       THEN pc' = "reap" /\ i' = par /\ alarmed' = FALSE /\ open' = FALSE
       ELSE pc' = "killAll" /\ i' = i + 1 /\ UNCHANGED <<alarmed, open>>
    /\ UNCHANGED <<parentVars, signalVars, chldVars, response, bytes,
                   st, need, sampleVars, ktermVars, ran, faultVars>>

-----------------------------------------------------------------------------
(* benchmp:cleanup_exit *)

WaitChild ==
    /\ pc = "reap" /\ i > 0 /\ Reap(i - 1)
    /\ i' = i - 1 /\ alarmed' = FALSE
    /\ UNCHANGED <<pc, parentVars, signalVars, chldVars, pipeVars,
                   st, need, sampleVars, ktermVars, ran, faultVars>>

(* benchmp_sigalrm(): the child outlived the timeout.  It fires only once, *)
(* the handler sets SIGALRM to be ignored.                                 *)
Alarm ==
    /\ pc = "reap" /\ i > 0 /\ Live(i - 1) /\ ~alarmed
    /\ Terminate(i - 1) /\ alarmed' = TRUE
    /\ UNCHANGED <<pc, i, parentVars, signalVars, pipeVars,
                   st, need, sampleVars, kterm, ran, faultVars>>

(* MUTANT: the loop ends before the first child.                           *)
AllWaitedOff ==
    /\ pc = "reap" /\ i <= 1 /\ pc' = "return"
    /\ UNCHANGED <<i, alarmed, parentVars, signalVars, chldVars, pipeVars, kidVars, faultVars>>

AllWaited ==
    /\ pc = "reap" /\ i = 0 /\ pc' = "return"
    /\ UNCHANGED <<i, alarmed, parentVars, signalVars, chldVars, pipeVars, kidVars, faultVars>>

(* Back in the caller: the program, or benchmp() after its baseline.       *)
Return ==
    /\ pc = "return"
    /\ IF par < Parallel /\ time = "measured"
       THEN pc' = "prologue" /\ par' = Parallel /\ time' = "zero"
       ELSE pc' = "idle" /\ UNCHANGED <<par, time>>
    /\ UNCHANGED <<i, alarmed, calls, merged, signalVars, chldVars, pipeVars, kidVars, faultVars>>

-----------------------------------------------------------------------------
(* benchmp_child() and benchmp_interval() *)

childRest == <<pc, i, alarmed, parentVars, signalVars, open, faultVars>>

(* MUTANT: the two handlers are swapped.                                   *)
InstallSwapped(c) ==
    /\ kid[c] = "initialize"
    /\ kterm' = [kterm EXCEPT ![c] = IF saved = "default" THEN "benchmp_sigterm"
                                     ELSE "benchmp_child_sigterm"]
    /\ IF ktermed[c] THEN ChildExits(c) ELSE Goto(c, "interval")
    /\ UNCHANGED <<childRest, response, bytes, st, need, sampleVars, ktermed, ran>>

(* initialize(), then the SIGTERM handler the parent found is kept or, if  *)
(* it found the default, benchmp_child_sigterm() is installed; a SIGTERM   *)
(* seen before that is acted on now.                                       *)
Install(c) ==
    /\ kid[c] = "initialize"
    /\ kterm' = [kterm EXCEPT ![c] = IF saved # "default" THEN "benchmp_sigterm"
                                     ELSE "benchmp_child_sigterm"]
    /\ IF ktermed[c] THEN ChildExits(c) ELSE Goto(c, "interval")
    /\ UNCHANGED <<childRest, response, bytes, st, need, sampleVars, ktermed, ran>>

(* getppid() == 1: the parent died.  Only noticed if there is a cleanup.   *)
Orphaned == pc = "dead" /\ HasCleanup

Orphan(c) ==
    /\ kid[c] = "interval" /\ Orphaned /\ ChildExits(c)
    /\ UNCHANGED <<childRest, response, bytes, st, need, sampleVars, ktermVars, ran>>

(* The top of benchmp_interval() in state s.                               *)
Interval(c, s) == kid[c] = "interval" /\ st[c] = s /\ ~Orphaned

(* MUTANT: need_warmup is never reset.                                     *)
SayReadyAgain(c) == Send(c, "ready", "benchmark") /\ UNCHANGED need

(* The end of the warmup case: `ready' is written the first time round.    *)
SayReady(c) ==
    IF need[c] = 1
    THEN Send(c, "ready", "benchmark") /\ need' = [need EXCEPT ![c] = 0]
    ELSE Goto(c, "benchmark") /\ UNCHANGED <<need, response>>

WarmUp(c) ==
    /\ Interval(c, "warmup") /\ ~Readable("start") /\ SayReady(c)
    /\ UNCHANGED <<childRest, bytes, st, sampleVars, ktermVars, ran>>

(* select() finds start_signal readable: the state changes before the byte *)
(* is read.                                                                *)
EndWarmUp(c) ==
    /\ Interval(c, "warmup") /\ Readable("start")
    /\ st' = [st EXCEPT ![c] = "timing_interval"] /\ Goto(c, "readStart")
    /\ UNCHANGED <<childRest, response, bytes, need, sampleVars, ktermVars, ran>>

ReadStart(c) ==
    /\ kid[c] = "readStart" /\ Take("start") /\ SayReady(c)
    /\ UNCHANGED <<childRest, st, sampleVars, ktermVars, ran>>

(* A timing interval that counts: always with siblings, else only a long   *)
(* enough one.                                                             *)
Sample(c) ==
    /\ Interval(c, "timing_interval") /\ n[c] + 1 < Repetitions
    /\ n' = [n EXCEPT ![c] = @ + 1] /\ Goto(c, "benchmark")
    /\ UNCHANGED <<childRest, response, bytes, st, need, rescaled, ktermVars, ran>>

(* A lone child whose interval was too short tries more iterations.        *)
Rescale(c) ==
    /\ Interval(c, "timing_interval") /\ par = 1 /\ rescaled[c] < MaxRescale
    /\ rescaled' = [rescaled EXCEPT ![c] = @ + 1] /\ Goto(c, "benchmark")
    /\ UNCHANGED <<childRest, response, bytes, st, need, n, ktermVars, ran>>

(* The last sample, or a lone child that ran out of iterations, with or    *)
(* without a sample.                                                       *)
FinishTiming(c) ==
    /\ Interval(c, "timing_interval")
    /\ \/ n[c] + 1 >= Repetitions /\ n' = [n EXCEPT ![c] = @ + 1]
       \/ par = 1 /\ \E k \in {0, 1} : n' = [n EXCEPT ![c] = @ + k]
    /\ st' = [st EXCEPT ![c] = "cooldown"]
    /\ Send(c, "done", "benchmark")
    /\ UNCHANGED <<childRest, bytes, need, rescaled, ktermVars, ran>>

CoolDown(c) ==
    /\ Interval(c, "cooldown")
    /\ Goto(c, IF Readable("result") THEN "readResult" ELSE "benchmark")
    /\ UNCHANGED <<childRest, response, bytes, st, need, sampleVars, ktermVars, ran>>

(* A sibling may have taken the byte that select() saw: this read() waits. *)
ReadResult(c) ==
    /\ kid[c] = "readResult" /\ Take("result") /\ Goto(c, "reply")
    /\ UNCHANGED <<childRest, response, st, need, sampleVars, ktermVars, ran>>

Reply(c) ==
    /\ kid[c] = "reply" /\ Send(c, "results", "readExit")
    /\ UNCHANGED <<childRest, bytes, st, need, sampleVars, ktermVars, ran>>

ReadExit(c) ==
    /\ kid[c] = "readExit" /\ Take("exit") /\ ChildExits(c)
    /\ UNCHANGED <<childRest, response, st, need, sampleVars, ktermVars, ran>>

(* initialize(iterations), start(0), and the benchmarked operation.        *)
Benchmark(c) ==
    /\ kid[c] = "benchmark" /\ Goto(c, "interval")
    /\ ran' = [ran EXCEPT ![c] = TRUE]
    /\ UNCHANGED <<childRest, response, bytes, st, need, sampleVars, ktermVars>>

-----------------------------------------------------------------------------
(* Faults from outside *)

(* A child dies at any point: malloc() of its results fails, its benchmark *)
(* exits or is killed.                                                     *)
Crash(c) ==
    /\ Live(c) /\ Fault("child") /\ ChildExits(c)
    /\ UNCHANGED <<pc, i, alarmed, parentVars, signalVars, pipeVars,
                   st, need, sampleVars, ktermVars, ran>>

(* SIGTERM for the parent: fatal until a first benchmp() has installed     *)
(* benchmp_sigterm(), which nothing ever removes.                          *)
Sigterm ==
    /\ pc # "dead" /\ Fault("sigterm")
    /\ IF sigterm = "default"
       THEN ParentDies /\ UNCHANGED termed
       ELSE termed' = TRUE /\ UNCHANGED <<pc, open>>
    /\ UNCHANGED <<i, alarmed, parentVars, sigterm, saved, chldVars,
                   response, bytes, kidVars>>

Kill ==
    /\ pc # "dead" /\ Fault("kill") /\ ParentDies
    /\ UNCHANGED <<i, alarmed, parentVars, signalVars, chldVars, response, bytes, kidVars>>

-----------------------------------------------------------------------------
(* The program has made its calls, or is gone with all its children.       *)
Finished == /\ \/ pc = "idle" /\ calls = MaxCalls
               \/ pc = "dead"
            /\ Broken

Terminating == Finished /\ UNCHANGED vars

Init ==
    /\ pc = "idle" /\ calls = 0 /\ par = 1 /\ i = 0 /\ alarmed = FALSE
    /\ time = "zero" /\ merged = [c \in Children |-> 0]
    /\ sigterm = "default" /\ saved = "default" /\ sigchld = "default"
    /\ termed = FALSE /\ chlded = FALSE
    /\ open = FALSE
    /\ response = [m \in Messages |-> 0] /\ bytes = [s \in Signals |-> 0]
    /\ kid = [c \in Children |-> "none"] /\ st = [c \in Children |-> "warmup"]
    /\ need = [c \in Children |-> 1]
    /\ n = [c \in Children |-> 0] /\ rescaled = [c \in Children |-> 0]
    /\ kterm = [c \in Children |-> "benchmp_sigterm"]
    /\ ktermed = [c \in Children |-> FALSE] /\ ran = [c \in Children |-> FALSE]
    /\ faults = 0 /\ faulted = FALSE

Parent ==
    \/ Call \/ Prologue \/ ForkTest \/ Fork \/ KillForked \/ WaitForked
    \/ EnterParent \/ ParentNotices \/ CollectReady \/ SendStart \/ CollectDone
    \/ AskResult \/ CollectResult \/ SendExit \/ KillAll \/ WaitAll
    \/ WaitChild \/ AllWaited \/ Return

Child(c) ==
    \/ Install(c) \/ Orphan(c) \/ WarmUp(c) \/ EndWarmUp(c) \/ ReadStart(c)
    \/ Sample(c) \/ Rescale(c) \/ FinishTiming(c) \/ CoolDown(c)
    \/ ReadResult(c) \/ Reply(c) \/ ReadExit(c) \/ Benchmark(c)

Environment ==
    \/ PipeFails \/ PidsFail \/ ForkFails \/ BuffersFail
    \/ Sigterm \/ Kill \/ \E c \in Children : Crash(c)

Next == Parent \/ Alarm \/ (\E c \in Children : Child(c)) \/ Environment \/ Terminating

Spec == Init /\ [][Next]_vars

(* Every process that can take a step eventually does, and the alarm of a  *)
(* waitpid() that does not return goes off.  No fault is ever due.         *)
Fairness == WF_vars(Parent) /\ WF_vars(Alarm) /\ \A c \in Children : WF_vars(Child(c))

FairSpec == Spec /\ Fairness
=============================================================================
