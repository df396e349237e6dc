--------------------------- MODULE BenchmpSafety ---------------------------
(* What benchmp() must never do, whatever fails and whoever is late.       *)
EXTENDS Benchmp, FiniteSets

ErrorPCs == {"killAll", "waitAll", "killForked", "waitForked"}

(* No loop of the parent runs past its children, whatever fails            *)
(* (lib_timing.c:228-319, 361-503).                                        *)
IndexOK ==
    /\ pc \in {"idle", "prologue", "return"} => i = 0
    /\ pc \in {"forking", "ready", "done", "askResult", "result", "killAll", "waitAll"}
           => i < par
    /\ pc = "waitForked" => i > 0

(* Every variable has its type and every loop index is in its range.       *)
TypeInv == TypeOK /\ IndexOK

(* The children that may still read a byte from barrier pipe s.            *)
Owed(s) ==
    CASE s = "start"  -> {c \in Members : Live(c) /\ (st[c] = "warmup" \/ kid[c] = "readStart")}
      [] s = "result" -> {c \in Members : kid[c] = "readResult"}
      [] s = "exit"   -> {c \in Members : Live(c)}

(* Whenever the parent reads the response pipe it finds only the messages  *)
(* of the phase it is in: it counts bytes and never looks at them, so one  *)
(* `done' among the `ready' bytes, or one control byte in front of a       *)
(* result, would go unnoticed (lib_timing.c:361-392, 406-437, 453-479).    *)
ResponseInPhase ==
    \A m \in Messages : response[m] > 0 =>
        /\ pc \in {"ready", "start"} => m[1] = "ready"
        /\ pc = "done" => m[1] = "done"
        /\ pc \in {"askResult", "result"} => m[1] = "results"

(* c has been told to report and its report has not been read.             *)
Reporting(c) == kid[c] = "reply" \/ response[<<"results", c>>] > 0

(* The response pipe belongs to one child at a time: the single byte in    *)
(* the result pipe, a child that took it, and an unread report exclude     *)
(* one another (lib_timing.c:449, 755-756; lmbench3.ms:816-866), also      *)
(* while children die and the parent gives up.                             *)
SoleReporter ==
    open => /\ bytes["result"] <= 1
            /\ bytes["result"] = 1 => \A c \in Children : ~Reporting(c)
            /\ \A c, d \in Children : Reporting(c) /\ Reporting(d) => c = d
            /\ \A c \in Children : kid[c] = "reply" => response[<<"results", c>>] = 0

(* No child waits at a barrier for a byte that a sibling took: once the    *)
(* start (exit) bytes are written there is one left for every child that   *)
(* still has to read one, although the children race for them              *)
(* (lib_timing.c:404, 490, 698-704, 765).                                  *)
BarrierBytes ==
    /\ pc \in {"done", "askResult", "result", "exit"} =>
           bytes["start"] >= Cardinality(Owed("start"))
    /\ pc = "reap" /\ ~faulted => bytes["exit"] >= Cardinality(Owed("exit"))

(* While a child measures, every sibling is under load: it has said        *)
(* `ready' and has not begun to report (lmbench3.ms:577-580).  Only a      *)
(* fault can take a sibling away.                                          *)
LoadWhileTiming ==
    ~faulted =>
        \A c, d \in Members : Live(c) /\ st[c] = "timing_interval" =>
            /\ need[d] = 0
            /\ kid[d] \in {"benchmark", "interval", "readStart"}

(* A time is published only if every child's samples were merged, each     *)
(* child's once: a failed or half-collected measurement leaves gettime()   *)
(* at zero, which is how callers recognise it (lib_timing.c:191-193).      *)
TimeIsComplete == time = "measured" => \A c \in Members : merged[c] = 1

(* The parent gives up only when something failed in this measurement: no  *)
(* flag left by an earlier one, and no child that left in order, is taken  *)
(* for a failure (lib_timing.c:220-223, 349, 376, 421, 460, 487).          *)
NoSpuriousError == pc \in ErrorPCs => faulted

(* benchmp() leaves no child behind, neither running nor a zombie          *)
(* (lib_timing.c:286-289, 309-319, 500-503).                               *)
NoStrayChildren == pc \in {"idle", "prologue"} =>
                       \A c \in Children : kid[c] \in {"none", "reaped"}

-----------------------------------------------------------------------------
(* The inductive invariant behind them.  The parent only counts bytes; it  *)
(* is right to do so because each child sends each message once, and the   *)
(* sets below are what the parent has really received.                     *)

GotReady   == {c \in Members : need[c] = 0 /\ response[<<"ready", c>>] = 0}
GotDone    == {c \in Members : st[c] = "cooldown" /\ response[<<"done", c>>] = 0}
GotResults == {c \in Members : merged[c] = 1}

Forking  == {"fork", "forking"}
Warming  == Forking \cup {"ready", "start"}
Asking   == {"askResult", "result"}
Running  == Warming \cup {"done"} \cup Asking \cup {"exit"}

(* What is known of one child while nothing has gone wrong.                *)
KidInv(c) ==
    /\ c \notin Members => kid[c] = "none"
    /\ kid[c] = "none" => need[c] = 1 /\ st[c] = "warmup"
    /\ need[c] = 1 => st[c] = "warmup" /\ response[<<"ready", c>>] = 0
    /\ response[<<"ready", c>>] <= 1
    /\ st[c] # "cooldown" => response[<<"done", c>>] = 0
    /\ response[<<"done", c>>] <= 1
    /\ response[<<"results", c>>] <= 1 /\ merged[c] <= 1
    /\ response[<<"results", c>>] = 1 \/ merged[c] = 1 =>
           kid[c] \in {"readExit", "exited", "reaped"}
    /\ merged[c] = 1 => response[<<"results", c>>] = 0

(* What the parent's phase says of all of them.                            *)
PhaseInv ==
    /\ pc \in Forking => GotReady = {}
    /\ pc \in Warming => bytes["start"] = 0 /\ \A c \in Children : st[c] = "warmup"
    /\ pc = "ready" => Cardinality(GotReady) = i
    /\ pc \in Running \ (Forking \cup {"ready"}) => GotReady = Members
    /\ pc = "done" => Cardinality(GotDone) = i
    /\ pc \in Asking \cup {"exit"} => GotDone = Members
    /\ pc \in Warming \cup {"done"} => \A c \in Children : merged[c] = 0
    /\ pc \in Asking => Cardinality(GotResults) = i
    /\ pc = "exit" => GotResults = Members
    /\ pc \in Running \ {"result"} =>
           bytes["result"] = 0 /\ \A c \in Children : ~Reporting(c)

BarrierInv ==
    /\ pc \in Running => open /\ PhaseInv /\ \A c \in Children : KidInv(c)
    /\ SoleReporter
    /\ time = "measured" => pc \in {"reap", "return", "idle", "dead"}
    /\ TimeIsComplete

-----------------------------------------------------------------------------
(* The abstract specification Harness is what Benchmp implements.          *)

StageOf(c) ==
    CASE ~Live(c) -> IF pc \in {"fork", "forking"} /\ c \in Members /\ ~Forked(c)
                     THEN "warmup" ELSE "out"
      [] Live(c) /\ st[c] = "warmup" -> IF need[c] = 1 THEN "warmup" ELSE "ready"
      [] Live(c) /\ st[c] = "timing_interval" -> "timing"
      [] Live(c) /\ st[c] = "cooldown" ->
             CASE Reporting(c) -> "reporting"
               [] kid[c] = "readExit" /\ ~Reporting(c) -> "reported"
               [] kid[c] \notin {"reply", "readExit"} /\ ~Reporting(c) -> "done"

HarnessOf == INSTANCE Harness WITH
    group     <- IF pc \in {"idle", "prologue", "return", "dead"} THEN {} ELSE Members,
    stage     <- [c \in Children |-> StageOf(c)],
    mood      <- IF pc = "dead" THEN "lost" ELSE IF faulted THEN "failing" ELSE "well",
    reports   <- {c \in Children : merged[c] > 0},
    published <- time = "measured"

(* Every step of parent, children and signals is a step the doc allows, or *)
(* changes nothing it speaks of.                                           *)
Implements == HarnessOf!HSpec
=============================================================================
