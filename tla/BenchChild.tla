----------------------------- MODULE BenchChild -----------------------------
(***************************************************************************)
(* What a program of the suite sees of benchmp(): the process benchmp()     *)
(* forked (benchmp_child) calls initialize(0), then benchmp_interval() and  *)
(* the benchmark in turn, and at the end cleanup(0) and exit.  benchmp()     *)
(* itself is module Benchmp; here its parent appears only as the sender of   *)
(* SIGTERM and as the caller of more or fewer intervals.                     *)
(*                                                                           *)
(* The modules of the programs share these four variables: only one program  *)
(* of the suite runs at a time (scripts/lmbench).                            *)
(***************************************************************************)
EXTENDS Naturals

CONSTANTS
  Batches,    \* bound: timing intervals of a behaviour
  BatchSize,  \* bound: iterations of one interval
  MaxFaults,  \* bound: signals, dead helpers and failing forks of a behaviour
  Capacity    \* bound: bytes a pipe or a socket holds (SOCKBUF, 1 MB)

ASSUME BenchAssumption ==
  /\ Batches \in Nat \ {0} /\ BatchSize \in Nat \ {0} /\ MaxFaults \in Nat
  /\ Capacity \in Nat \ {0}

VARIABLES
  program,  \* the program that runs
  pc,       \* pc[p]: where process p stands; "bench" is benchmp's child
  mem,      \* the variables of the benchmark process, and its signal state
  chan      \* the pipes, sockets and semaphores of the program

childvars == <<program, pc, mem, chan>>

(* Record r with the fields of s that it lacks.                              *)
With(r, s) == [x \in DOMAIN r \cup DOMAIN s |-> IF x \in DOMAIN r THEN r[x] ELSE s[x]]

At(p, process, label) == program = p /\ pc[process] = label

(* Where a process that was forked may stand once it has ended: a zombie     *)
(* until its parent waits for it, gone after that or without a parent.       *)
Dead == {"zombie", "gone"}

Initializing == {"init", "fork", "open1", "open2", "shake", "shaken"}

(* cookie: whether the cleanup routine gets the program's own state or, from *)
(* the signal handlers, the address of _benchmp_child_state (557, 571).       *)
(* sigchld: whether benchmp_child_sigchld is installed.  flag: SIGTERM came   *)
(* before its handler (benchmp_sigterm_received).  killed: every pid that was *)
(* given to kill().  first: whether this is the first call of benchmp() in     *)
(* the program; a later one, or the parallel one after the baseline, finds     *)
(* benchmp_sigterm() as the old handler of SIGTERM and leaves it in place.      *)
ChildInit ==
  [left |-> 0, rounds |-> 0, cookie |-> "own", sigchld |-> "child",
   flag |-> FALSE, first |-> TRUE, pid |-> "none", faults |-> MaxFaults, killed |-> {}]

(* main(): the options are refused, which ends the program (lmbench_usage),  *)
(* or benchmp() is called and its child starts with memory m.                *)
Call(p, m) ==
  /\ At(p, "bench", "main")
  /\ \/ pc' = [pc EXCEPT !["bench"] = "usage"] /\ UNCHANGED mem
     \/ pc' = [pc EXCEPT !["bench"] = "init"] /\ mem' \in {m, [m EXCEPT !.first = FALSE]}
  /\ UNCHANGED <<program, chan>>

(* benchmp_child() 648-656: initialize() has returned.  A SIGTERM that came   *)
(* meanwhile is obeyed now.                                                   *)
AfterInitialize == IF mem.flag THEN "cleanup" ELSE "interval"
Cookie == IF mem.flag THEN "other" ELSE "own"

(* benchmp_interval(): the interval is followed by another or, when the        *)
(* results were delivered or the parent is dead, by cleanup(0, cookie) and     *)
(* exit.  From the second interval on SIGCHLD has its default action again,     *)
(* and a dead parent is noticed, only in a program with a cleanup routine.      *)
NoCleanup == {"lat_cmd", "lat_pmake", "lat_sig"}

Interval ==
  /\ pc["bench"] = "interval"
  /\ \/ /\ mem.rounds < Batches
        /\ \E n \in 1..BatchSize :
             mem' = [mem EXCEPT !.left = n, !.rounds = @ + 1,
                       !.sigchld = IF mem.rounds > 0 /\ program \notin NoCleanup
                                  THEN "default" ELSE @]
        /\ pc' = [pc EXCEPT !["bench"] = "run"]
     \/ /\ mem.rounds > 0 \/ program \notin NoCleanup
        /\ mem' = [mem EXCEPT !.sigchld = IF program \in NoCleanup THEN @ ELSE "default"]
        /\ pc' = [pc EXCEPT !["bench"] = "cleanup"]
  /\ UNCHANGED <<program, chan>>

(* The parent's SIGTERM: benchmp_sigterm() before the handler is installed,   *)
(* benchmp_child_sigterm() after, which ignores further ones.                 *)
Sigterm ==
  /\ mem.faults > 0 /\ mem.cookie = "own"
  /\ pc["bench"] \notin {"main", "usage", "ended"}
  /\ mem.first \/ pc["bench"] \in Initializing
  /\ IF pc["bench"] \in Initializing
     THEN mem' = [mem EXCEPT !.flag = TRUE, !.faults = @ - 1] /\ UNCHANGED pc
     ELSE /\ mem' = [mem EXCEPT !.cookie = "other", !.sigchld = "default",
                       !.faults = @ - 1]
          /\ pc' = [pc EXCEPT !["bench"] = "cleanup"]
  /\ UNCHANGED <<program, chan>>

(* The state after process p has ended by itself or by a signal: its parent   *)
(* gets SIGCHLD, and benchmp_child_sigchld(), while it is installed, runs     *)
(* cleanup(0, &_benchmp_child_state) and exits.                               *)
Notices == mem.sigchld = "child" /\ mem.cookie = "own" /\ pc["bench"] # "ended"
ChildEnded(p) ==
  [pc EXCEPT ![p] = IF pc["bench"] = "ended" THEN "gone" ELSE "zombie",
             !["bench"] = IF Notices THEN "cleanup" ELSE @]
MemAfterChild ==
  IF Notices THEN [mem EXCEPT !.cookie = "other", !.sigchld = "default"] ELSE mem

(* Somebody else kills a helper of the benchmark (the kernel, the user).      *)
KillHelper(p) ==
  /\ mem.faults > 0 /\ pc[p] \notin Dead \cup {"none"}
  /\ pc' = ChildEnded(p)
  /\ mem' = [MemAfterChild EXCEPT !.faults = @ - 1]
  /\ UNCHANGED <<program, chan>>

(* The benchmark process ends; init reaps the children it leaves as zombies.  *)
BenchEnds(q) ==
  [p \in DOMAIN q |-> IF p = "bench" THEN "ended"
                      ELSE IF q[p] = "zombie" THEN "gone" ELSE q[p]]
=============================================================================
