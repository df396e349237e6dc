------------------------------ MODULE MCBenchmp -----------------------------
(* benchmp() on small instances, and what must eventually happen.          *)
EXTENDS BenchmpSafety

(* The default of -N in most programs.                                     *)
NotGiven == -1

(* Every call of benchmp() comes back when nothing fails, unless its caller *)
(* is killed: no barrier holds a process for ever (lib_timing.c:152-325).  *)
CallsReturn == pc \notin {"idle", "dead"} ~> pc \in {"idle", "dead"}

(* A first benchmp() that has begun to give up, for whatever reason, gets  *)
(* rid of its children and returns (lib_timing.c:284-319, 496-503).        *)
FirstGivesUp == (pc \in ErrorPCs \cup {"reap"} /\ saved = "default")
                    ~> pc \in {"return", "dead"}

(* Children do not outlive a parent that died, although nobody is left to  *)
(* signal them (lib_timing.c:684-689 and end of file on the pipes).        *)
OrphansDie == pc = "dead" ~> Broken

(* lib_timing.c:298-303: children that do not die of their own accord are  *)
(* killed, so that whenever benchmp() gives up it returns.                 *)
GivingUpEnds == pc \in ErrorPCs \cup {"reap"} ~> pc \in {"return", "dead"}

(* lmbench3.ms:680-683: no child measures before all children have started *)
(* executing the benchmarked operation.                                    *)
AllStartedBeforeTiming ==
    ~faulted => \A c, d \in Members :
        Live(c) /\ st[c] = "timing_interval" /\ kid[c] = "benchmark" => ran[d]
=============================================================================
