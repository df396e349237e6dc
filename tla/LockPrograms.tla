---------------------------- MODULE LockPrograms ----------------------------
(***************************************************************************)
(* lat_fcntl and lat_select.  lat_fcntl hands two file locks to and fro        *)
(* between the benchmark and a helper: chan.owner[i] is the process that has   *)
(* lock i.  lat_select waits on copies of one descriptor; in its tcp form that  *)
(* is a connection to a server which main() forked before benchmp(), and which  *)
(* main() kills after it.                                                       *)
(***************************************************************************)
EXTENDS BenchChild

LockNames == {"lat_fcntl", "lat_select"}
Descriptors == 2   \* bound: state.num (200)

(* fds: the copies of the descriptor that are open; conn: the connection as the     *)
(* server sees it.  "parent" is the process that calls benchmp().                    *)
LockInit ==
  /\ program \in LockNames
  /\ pc = [p \in {"bench", "helper", "parent"} |-> IF p = "helper" THEN "none" ELSE "main"]
  /\ mem = With(ChildInit, [kind |-> "none"])
  /\ chan = [owner |-> [lock \in 1..2 |-> "none"], conn |-> "none", fds |-> 0]

FcntlMain == Call("lat_fcntl", mem)

(* The locks after process p has given up lock i, or has closed the files or ended.  *)
Released(p, i) == [chan EXCEPT !.owner[i] = IF @ = p THEN "none" ELSE @]
LocksLost(p) ==
  [chan EXCEPT !.owner = [i \in 1..2 |-> IF @[i] = p THEN "none" ELSE @[i]]]

(* initialize() takes both locks before it forks; without a helper it is exit(1).     *)
FcntlInitialize ==
  /\ At("lat_fcntl", "bench", "init") /\ UNCHANGED program
  /\ \/ /\ pc' = [pc EXCEPT !["helper"] = "release1", !["bench"] = AfterInitialize]
        /\ mem' = [mem EXCEPT !.pid = "helper", !.cookie = Cookie]
        /\ chan' = [chan EXCEPT !.owner = [i \in 1..2 |-> "bench"]]
     \/ /\ mem.faults > 0 /\ mem' = [mem EXCEPT !.faults = @ - 1]
        /\ pc' = BenchEnds(pc) /\ UNCHANGED chan

(* waiton(): a lock that the process has already is granted at once.                 *)
waiton(p, i, label, next) ==
  /\ At("lat_fcntl", p, label) /\ chan.owner[i] \in {"none", p}
  /\ chan' = [chan EXCEPT !.owner[i] = p] /\ pc' = [pc EXCEPT ![p] = next]
release(p, i, label, next) ==
  /\ At("lat_fcntl", p, label)
  /\ chan' = Released(p, i) /\ pc' = [pc EXCEPT ![p] = next]

(* One iteration.  Nothing makes the helper take its turn: the benchmark may have      *)
(* lock 2 back before the helper gets it.                                               *)
ProcA ==
  /\ UNCHANGED program
  /\ \/ /\ At("lat_fcntl", "bench", "run") /\ mem.left = 0
        /\ pc' = [pc EXCEPT !["bench"] = "interval"] /\ UNCHANGED <<mem, chan>>
     \/ mem.left > 0 /\ waiton("bench", 1, "run", "release2") /\ UNCHANGED mem
     \/ release("bench", 2, "release2", "wait2") /\ UNCHANGED mem
     \/ waiton("bench", 2, "wait2", "release1") /\ UNCHANGED mem
     \/ release("bench", 1, "release1", "run") /\ mem' = [mem EXCEPT !.left = @ - 1]

(* MUTANT: the helper waits for lock 1 before it gives up lock 2.                       *)
ProcBSwapped ==
  /\ UNCHANGED <<program, mem>>
  /\ \/ release("helper", 1, "release1", "wait2")
     \/ waiton("helper", 2, "wait2", "wait1")
     \/ waiton("helper", 1, "wait1", "release2")
     \/ release("helper", 2, "release2", "release1")

ProcB ==
  /\ UNCHANGED <<program, mem>>
  /\ \/ release("helper", 1, "release1", "wait2")
     \/ waiton("helper", 2, "wait2", "release2")
     \/ release("helper", 2, "release2", "wait1")
     \/ waiton("helper", 1, "wait1", "release1")

(* With the harness's state in the place of its own it kills a stranger or nobody.      *)
FcntlCleanup ==
  /\ At("lat_fcntl", "bench", "cleanup") /\ UNCHANGED program
  /\ IF mem.cookie = "own"
     THEN /\ mem' = [mem EXCEPT !.pid = "none", !.killed = @ \cup {mem.pid}]
          /\ pc' = BenchEnds([pc EXCEPT !["helper"] = "zombie"])
          /\ chan' = [chan EXCEPT !.owner = [i \in 1..2 |-> "none"]]
     ELSE /\ \E target \in {{}, {"stranger"}} : mem' = [mem EXCEPT !.killed = @ \cup target]
          /\ pc' = BenchEnds(pc) /\ chan' = LocksLost("bench")

FcntlKill ==
  /\ program = "lat_fcntl" /\ mem.faults > 0 /\ pc["helper"] \notin Dead \cup {"none"}
  /\ pc' = ChildEnded("helper") /\ mem' = [MemAfterChild EXCEPT !.faults = @ - 1]
  /\ chan' = LocksLost("helper") /\ UNCHANGED program

(* lat_select: the temporary file, or the server.                                       *)
SelectMain ==
  /\ At("lat_select", "bench", "main") /\ UNCHANGED <<program, chan>>
  /\ \/ pc' = [pc EXCEPT !["bench"] = "usage"] /\ UNCHANGED mem
     \/ /\ pc' = [pc EXCEPT !["bench"] = "init", !["parent"] = "benchmp"]
        /\ mem' \in {[mem EXCEPT !.kind = "file", !.first = f] : f \in BOOLEAN}
     \/ /\ pc' = [pc EXCEPT !["bench"] = "init", !["parent"] = "benchmp", !["helper"] = "check"]
        /\ mem' \in {[mem EXCEPT !.kind = "tcp", !.first = f] : f \in BOOLEAN}
     \/ /\ mem.faults > 0 /\ mem' = [mem EXCEPT !.faults = @ - 1]
        /\ pc' = [pc EXCEPT !["bench"] = "ended"]

ServerThere == pc["helper"] \notin Dead \cup {"none"}

(* initialize(): open the file or connect to the server, which the queue of its socket   *)
(* answers; then copy the descriptor and close the original.  One failure is exit(1).     *)
SelectInitialize ==
  /\ program = "lat_select" /\ UNCHANGED program
  /\ \/ /\ pc["bench"] = "init" /\ (mem.kind = "tcp" => ServerThere)
        /\ chan' = [chan EXCEPT !.fds = 1, !.conn = IF mem.kind = "tcp" THEN "queued" ELSE @]
        /\ pc' = [pc EXCEPT !["bench"] = "open1"] /\ UNCHANGED mem
     \/ /\ pc["bench"] = "init" /\ mem.kind = "tcp" /\ ~ServerThere
        /\ pc' = BenchEnds(pc) /\ UNCHANGED <<mem, chan>>
     \/ /\ pc["bench"] = "open1"
        /\ chan' = [chan EXCEPT !.fds = Descriptors]
        /\ pc' = [pc EXCEPT !["bench"] = AfterInitialize]
        /\ mem' = [mem EXCEPT !.cookie = Cookie]
     \/ /\ pc["bench"] \in {"init", "open1"} /\ mem.faults > 0
        /\ mem' = [mem EXCEPT !.faults = @ - 1]
        /\ pc' = BenchEnds(pc) /\ chan' = [chan EXCEPT !.fds = 0]

SelectDoit ==
  /\ At("lat_select", "bench", "run") /\ UNCHANGED <<program, chan>>
  /\ IF mem.left = 0 THEN pc' = [pc EXCEPT !["bench"] = "interval"] /\ UNCHANGED mem
     ELSE mem' = [mem EXCEPT !.left = 0] /\ UNCHANGED pc

(* Whichever descriptors cleanup() closes, those that are left go with the process.        *)
SelectCleanup ==
  /\ At("lat_select", "bench", "cleanup")
  /\ chan' = [chan EXCEPT !.fds = 0] /\ pc' = BenchEnds(pc) /\ UNCHANGED <<program, mem>>

(* The server looks for its parent only between two connections.                            *)
SelectServer ==
  /\ program = "lat_select" /\ UNCHANGED <<program, mem>>
  /\ \/ /\ pc["helper"] = "check"
        /\ pc' = [pc EXCEPT !["helper"] =
                    IF pc["parent"] = "benchmp" THEN "accept" ELSE "gone"]
        /\ UNCHANGED chan
     \/ /\ pc["helper"] = "accept" /\ chan.conn = "queued"
        /\ chan' = [chan EXCEPT !.conn = "open"] /\ pc' = [pc EXCEPT !["helper"] = "read"]
     \/ /\ pc["helper"] = "read" /\ chan.fds = 0
        /\ chan' = [chan EXCEPT !.conn = "none"] /\ pc' = [pc EXCEPT !["helper"] = "check"]

(* benchmp() has returned; for a file there is nobody to kill.                                *)
SelectParent ==
  /\ At("lat_select", "parent", "benchmp") /\ pc["bench"] = "ended"
  /\ pc' = [pc EXCEPT !["parent"] = "ended", !["helper"] = IF mem.kind = "tcp" THEN "gone" ELSE @]
  /\ UNCHANGED <<program, mem, chan>>

(* Somebody kills the server, or the parent: the child sees the end of its pipes then.        *)
SelectKill ==
  /\ program = "lat_select" /\ mem.faults > 0 /\ pc["parent"] = "benchmp"
  /\ \/ ServerThere /\ pc' = [pc EXCEPT !["helper"] = "zombie"]
     \/ pc' = [pc EXCEPT !["parent"] = "ended"]
  /\ mem' = [mem EXCEPT !.faults = @ - 1] /\ UNCHANGED <<program, chan>>

LockBench ==
  \/ FcntlMain \/ FcntlInitialize \/ ProcA \/ FcntlCleanup
  \/ SelectMain \/ SelectInitialize \/ SelectDoit \/ SelectCleanup
  \/ Interval
LockHelper == ProcB \/ SelectServer
LockParent == SelectParent

LockNext ==
  /\ program \in LockNames
  /\ LockBench \/ LockHelper \/ LockParent \/ Sigterm \/ FcntlKill \/ SelectKill
=============================================================================
