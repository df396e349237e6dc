----------------------------- MODULE SuiteProof -----------------------------
(***************************************************************************)
(* Proofs about the programs of the suite, for any number of intervals,     *)
(* iterations and faults: what one interval leaves to the next, and that    *)
(* what was proved of a group of programs alone holds of the suite.         *)
(***************************************************************************)
EXTENDS Suite, ServersProof, FiniteSetTheorems

-----------------------------------------------------------------------------
(* lat_ctx: the ring alone, for every size of it, any number of intervals    *)
(* and iterations, and any number of signals and dead daemons.               *)
RingSpec == RingInit /\ [][RingNext]_childvars

bench == pc["bench"]

Fields == {"left", "rounds", "cookie", "sigchld", "flag", "first", "pid", "faults",
           "killed", "procs", "phase", "next"}

(* The fields of the three records and the values that actions test.         *)
Records ==
  /\ program = "lat_ctx"
  /\ DOMAIN pc = {"bench"}
  /\ DOMAIN mem = Fields
  /\ DOMAIN chan = {"pipe", "daemon", "open"}
  /\ mem.procs \in Nat \ {0}
  /\ mem.next \in Nat \ {0}
  /\ mem.phase \in {"overhead", "ring"}
  /\ mem.cookie \in {"own", "other"}

(* The pipes and daemons are those of procs processes, or not there yet.      *)
Shaped ==
  /\ \/ DOMAIN chan.pipe = {} /\ DOMAIN chan.daemon = {}
     \/ DOMAIN chan.pipe = 0 .. (mem.procs - 1) /\ DOMAIN chan.daemon = 1 .. (mem.procs - 1)
  /\ bench \notin {"main", "usage", "init", "ended"} => DOMAIN chan.pipe # {}
  /\ \A j \in DOMAIN chan.pipe : chan.pipe[j] \in {0, 1}

(* Where the benchmark stands: only the ring is forked and shaken hands with,  *)
(* and the harness's state reaches cleanup() only.                              *)
Stages ==
  /\ bench \in {"main", "usage"} => mem.phase = "overhead" /\ DOMAIN chan.pipe = {}
  /\ bench \in {"fork", "shake", "shaken", "reply"} => mem.phase = "ring"
  /\ mem.cookie = "other" => bench \in {"cleanup", "ended"}

(* Before the daemons are forked nothing is in the pipes, nobody reads them.   *)
Idle ==
  mem.phase = "overhead" \/ bench = "init" =>
    /\ \A j \in DOMAIN chan.pipe : chan.pipe[j] = 0
    /\ \A i \in DOMAIN chan.daemon : chan.daemon[i] = "none"

(* The message is in one pipe or in the hands of one daemon.                    *)
Single ==
  /\ \A i, k \in DOMAIN chan.daemon :
       chan.daemon[i] = "write" /\ chan.daemon[k] = "write" => i = k
  /\ \A j, k \in DOMAIN chan.pipe : chan.pipe[j] = 1 /\ chan.pipe[k] = 1 => j = k
  /\ \A i \in DOMAIN chan.daemon, j \in DOMAIN chan.pipe :
       ~ (chan.daemon[i] = "write" /\ chan.pipe[j] = 1)

(* There is none unless the benchmark waits for it or no longer cares.           *)
Waiting == {"reply", "shaken", "cleanup", "reap", "ended"}
Quiet ==
  bench \notin Waiting =>
    /\ \A j \in DOMAIN chan.pipe : chan.pipe[j] = 0
    /\ \A i \in DOMAIN chan.daemon : chan.daemon[i] # "write"

RingInv == Records /\ Shaped /\ Stages /\ Idle /\ Single /\ Quiet

USE DEF bench

(* The fields of a fresh benchmark process.                                      *)
LEMMA FreshChild ==
  ASSUME NEW n, NEW phase
  PROVE  /\ DOMAIN RingChild(n, phase) = Fields
         /\ RingChild(n, phase).procs = n
         /\ RingChild(n, phase).phase = phase
         /\ RingChild(n, phase).next = 1
         /\ RingChild(n, phase).cookie = "own"
BY DEF RingChild, ChildInit, Fields

LEMMA InitInv == RingInit => RingInv
<1> SUFFICES ASSUME RingInit PROVE RingInv OBVIOUS
<1>1. Records
  <2>1. mem = RingChild(1, "overhead") BY DEF RingInit
  <2>2. DOMAIN mem = Fields /\ mem.procs = 1 /\ mem.phase = "overhead" /\ mem.next = 1
          /\ mem.cookie = "own"
    BY <2>1, FreshChild
  <2>3. DOMAIN pc = {"bench"} /\ DOMAIN chan = {"pipe", "daemon", "open"} BY DEF RingInit
  <2> QED BY <2>2, <2>3 DEF RingInit, Records
<1>2. chan.pipe = <<>> /\ chan.daemon = <<>> /\ pc["bench"] = "main" BY DEF RingInit
<1>3. DOMAIN chan.pipe = {} /\ DOMAIN chan.daemon = {} BY <1>2
<1>4. mem.phase = "overhead" /\ mem.cookie = "own" BY FreshChild DEF RingInit
<1> QED BY <1>1, <1>2, <1>3, <1>4 DEF RingInv, Shaped, Stages, Idle, Single, Quiet

(* main(): the first call starts with the pipes not made, the second with them     *)
(* empty.                                                                           *)
LEMMA RingMainStep ==
  ASSUME RingInv, CtxMain
  PROVE  RingInv'
<1> USE RingAssumption, FreshChild DEF RingInv
<1>1. CASE \E n \in 1..MaxProcs : Call("lat_ctx", RingChild(n, "overhead"))
  <2>1. PICK n \in 1..MaxProcs : Call("lat_ctx", RingChild(n, "overhead")) BY <1>1
  <2>2. /\ program' = program /\ chan' = chan
        /\ pc["bench"] = "main" /\ DOMAIN pc' = {"bench"}
        /\ pc'["bench"] \in {"usage", "init"}
    BY <2>1 DEF Call, At, Records
  <2>3. /\ DOMAIN mem' = Fields /\ mem'.procs \in Nat \ {0} /\ mem'.next \in Nat \ {0}
        /\ mem'.phase = "overhead" /\ mem'.cookie = "own"
    BY <2>1, <2>2 DEF Call, Records, Stages, Fields
  <2>4. Records' BY <2>2, <2>3 DEF Records
  <2>5. Shaped'
    <3>1. 0 \in 0 .. (mem.procs - 1) BY DEF Records
    <3>2. DOMAIN chan.pipe = {} BY <2>2 DEF Stages
    <3>3. DOMAIN chan.daemon = {} BY <3>1, <3>2 DEF Shaped
    <3> QED BY <2>2, <3>2, <3>3 DEF Shaped
  <2>6. Stages' BY <2>2, <2>3 DEF Stages
  <2>7. Idle' /\ Single' /\ Quiet' BY <2>2 DEF Idle, Single, Quiet, Stages
  <2> QED BY <2>4, <2>5, <2>6, <2>7
<1>2. CASE /\ At("lat_ctx", "bench", "ended") /\ mem.phase = "overhead"
           /\ pc' = [pc EXCEPT !["bench"] = "init"]
           /\ mem' = [RingChild(Procs, "ring") EXCEPT !.faults = mem.faults, !.first = FALSE]
           /\ UNCHANGED <<program, chan>>
  <2>1. /\ DOMAIN mem' = Fields /\ mem'.procs = mem.procs /\ mem'.next = 1
        /\ mem'.phase = "ring" /\ mem'.cookie = "own"
    BY <1>2 DEF Procs, Fields
  <2>2. pc'["bench"] = "init" /\ DOMAIN pc' = {"bench"} BY <1>2 DEF Records
  <2>3. Records' /\ Stages' BY <1>2, <2>1, <2>2 DEF Records, Stages
  <2>4. Shaped' BY <1>2, <2>1, <2>2 DEF Shaped
  <2>5. Idle' /\ Single' /\ Quiet' BY <1>2, <2>1, <2>2 DEF Idle, Single, Quiet
  <2> QED BY <2>3, <2>4, <2>5
<1> QED BY <1>1, <1>2 DEF CtxMain

(* create_pipes(): new pipes, all empty; the ring's daemons are still to be forked. *)
LEMMA CreatePipesStep ==
  ASSUME RingInv, CreatePipes
  PROVE  RingInv'
<1> USE DEF RingInv
<1>1. CASE /\ chan' = [pipe |-> [i \in 0..(Procs - 1) |-> 0],
                       daemon |-> [i \in Daemons |-> "none"], open |-> TRUE]
           /\ pc' = [pc EXCEPT !["bench"] =
                       IF mem.phase = "overhead" THEN AfterInitialize ELSE "fork"]
           /\ mem' = [mem EXCEPT !.cookie = IF mem.phase = "overhead" THEN Cookie ELSE @]
  <2>1. /\ program' = program /\ pc["bench"] = "init" BY DEF CreatePipes, At
  <2>2. /\ DOMAIN mem' = Fields /\ mem'.procs = mem.procs /\ mem'.next = mem.next
        /\ mem'.phase = mem.phase
        /\ mem'.cookie = IF mem.phase = "overhead" THEN Cookie ELSE mem.cookie
    BY <1>1 DEF Records, Fields
  <2>3. /\ DOMAIN pc' = {"bench"}
        /\ pc'["bench"] = IF mem.phase = "overhead" THEN AfterInitialize ELSE "fork"
    BY <1>1 DEF Records
  <2>4. /\ DOMAIN chan' = {"pipe", "daemon", "open"}
        /\ DOMAIN chan'.pipe = 0..(mem.procs - 1) /\ DOMAIN chan'.daemon = 1..(mem.procs - 1)
        /\ \A j \in DOMAIN chan'.pipe : chan'.pipe[j] = 0
        /\ \A i \in DOMAIN chan'.daemon : chan'.daemon[i] = "none"
    BY <1>1 DEF Procs, Daemons
  <2>5. mem.cookie = "own" BY <2>1 DEF Records, Stages
  <2>6. Records' BY <2>1, <2>2, <2>3, <2>4 DEF Records, Cookie
  <2>7. Shaped'
    <3>1. 0 \in 0..(mem.procs - 1) BY DEF Records
    <3> QED BY <3>1, <2>2, <2>4 DEF Shaped
  <2>8. Stages' BY <2>2, <2>3, <2>5 DEF Stages, Records, AfterInitialize, Cookie
  <2>9. Idle' /\ Single' /\ Quiet' BY <2>4 DEF Idle, Single, Quiet
  <2> QED BY <2>6, <2>7, <2>8, <2>9
<1>2. CASE /\ mem' = [mem EXCEPT !.faults = @ - 1]
           /\ pc' = [pc EXCEPT !["bench"] = "ended"] /\ UNCHANGED chan
  <2>1. /\ DOMAIN mem' = Fields /\ mem'.procs = mem.procs /\ mem'.next = mem.next
        /\ mem'.phase = mem.phase /\ mem'.cookie = mem.cookie
    BY <1>2 DEF Records, Fields
  <2>2. DOMAIN pc' = {"bench"} /\ pc'["bench"] = "ended" /\ chan' = chan BY <1>2 DEF Records
  <2>3. program' = program /\ pc["bench"] = "init" BY DEF CreatePipes, At
  <2>4. Records' /\ Stages' BY <2>1, <2>2, <2>3 DEF Records, Stages
  <2>5. Shaped' BY <2>1, <2>2 DEF Shaped
  <2>6. Idle' /\ Single' /\ Quiet' BY <2>1, <2>2, <2>3 DEF Idle, Single, Quiet, Waiting
  <2> QED BY <2>4, <2>5, <2>6
<1> QED BY <1>1, <1>2 DEF CreatePipes

(* What nearly all steps leave alone.                                                *)
Kept ==
  /\ program' = program
  /\ DOMAIN pc' = {"bench"}
  /\ DOMAIN mem' = Fields /\ DOMAIN chan' = {"pipe", "daemon", "open"}
  /\ mem'.procs = mem.procs /\ mem'.phase = mem.phase
  /\ mem'.next \in Nat \ {0} /\ mem'.cookie \in {"own", "other"}
  /\ DOMAIN chan'.pipe = DOMAIN chan.pipe /\ DOMAIN chan'.daemon = DOMAIN chan.daemon

Live == bench \notin {"main", "usage", "init", "ended"}

(* A step that moves no message: no pipe changes and no daemon takes one.            *)
LEMMA NothingMoves ==
  ASSUME RingInv, Kept, Stages',
         chan'.pipe = chan.pipe,
         \A i \in DOMAIN chan.daemon :
           chan'.daemon[i] = "write" => chan.daemon[i] = "write",
         mem.phase = "overhead" \/ bench = "init" =>
           \A i \in DOMAIN chan.daemon : chan'.daemon[i] = "none",
         bench' = "init" => bench = "init",
         Live' => Live,
         bench' \in Waiting \/ bench \notin Waiting
  PROVE  RingInv'
<1> USE DEF RingInv, Kept
<1>1. Records' BY DEF Records
<1>2. Shaped' BY DEF Shaped, Live
<1>3. Idle' BY DEF Idle
<1>4. Single' BY DEF Single
<1>5. Quiet' BY DEF Quiet
<1> QED BY <1>1, <1>2, <1>3, <1>4, <1>5

(* The benchmark writes the message: there was none.                                  *)
LEMMA TokenIn ==
  ASSUME RingInv, bench \in {"shake", "run"}, mem.phase = "ring",
         UNCHANGED <<program, mem>>,
         chan' = [chan EXCEPT !.pipe[0] = @ + 1],
         \E label \in {"shaken", "reply"} : pc' = [pc EXCEPT !["bench"] = label]
  PROVE  RingInv'
<1> USE DEF RingInv
<1>1. /\ bench' \in {"shaken", "reply"} /\ DOMAIN pc' = {"bench"} BY DEF Records
<1>2. /\ DOMAIN chan.pipe = 0 .. (mem.procs - 1) /\ DOMAIN chan.daemon = 1 .. (mem.procs - 1)
      /\ 0 \in DOMAIN chan.pipe
  BY DEF Shaped, Records
<1>3. /\ DOMAIN chan' = {"pipe", "daemon", "open"} /\ chan'.daemon = chan.daemon
      /\ chan'.pipe = [chan.pipe EXCEPT ![0] = @ + 1]
  BY DEF Records
<1>4. /\ \A j \in DOMAIN chan.pipe : chan.pipe[j] = 0
      /\ \A i \in DOMAIN chan.daemon : chan.daemon[i] # "write"
  BY DEF Quiet, Waiting
<1>5. /\ DOMAIN chan'.pipe = DOMAIN chan.pipe
      /\ \A j \in DOMAIN chan.pipe : chan'.pipe[j] = IF j = 0 THEN 1 ELSE 0
  <2>1. DOMAIN chan'.pipe = DOMAIN chan.pipe BY <1>3
  <2>2. ASSUME NEW j \in DOMAIN chan.pipe
        PROVE  chan'.pipe[j] = IF j = 0 THEN 1 ELSE 0
    <3>1. CASE j = 0
      <4>1. chan'.pipe[0] = chan.pipe[0] + 1 BY <1>2, <1>3
      <4>2. chan.pipe[0] = 0 BY <1>2, <1>4
      <4> QED BY <3>1, <4>1, <4>2
    <3>2. CASE j # 0 BY <3>2, <1>2, <1>3, <1>4
    <3> QED BY <3>1, <3>2
  <2> QED BY <2>1, <2>2
<1>6. Records' BY <1>1, <1>3 DEF Records
<1>7. Shaped' BY <1>2, <1>3, <1>5 DEF Shaped
<1>8. Stages' /\ Idle' BY <1>1 DEF Stages, Idle
<1>9. Single' BY <1>3, <1>4, <1>5 DEF Single
<1>10. Quiet' BY <1>1 DEF Quiet, Waiting
<1> QED BY <1>6, <1>7, <1>8, <1>9, <1>10

(* The benchmark reads the message: there is none afterwards.                          *)
LEMMA TokenOut ==
  ASSUME RingInv, bench \in {"shaken", "reply"},
         chan.pipe[Procs - 1] > 0,
         chan' = [chan EXCEPT !.pipe[Procs - 1] = @ - 1],
         Kept, Stages', bench' \notin {"main", "usage", "init", "fork"}
  PROVE  RingInv'
<1> USE DEF RingInv, Kept
<1>1. mem.procs - 1 \in DOMAIN chan.pipe BY DEF Shaped, Records
<1>2. chan'.daemon = chan.daemon /\ chan'.pipe = [chan.pipe EXCEPT ![mem.procs - 1] = @ - 1]
  BY DEF Records, Procs
<1>3. chan.pipe[mem.procs - 1] = 1 BY <1>1 DEF Shaped, Procs
<1>4. /\ \A j \in DOMAIN chan.pipe : chan'.pipe[j] = 0
      /\ \A i \in DOMAIN chan.daemon : chan.daemon[i] # "write"
  <2>1. \A j \in DOMAIN chan.pipe : j # mem.procs - 1 => chan.pipe[j] = 0
    BY <1>1, <1>3 DEF Single, Shaped
  <2>2. \A i \in DOMAIN chan.daemon : chan.daemon[i] # "write" BY <1>1, <1>3 DEF Single
  <2> QED BY <2>1, <2>2, <1>1, <1>2, <1>3
<1>5. Records' BY DEF Records
<1>6. Shaped' BY <1>1, <1>2, <1>4 DEF Shaped
<1>7. Idle' BY <1>2, <1>4 DEF Idle, Stages
<1>8. Single' /\ Quiet' BY <1>2, <1>4 DEF Single, Quiet
<1> QED BY <1>5, <1>6, <1>7, <1>8

(* A daemon reads the message or writes it.                                             *)
LEMMA DaemonPasses ==
  ASSUME RingInv, NEW i \in DOMAIN chan.daemon, UNCHANGED <<program, pc, mem>>,
         \/ /\ chan.daemon[i] = "read" /\ chan.pipe[i - 1] > 0
            /\ chan' = [chan EXCEPT !.pipe[i - 1] = @ - 1, !.daemon[i] = "write"]
         \/ /\ chan.daemon[i] = "write"
            /\ chan' = [chan EXCEPT !.pipe[i] = @ + 1, !.daemon[i] = "read"]
  PROVE  RingInv'
<1> USE DEF RingInv
<1>1. /\ DOMAIN chan.pipe = 0 .. (mem.procs - 1) /\ DOMAIN chan.daemon = 1 .. (mem.procs - 1)
      /\ i \in DOMAIN chan.pipe /\ i - 1 \in DOMAIN chan.pipe
  BY DEF Shaped, Records
<1>2. mem.phase # "overhead" /\ bench # "init" /\ chan.daemon[i] # "none" BY DEF Idle
<1>3. CASE /\ chan.daemon[i] = "read" /\ chan.pipe[i - 1] > 0
           /\ chan' = [chan EXCEPT !.pipe[i - 1] = @ - 1, !.daemon[i] = "write"]
  <2>1. /\ DOMAIN chan' = {"pipe", "daemon", "open"}
        /\ chan'.pipe = [chan.pipe EXCEPT ![i - 1] = @ - 1]
        /\ chan'.daemon = [chan.daemon EXCEPT ![i] = "write"]
    BY <1>3 DEF Records
  <2>2. chan.pipe[i - 1] = 1 BY <1>1, <1>3 DEF Shaped
  <2>3. bench \in Waiting BY <1>1, <2>2 DEF Quiet
  <2>4. /\ \A j \in DOMAIN chan.pipe : j # i - 1 => chan.pipe[j] = 0
        /\ \A k \in DOMAIN chan.daemon : chan.daemon[k] # "write"
    BY <1>1, <2>2 DEF Single, Shaped
  <2>5. ASSUME NEW j \in DOMAIN chan.pipe PROVE chan'.pipe[j] = 0
    <3>1. CASE j = i - 1
      <4>1. chan'.pipe[i - 1] = chan.pipe[i - 1] - 1 BY <1>1, <2>1
      <4> QED BY <3>1, <4>1, <2>2
    <3>2. CASE j # i - 1 BY <3>2, <2>1, <2>4
    <3> QED BY <3>1, <3>2
  <2>6. \A k \in DOMAIN chan.daemon : chan'.daemon[k] = "write" => k = i BY <2>1, <2>4
  <2>7. DOMAIN chan'.pipe = DOMAIN chan.pipe /\ DOMAIN chan'.daemon = DOMAIN chan.daemon
    BY <2>1
  <2>8. Records' BY <2>1 DEF Records
  <2>9. Shaped' BY <2>5, <2>7 DEF Shaped
  <2>10. Stages' /\ Idle' BY <1>2, <2>7 DEF Stages, Idle
  <2>11. Single' BY <2>5, <2>6, <2>7 DEF Single
  <2>12. Quiet' BY <2>3 DEF Quiet
  <2> QED BY <2>8, <2>9, <2>10, <2>11, <2>12
<1>4. CASE /\ chan.daemon[i] = "write"
           /\ chan' = [chan EXCEPT !.pipe[i] = @ + 1, !.daemon[i] = "read"]
  <2>1. /\ DOMAIN chan' = {"pipe", "daemon", "open"}
        /\ chan'.pipe = [chan.pipe EXCEPT ![i] = @ + 1]
        /\ chan'.daemon = [chan.daemon EXCEPT ![i] = "read"]
    BY <1>4 DEF Records
  <2>2. bench \in Waiting BY <1>4 DEF Quiet
  <2>3. /\ \A j \in DOMAIN chan.pipe : chan.pipe[j] = 0
        /\ \A k \in DOMAIN chan.daemon : chan.daemon[k] = "write" => k = i
    BY <1>4 DEF Single, Shaped
  <2>4. DOMAIN chan'.pipe = DOMAIN chan.pipe /\ DOMAIN chan'.daemon = DOMAIN chan.daemon
    BY <2>1
  <2>5. ASSUME NEW j \in DOMAIN chan.pipe
        PROVE  chan'.pipe[j] = IF j = i THEN 1 ELSE 0
    <3>1. CASE j = i
      <4>1. chan'.pipe[i] = chan.pipe[i] + 1 BY <1>1, <2>1
      <4>2. chan.pipe[i] = 0 BY <1>1, <2>3
      <4> QED BY <3>1, <4>1, <4>2
    <3>2. CASE j # i BY <3>2, <1>1, <2>1, <2>3
    <3> QED BY <3>1, <3>2
  <2>6. \A k \in DOMAIN chan.daemon : chan'.daemon[k] # "write" BY <2>1, <2>3
  <2>7. Records' BY <2>1 DEF Records
  <2>8. Shaped' BY <2>4, <2>5 DEF Shaped
  <2>9. Stages' /\ Idle' BY <1>2, <2>4 DEF Stages, Idle
  <2>10. Single' BY <2>4, <2>5, <2>6 DEF Single
  <2>11. Quiet' BY <2>2 DEF Quiet
  <2> QED BY <2>7, <2>8, <2>9, <2>10, <2>11
<1> QED BY <1>3, <1>4

(* A daemon dies: benchmp_child_sigchld(), where it is installed, ends the benchmark.     *)
LEMMA DaemonDies ==
  ASSUME RingInv, NEW i \in DOMAIN chan.daemon, Alive(i), program' = program,
         chan' = [chan EXCEPT !.daemon[i] = IF bench = "ended" THEN "gone" ELSE "zombie"],
         pc' = [pc EXCEPT !["bench"] = IF Notices THEN "cleanup" ELSE @],
         \/ mem' = MemAfterChild
         \/ mem' = [MemAfterChild EXCEPT !.faults = @ - 1]
  PROVE  RingInv'
<1> USE DEF RingInv
<1>1. mem.phase # "overhead" /\ bench # "init" BY DEF Idle, Alive
<1>2. /\ chan'.pipe = chan.pipe /\ DOMAIN chan' = {"pipe", "daemon", "open"}
      /\ DOMAIN chan'.daemon = DOMAIN chan.daemon
      /\ \A k \in DOMAIN chan.daemon :
           chan'.daemon[k] = "write" => chan.daemon[k] = "write"
  BY DEF Records
<1>3. /\ DOMAIN mem' = Fields
      /\ mem'.procs = mem.procs /\ mem'.phase = mem.phase /\ mem'.next = mem.next
      /\ mem'.cookie = IF Notices THEN "other" ELSE mem.cookie
  BY DEF MemAfterChild, Records, Fields
<1>4. DOMAIN pc' = {"bench"} /\ bench' = IF Notices THEN "cleanup" ELSE bench BY DEF Records
<1>5. Kept BY <1>2, <1>3, <1>4 DEF Kept, Records
<1>6. Stages' BY <1>1, <1>2, <1>3, <1>4 DEF Stages
<1>7. bench' \in Waiting \/ bench \notin Waiting BY <1>4 DEF Waiting
<1>8. bench' = "init" => bench = "init" BY <1>4
<1>9. Live' => Live
  <2>1. Notices => bench # "ended" BY DEF Notices
  <2>2. bench \notin {"main", "usage"}
    <3>1. bench # "main" BY <1>1 DEF Stages
    <3>2. bench # "usage" BY <1>1 DEF Stages
    <3> QED BY <3>1, <3>2
  <2> QED BY <1>1, <1>4, <2>1, <2>2 DEF Live
<1> QED BY <1>1, <1>2, <1>5, <1>6, <1>7, <1>8, <1>9, NothingMoves

(* The steps of the benchmark, of its parent and of the daemons.                         *)
LEMMA BenchStep ==
  ASSUME RingInv, RingBench
  PROVE  RingInv'
<1> USE DEF RingInv
<1>1. CASE CtxMain BY <1>1, RingMainStep
<1>2. CASE CreatePipes BY <1>2, CreatePipesStep
<1>3. CASE CtxInitialize
  <2>1. /\ bench = "fork" /\ bench' = "shake" /\ DOMAIN pc' = {"bench"}
        /\ UNCHANGED <<program, mem, chan>>
    BY <1>3 DEF CtxInitialize, At, Records
  <2>2. Kept /\ Stages' BY <2>1 DEF Kept, Records, Stages
  <2> QED BY <2>1, <2>2, NothingMoves DEF Live, Waiting, Idle
<1>4. CASE CreateDaemons
  <2>1. CASE /\ At("lat_ctx", "bench", "fork") /\ mem.next < Procs
             /\ chan' = [chan EXCEPT !.daemon[mem.next] = "read"]
             /\ mem' = [mem EXCEPT !.next = @ + 1] /\ UNCHANGED <<program, pc>>
    <3>1. /\ bench = "fork" /\ mem.phase = "ring" BY <2>1 DEF At, Stages
    <3>2. /\ chan'.pipe = chan.pipe /\ DOMAIN chan' = {"pipe", "daemon", "open"}
          /\ DOMAIN chan'.daemon = DOMAIN chan.daemon
          /\ \A i \in DOMAIN chan.daemon :
               chan'.daemon[i] = "write" => chan.daemon[i] = "write"
      BY <2>1 DEF Records
    <3>3. /\ DOMAIN mem' = Fields /\ mem'.procs = mem.procs /\ mem'.phase = mem.phase
          /\ mem'.cookie = mem.cookie /\ mem'.next = mem.next + 1
      BY <2>1 DEF Records, Fields
    <3>4. Kept /\ Stages' BY <2>1, <3>1, <3>2, <3>3 DEF Kept, Records, Stages
    <3> QED BY <2>1, <3>1, <3>2, <3>4, NothingMoves DEF Live
  <2>2. CASE /\ At("lat_ctx", "bench", "fork")
             /\ mem' = [mem EXCEPT !.faults = @ - 1, !.next = 1]
             /\ pc' = [pc EXCEPT !["bench"] = "cleanup"] /\ UNCHANGED <<program, chan>>
    <3>1. bench = "fork" /\ bench' = "cleanup" /\ DOMAIN pc' = {"bench"}
      BY <2>2 DEF At, Records
    <3>2. /\ DOMAIN mem' = Fields /\ mem'.procs = mem.procs /\ mem'.phase = mem.phase
          /\ mem'.cookie = mem.cookie /\ mem'.next = 1
      BY <2>2 DEF Records, Fields
    <3>3. Kept /\ Stages' BY <2>2, <3>1, <3>2 DEF Kept, Records, Stages
    <3> QED BY <2>2, <3>1, <3>3, NothingMoves DEF Live, Waiting, Idle
  <2>3. CASE /\ At("lat_ctx", "bench", "shake")
             /\ chan' = [chan EXCEPT !.pipe[0] = @ + 1]
             /\ pc' = [pc EXCEPT !["bench"] = "shaken"]
             /\ UNCHANGED <<program, mem>>
    BY <2>3, TokenIn DEF At, Stages
  <2>4. CASE /\ At("lat_ctx", "bench", "shaken") /\ chan.pipe[Procs - 1] > 0
             /\ chan' = [chan EXCEPT !.pipe[Procs - 1] = @ - 1]
             /\ pc' = [pc EXCEPT !["bench"] = AfterInitialize]
             /\ mem' = [mem EXCEPT !.cookie = Cookie]
             /\ UNCHANGED program
    <3>1. /\ bench = "shaken" /\ bench' = AfterInitialize /\ DOMAIN pc' = {"bench"}
      BY <2>4 DEF At, Records
    <3>2. /\ DOMAIN mem' = Fields /\ mem'.procs = mem.procs /\ mem'.phase = mem.phase
          /\ mem'.cookie = Cookie /\ mem'.next = mem.next
      BY <2>4 DEF Records, Fields
    <3>3. /\ DOMAIN chan' = {"pipe", "daemon", "open"}
          /\ DOMAIN chan'.pipe = DOMAIN chan.pipe /\ chan'.daemon = chan.daemon
      BY <2>4 DEF Records
    <3>4. bench' \in {"cleanup", "interval"} /\ (Cookie = "other" => bench' = "cleanup")
      BY <3>1 DEF AfterInitialize, Cookie
    <3>5. Kept BY <2>4, <3>1, <3>2, <3>3 DEF Kept, Records, Cookie
    <3>6. Stages' BY <3>2, <3>4 DEF Stages
    <3> QED BY <2>4, <3>1, <3>4, <3>5, <3>6, TokenOut
  <2> QED BY <1>4, <2>1, <2>2, <2>3, <2>4 DEF CreateDaemons
<1>5. CASE BenchmarkOverhead
  <2>1. /\ bench = "run" /\ bench' \in {"run", "interval"} /\ DOMAIN pc' = {"bench"}
        /\ UNCHANGED <<program, chan>>
    BY <1>5 DEF BenchmarkOverhead, At, Records
  <2>2. /\ DOMAIN mem' = Fields /\ mem'.procs = mem.procs /\ mem'.phase = mem.phase
        /\ mem'.cookie = mem.cookie /\ mem'.next = mem.next
    BY <1>5 DEF BenchmarkOverhead, Records, Fields
  <2>3. Kept /\ Stages' BY <2>1, <2>2 DEF Kept, Records, Stages
  <2> QED BY <2>1, <2>3, NothingMoves DEF Live, Waiting, Idle
<1>6. CASE CtxBenchmark
  <2>1. CASE /\ bench = "run" /\ pc' = [pc EXCEPT !["bench"] = "interval"]
             /\ UNCHANGED <<program, mem, chan>>
    <3>1. bench' = "interval" /\ DOMAIN pc' = {"bench"} BY <2>1 DEF Records
    <3>2. Kept /\ Stages' BY <2>1, <3>1 DEF Kept, Records, Stages
    <3> QED BY <2>1, <3>1, <3>2, NothingMoves DEF Live, Waiting, Idle
  <2>2. CASE /\ bench = "run" /\ mem.phase = "ring"
             /\ chan' = [chan EXCEPT !.pipe[0] = @ + 1]
             /\ pc' = [pc EXCEPT !["bench"] = "reply"] /\ UNCHANGED <<program, mem>>
    BY <2>2, TokenIn
  <2>3. CASE /\ bench = "reply" /\ chan.pipe[Procs - 1] > 0
             /\ chan' = [chan EXCEPT !.pipe[Procs - 1] = @ - 1]
             /\ mem' = [mem EXCEPT !.left = @ - 1]
             /\ pc' = [pc EXCEPT !["bench"] = "run"] /\ UNCHANGED program
    <3>1. bench' = "run" /\ DOMAIN pc' = {"bench"} BY <2>3 DEF Records
    <3>2. /\ DOMAIN mem' = Fields /\ mem'.procs = mem.procs /\ mem'.phase = mem.phase
          /\ mem'.cookie = mem.cookie /\ mem'.next = mem.next
      BY <2>3 DEF Records, Fields
    <3>3. /\ DOMAIN chan' = {"pipe", "daemon", "open"}
          /\ DOMAIN chan'.pipe = DOMAIN chan.pipe /\ chan'.daemon = chan.daemon
      BY <2>3 DEF Records
    <3>4. Kept BY <2>3, <3>1, <3>2, <3>3 DEF Kept, Records
    <3>5. Stages' BY <2>3, <3>1, <3>2 DEF Stages
    <3> QED BY <2>3, <3>1, <3>4, <3>5, TokenOut
  <2> QED BY <1>6, <2>1, <2>2, <2>3 DEF CtxBenchmark
<1>7. CASE CleanupOverhead
  <2>1. /\ bench = "cleanup" /\ mem.cookie = "own" /\ program' = program
        /\ bench' = (IF mem.phase = "overhead" THEN "ended" ELSE "reap")
        /\ DOMAIN pc' = {"bench"}
    BY <1>7 DEF CleanupOverhead, At, Records
  <2>2. /\ DOMAIN mem' = Fields /\ mem'.procs = mem.procs /\ mem'.phase = mem.phase
        /\ mem'.cookie = mem.cookie /\ mem'.next = 1
    BY <1>7 DEF CleanupOverhead, Records, Fields
  <2>3. /\ DOMAIN chan' = {"pipe", "daemon", "open"}
        /\ chan'.pipe = chan.pipe /\ chan'.daemon = chan.daemon
    BY <1>7 DEF CleanupOverhead, Records
  <2>4. Kept /\ Stages' BY <2>1, <2>2, <2>3 DEF Kept, Records, Stages
  <2> QED BY <2>1, <2>3, <2>4, NothingMoves DEF Live, Waiting, Idle
<1>8. CASE CtxCleanup
  <2>1. /\ bench = "reap" /\ bench' \in {"reap", "ended"} /\ program' = program
        /\ DOMAIN pc' = {"bench"}
    BY <1>8 DEF CtxCleanup, At, Records
  <2>2. /\ DOMAIN mem' = Fields /\ mem'.procs = mem.procs /\ mem'.phase = mem.phase
        /\ mem'.cookie = mem.cookie /\ mem'.next \in Nat \ {0}
    BY <1>8 DEF CtxCleanup, Records, Fields
  <2>3. /\ DOMAIN chan' = {"pipe", "daemon", "open"} /\ chan'.pipe = chan.pipe
        /\ DOMAIN chan'.daemon = DOMAIN chan.daemon
        /\ \A i \in DOMAIN chan.daemon : chan'.daemon[i] # chan.daemon[i] =>
             chan'.daemon[i] = "gone" /\ chan.daemon[i] # "none"
    BY <1>8 DEF CtxCleanup, Records
  <2>4. Kept /\ Stages' BY <2>1, <2>2, <2>3 DEF Kept, Records, Stages
  <2>5. \A i \in DOMAIN chan.daemon : chan'.daemon[i] = "write" => chan.daemon[i] = "write"
    BY <2>3
  <2>6. mem.phase = "overhead" \/ bench = "init" =>
          \A i \in DOMAIN chan.daemon : chan'.daemon[i] = "none"
    BY <2>3 DEF Idle
  <2> QED BY <2>1, <2>3, <2>4, <2>5, <2>6, NothingMoves DEF Live, Waiting
<1>9. CASE CtxCleanupCrash
  <2>1. /\ bench = "cleanup" /\ bench' = "ended" /\ UNCHANGED <<program, mem>>
        /\ DOMAIN pc' = {"bench"}
    BY <1>9 DEF CtxCleanupCrash, At, Records
  <2>2. DOMAIN chan.daemon = Daemons BY <2>1 DEF Shaped, Daemons, Procs
  <2>3. /\ DOMAIN chan' = {"pipe", "daemon", "open"} /\ chan'.pipe = chan.pipe
        /\ chan'.daemon = [i \in Daemons |-> IF chan.daemon[i] = "zombie" THEN "gone"
                                             ELSE chan.daemon[i]]
    BY <1>9 DEF CtxCleanupCrash, AllClosed, Records
  <2>4. /\ DOMAIN chan'.daemon = DOMAIN chan.daemon
        /\ \A i \in DOMAIN chan.daemon : chan'.daemon[i] # chan.daemon[i] =>
             chan'.daemon[i] = "gone" /\ chan.daemon[i] # "none"
    BY <2>2, <2>3
  <2>5. Kept /\ Stages' BY <2>1, <2>3, <2>4 DEF Kept, Records, Stages
  <2>6. \A i \in DOMAIN chan.daemon : chan'.daemon[i] = "write" => chan.daemon[i] = "write"
    BY <2>4
  <2>7. mem.phase = "overhead" \/ bench = "init" =>
          \A i \in DOMAIN chan.daemon : chan'.daemon[i] = "none"
    BY <2>4 DEF Idle
  <2> QED BY <2>1, <2>3, <2>5, <2>6, <2>7, NothingMoves DEF Live, Waiting
<1>10. CASE Interval
  <2>1. /\ bench = "interval" /\ bench' \in {"run", "cleanup"} /\ DOMAIN pc' = {"bench"}
        /\ UNCHANGED <<program, chan>>
    BY <1>10 DEF Interval, Records
  <2>2. /\ DOMAIN mem' = Fields /\ mem'.procs = mem.procs /\ mem'.phase = mem.phase
        /\ mem'.cookie = mem.cookie /\ mem'.next = mem.next
    BY <1>10 DEF Interval, Records, Fields
  <2>3. Kept /\ Stages' BY <2>1, <2>2 DEF Kept, Records, Stages
  <2> QED BY <2>1, <2>3, NothingMoves DEF Live, Waiting, Idle
<1> QED
  BY <1>1, <1>2, <1>3, <1>4, <1>5, <1>6, <1>7, <1>8, <1>9, <1>10 DEF RingBench

LEMMA SigtermStep ==
  ASSUME RingInv, Sigterm
  PROVE  RingInv'
<1> USE DEF RingInv
<1>1. UNCHANGED <<program, chan>> /\ bench \notin {"main", "usage", "ended"}
      /\ mem.cookie = "own"
  BY DEF Sigterm
<1>2. CASE bench \in Initializing
  <2>1. bench' = bench /\ pc' = pc /\ mem' = [mem EXCEPT !.flag = TRUE, !.faults = @ - 1]
    BY <1>2 DEF Sigterm
  <2>2. /\ DOMAIN mem' = Fields /\ mem'.procs = mem.procs /\ mem'.phase = mem.phase
        /\ mem'.cookie = mem.cookie /\ mem'.next = mem.next
    BY <2>1 DEF Records, Fields
  <2>3. Kept /\ Stages' BY <1>1, <2>1, <2>2 DEF Kept, Records, Stages
  <2> QED BY <1>1, <2>1, <2>3, NothingMoves DEF Live, Waiting, Idle
<1>3. CASE bench \notin Initializing
  <2>1. /\ bench' = "cleanup" /\ DOMAIN pc' = {"bench"}
        /\ mem' = [mem EXCEPT !.cookie = "other", !.sigchld = "default", !.faults = @ - 1]
    BY <1>3 DEF Sigterm, Records
  <2>2. /\ DOMAIN mem' = Fields /\ mem'.procs = mem.procs /\ mem'.phase = mem.phase
        /\ mem'.cookie = "other" /\ mem'.next = mem.next
    BY <2>1 DEF Records, Fields
  <2>3. bench # "init" BY <1>3 DEF Initializing
  <2>4. Kept /\ Stages' BY <1>1, <2>1, <2>2 DEF Kept, Records, Stages
  <2> QED BY <1>1, <2>1, <2>3, <2>4, NothingMoves DEF Live, Waiting, Idle
<1> QED BY <1>2, <1>3

LEMMA DaemonStep ==
  ASSUME RingInv, NEW i \in DOMAIN chan.daemon, CtxDoit(i) \/ KillDaemon(i)
  PROVE  RingInv'
<1>1. CASE DaemonEnds(i) /\ Alive(i) BY <1>1, DaemonDies DEF DaemonEnds
<1>2. CASE KillDaemon(i) BY <1>2, DaemonDies DEF KillDaemon
<1>3. CASE CtxDoit(i)
  <2>1. CASE DaemonEnds(i) BY <1>1, <1>3, <2>1 DEF CtxDoit, Alive
  <2>2. CASE ~ DaemonEnds(i) BY <1>3, <2>2, DaemonPasses DEF CtxDoit
  <2> QED BY <2>1, <2>2
<1> QED BY <1>2, <1>3

LEMMA RingStep == RingInv /\ [RingNext]_childvars => RingInv'
<1> SUFFICES ASSUME RingInv, [RingNext]_childvars PROVE RingInv' OBVIOUS
<1>1. CASE RingBench BY <1>1, BenchStep
<1>2. CASE Sigterm BY <1>2, SigtermStep
<1>3. CASE \E i \in 1..(MaxProcs - 1) : RingDaemon(i)
  BY <1>3, DaemonStep DEF RingDaemon
<1>4. CASE \E i \in DOMAIN chan.daemon : KillDaemon(i) BY <1>4, DaemonStep
<1>5. CASE UNCHANGED childvars
  BY <1>5 DEF childvars, RingInv, Records, Shaped, Stages, Idle, Single, Quiet
<1> QED BY <1>1, <1>2, <1>3, <1>4, <1>5 DEF RingNext

(* The ring as its steps keep it.                                                          *)
THEOREM RingInvariant == RingSpec => []RingInv
<1> QED BY InitInv, RingStep, PTL DEF RingSpec

LEMMA RingTokens ==
  ASSUME RingInv PROVE OneToken
<1> USE DEF RingInv
<1> SUFFICES ASSUME mem.phase = "ring"
    PROVE /\ \A j \in Filled : chan.pipe[j] = 1
          /\ Cardinality(Carried) + Cardinality(Filled) <=
               (IF bench \in {"reply", "shaken"} \/ mem.cookie = "other"
                   \/ bench \in {"cleanup", "reap", "ended"} THEN 1 ELSE 0)
  BY DEF OneToken
<1>1. \A j \in Filled : chan.pipe[j] = 1 BY DEF Filled, Shaped
<1>2. Carried # {} => \E i : Carried = {i}
  BY DEF Carried, Single
<1>3. Filled # {} => \E j : Filled = {j}
  BY <1>1 DEF Filled, Single
<1>4. Carried = {} \/ Filled = {} BY <1>1 DEF Carried, Filled, Single
<1>5. Cardinality(Carried) + Cardinality(Filled) \in {0, 1}
  <2>1. Cardinality(Carried) \in {0, 1} /\ (Carried = {} => Cardinality(Carried) = 0)
    BY <1>2, FS_EmptySet, FS_Singleton
  <2>2. Cardinality(Filled) \in {0, 1} /\ (Filled = {} => Cardinality(Filled) = 0)
    BY <1>3, FS_EmptySet, FS_Singleton
  <2> QED BY <1>4, <2>1, <2>2
<1>6. ASSUME bench \notin Waiting
      PROVE  Cardinality(Carried) + Cardinality(Filled) = 0
  <2>1. Carried = {} /\ Filled = {} BY <1>6 DEF Quiet, Carried, Filled
  <2> QED BY <2>1, FS_EmptySet
<1> QED BY <1>1, <1>5, <1>6 DEF Waiting

(* An iteration of lat_ctx is one round of one message: at no time are there two in the     *)
(* ring, and there is none while the benchmark neither waits for it nor has given up.        *)
THEOREM RingHasOneToken == RingSpec => []OneToken
<1> QED BY RingInvariant, RingTokens, PTL

-----------------------------------------------------------------------------
(* lat_pipe, lat_fifo, lat_unix, lat_sem.                                   *)
EchoPlaces ==
  {"main", "usage", "init", "open1", "open2", "shake", "shaken", "interval", "run", "reply",
   "cleanup", "waiting", "stuck", "ended"}
EchoShape ==
  /\ DOMAIN pc = {"bench", "helper"} /\ pc["bench"] \in EchoPlaces
  /\ DOMAIN mem = {"left", "rounds", "cookie", "sigchld", "flag", "first", "pid", "faults", "killed"}
  /\ DOMAIN chan = {"to", "from", "opened", "exists"}
  /\ mem.left \in Nat /\ mem.rounds \in Nat /\ chan.to \in Nat /\ chan.from \in Nat

(* There is one message on its way at most, and none when the benchmark does *)
(* not wait for the answer.  After cleanup() has begun nobody waits again.   *)
EchoFlight ==
  program # "lat_sem" =>
    /\ pc["bench"] \in EchoPlaces \ {"shaken", "reply", "cleanup", "waiting", "stuck", "ended"} =>
         chan.to = 0 /\ chan.from = 0 /\ pc["helper"] # "write"
    /\ pc["bench"] \in {"shaken", "reply"} =>
         chan.to + chan.from + (IF pc["helper"] = "write" THEN 1 ELSE 0) <= 1

(* The semaphores hold one unit from the helper's first semop() on.  A helper *)
(* that dies before is noticed, since that is the first interval.             *)
SemUnit ==
  program = "lat_sem" =>
    /\ pc["bench"] \in {"main", "init"} => chan.to = 0 /\ chan.from = 0 /\ pc["helper"] = "none"
    /\ pc["bench"] = "init" => mem.rounds = 0 /\ mem.sigchld = "child" /\ mem.cookie = "own"
    /\ pc["bench"] \in {"interval", "run"} =>
         /\ chan.exists /\ mem.cookie = "own" /\ mem.pid \in {"helper", "failed"}
         /\ mem.rounds <= 1 => mem.sigchld = "child"
         /\ mem.pid = "failed" => chan.to = 0 /\ chan.from = 0 /\ pc["helper"] = "none"
         /\ mem.pid = "helper" =>
              /\ pc["helper"] \in {"post", "loop", "zombie", "gone"}
              /\ IF pc["helper"] = "post" THEN chan.to = 0 /\ chan.from = 0
                 ELSE chan.to + chan.from = 1
              /\ pc["helper"] = "post" =>
                   IF pc["bench"] = "interval" THEN mem.rounds = 0
                   ELSE mem.rounds = 1 /\ mem.left > 0

EchoState == EchoShape /\ EchoFlight /\ SemUnit
EchoInv == program \in EchoNames => EchoState

LEMMA EchoStart == EchoInit => EchoInv
  BY DEF EchoInit, EchoInv, EchoState, EchoShape, EchoPlaces, EchoFlight, SemUnit, ChildInit

(* benchmp()'s part in the benchmark process.                                *)
LEMMA EchoInterval == EchoState /\ Interval => EchoState'
<1> SUFFICES ASSUME EchoState, Interval PROVE EchoState' OBVIOUS
<1>1. /\ program' = program /\ chan' = chan /\ pc["bench"] = "interval"
      /\ DOMAIN pc' = DOMAIN pc /\ pc'["helper"] = pc["helper"]
      /\ DOMAIN mem' = DOMAIN mem /\ mem'.pid = mem.pid /\ mem'.cookie = mem.cookie
  BY DEF Interval, EchoState, EchoShape
<1>2. \/ /\ pc'["bench"] = "run" /\ mem'.left \in 1..BatchSize /\ mem'.rounds = mem.rounds + 1
         /\ mem.rounds = 0 => mem'.sigchld = mem.sigchld
      \/ pc'["bench"] = "cleanup" /\ mem'.left = mem.left /\ mem'.rounds = mem.rounds
  <2>1. CASE pc' = [pc EXCEPT !["bench"] = "run"]
    <3>1. PICK n \in 1..BatchSize :
            mem' = [mem EXCEPT !.left = n, !.rounds = @ + 1,
                      !.sigchld = IF mem.rounds > 0 /\ program \notin NoCleanup
                                  THEN "default" ELSE @]
      BY <2>1 DEF Interval, EchoState, EchoShape
    <3> QED BY <2>1, <3>1 DEF EchoState, EchoShape
  <2>2. CASE pc' = [pc EXCEPT !["bench"] = "cleanup"]
    BY <2>2 DEF Interval, EchoState, EchoShape
  <2> QED BY <2>1, <2>2 DEF Interval
<1>3. mem'.left \in Nat /\ mem'.rounds \in Nat
  BY <1>2, BenchAssumption DEF EchoState, EchoShape
<1>4. EchoShape' BY <1>1, <1>2, <1>3 DEF EchoState, EchoShape, EchoPlaces
<1>5. EchoFlight' BY <1>1, <1>2 DEF EchoState, EchoFlight, EchoPlaces
<1>6. SemUnit'
  <2>1. CASE pc'["bench"] = "run"
    <3>1. /\ mem'.left > 0 /\ mem'.rounds = mem.rounds + 1
          /\ mem'.rounds <= 1 => mem.rounds = 0 /\ mem'.sigchld = mem.sigchld
      BY <1>2, <2>1, BenchAssumption DEF EchoState, EchoShape
    <3> QED BY <1>1, <2>1, <3>1 DEF EchoState, EchoShape, SemUnit
  <2>2. CASE pc'["bench"] = "cleanup" BY <1>1, <2>2 DEF SemUnit
  <2> QED BY <1>2, <2>1, <2>2
<1> QED BY <1>4, <1>5, <1>6 DEF EchoState

LEMMA EchoCall ==
  ASSUME EchoState, NEW p, Call(p, ChildInit) PROVE EchoState'
<1>1. /\ program' = program /\ chan' = chan /\ DOMAIN pc' = DOMAIN pc /\ pc["bench"] = "main"
      /\ pc'["helper"] = pc["helper"] /\ pc'["bench"] \in {"usage", "init"}
      /\ pc'["bench"] = "usage" => mem' = mem
      /\ pc'["bench"] = "init" =>
           /\ DOMAIN mem' = DOMAIN mem /\ mem'.rounds = 0 /\ mem'.left = 0
           /\ mem'.sigchld = "child" /\ mem'.cookie = "own"
  BY DEF Call, At, ChildInit, EchoState, EchoShape
<1>2. EchoShape' BY <1>1 DEF EchoState, EchoShape, EchoPlaces
<1>3. EchoFlight' BY <1>1 DEF EchoState, EchoFlight, EchoPlaces
<1>4. SemUnit' BY <1>1 DEF EchoState, SemUnit
<1> QED BY <1>2, <1>3, <1>4 DEF EchoState

LEMMA EchoSigterm == EchoState /\ Sigterm => EchoState'
<1> SUFFICES ASSUME EchoState, Sigterm PROVE EchoState' OBVIOUS
<1>1. EchoShape' BY DEF Sigterm, EchoState, EchoShape, EchoPlaces
<1>2. EchoFlight' BY DEF Sigterm, EchoState, EchoShape, EchoFlight, EchoPlaces
<1>3. SemUnit' BY DEF Sigterm, EchoState, EchoShape, SemUnit, Initializing
<1> QED BY <1>1, <1>2, <1>3 DEF EchoState

(* The helper ends, and the benchmark may be told.                           *)
LEMMA EchoHelperEnds ==
  ASSUME EchoState, pc["helper"] \notin Dead \cup {"none"}, pc' = ChildEnded("helper"),
         program' = program, chan' = chan, DOMAIN mem' = DOMAIN mem,
         mem'.left = mem.left, mem'.rounds = mem.rounds, mem'.pid = mem.pid,
         pc["helper"] # "post" \/ chan.exists,
         Notices \/ (mem'.sigchld = mem.sigchld /\ mem'.cookie = mem.cookie)
  PROVE  EchoState'
<1>1. /\ DOMAIN pc' = {"bench", "helper"} /\ pc'["helper"] \in {"zombie", "gone"}
      /\ pc'["bench"] = IF Notices THEN "cleanup" ELSE pc["bench"]
  BY DEF ChildEnded, EchoState, EchoShape
<1>2. EchoShape' BY <1>1 DEF EchoState, EchoShape, EchoPlaces
<1>3. EchoFlight' BY <1>1 DEF EchoState, EchoShape, EchoFlight, EchoPlaces
<1>4. SemUnit' BY <1>1 DEF EchoState, EchoShape, SemUnit, Notices, Dead
<1> QED BY <1>2, <1>3, <1>4 DEF EchoState

LEMMA EchoKill == EchoState /\ KillHelper("helper") => EchoState'
<1> SUFFICES ASSUME EchoState, KillHelper("helper") PROVE EchoState' OBVIOUS
<1>1. EchoShape' /\ EchoFlight'
  <2>1. /\ DOMAIN pc' = {"bench", "helper"} /\ pc'["helper"] \in {"zombie", "gone"}
        /\ pc'["bench"] = IF Notices THEN "cleanup" ELSE pc["bench"]
    BY DEF KillHelper, ChildEnded, EchoState, EchoShape
  <2>2. /\ DOMAIN mem' = DOMAIN mem /\ mem'.left = mem.left /\ mem'.rounds = mem.rounds
        /\ chan' = chan /\ program' = program
    BY DEF KillHelper, MemAfterChild, EchoState, EchoShape
  <2>3. EchoShape' BY <2>1, <2>2 DEF EchoState, EchoShape, EchoPlaces
  <2>4. EchoFlight' BY <2>1, <2>2 DEF EchoState, EchoShape, EchoFlight, EchoPlaces
  <2> QED BY <2>3, <2>4
<1>2. SemUnit'
  BY DEF KillHelper, ChildEnded, MemAfterChild, EchoState, EchoShape, SemUnit, Notices, Dead
<1> QED BY <1>1, <1>2 DEF EchoState

(* Once the benchmark has begun to clean up, nothing more is said.           *)
LEMMA EchoOver ==
  ASSUME EchoState, EchoShape', program' = program,
         pc'["bench"] \in {"cleanup", "waiting", "stuck", "ended"}
  PROVE  EchoState'
BY DEF EchoState, EchoFlight, SemUnit, EchoPlaces

LEMMA EndsShape ==
  ASSUME EchoShape, pc' = BenchEnds(pc), DOMAIN mem' = DOMAIN mem, DOMAIN chan' = DOMAIN chan,
         mem'.left = mem.left, mem'.rounds = mem.rounds, chan'.to = chan.to, chan'.from = chan.from
  PROVE  EchoShape' /\ pc'["bench"] = "ended"
BY DEF EchoShape, EchoPlaces, BenchEnds

LEMMA EchoForks ==
  ASSUME EchoState, pc["bench"] = "init", NEW h, NEW b, Fork(h, b), program' = program,
         DOMAIN chan' = DOMAIN chan, chan'.to = chan.to, chan'.from = chan.from,
         IF program = "lat_sem" THEN h = "post" /\ b = AfterInitialize /\ chan'.exists
         ELSE h \in {"read", "open1"} /\ b \in {"shake", "open1", AfterInitialize}
  PROVE  EchoState'
<1>1. /\ DOMAIN pc' = DOMAIN pc /\ DOMAIN mem' = DOMAIN mem
      /\ mem'.left = mem.left /\ mem'.rounds = mem.rounds /\ mem'.sigchld = mem.sigchld
      /\ \/ pc'["helper"] = h /\ pc'["bench"] = b /\ mem'.pid = "helper"
            /\ mem'.cookie = (IF b = "cleanup" THEN "other" ELSE mem.cookie)
         \/ pc'["helper"] = pc["helper"] /\ pc'["bench"] = AfterInitialize /\ mem'.pid = "failed"
            /\ mem'.cookie = Cookie
  BY DEF Fork, EchoState, EchoShape
<1>2. AfterInitialize \in {"cleanup", "interval"} /\ (AfterInitialize = "interval" => Cookie = "own")
  BY DEF AfterInitialize, Cookie
<1>3. EchoShape' BY <1>1, <1>2 DEF EchoState, EchoShape, EchoPlaces
<1>4. EchoFlight' BY <1>1, <1>2 DEF EchoState, EchoFlight, EchoPlaces
<1>5. SemUnit' BY <1>1, <1>2 DEF EchoState, SemUnit
<1> QED BY <1>3, <1>4, <1>5 DEF EchoState

(* One message is sent, and one received.                                    *)
LEMMA EchoSends ==
  ASSUME EchoState, program # "lat_sem", pc["bench"] \in {"shake", "run"},
         NEW l \in {"shaken", "reply"}, Send(l), program' = program,
         DOMAIN mem' = DOMAIN mem, mem'.left \in Nat, mem'.rounds = mem.rounds
  PROVE  EchoState'
<1>1. CASE HelperLost
  <2>1. pc' = BenchEnds(pc) /\ chan' = chan BY <1>1 DEF Send
  <2>2. EchoShape' /\ pc'["bench"] = "ended"
    BY <2>1 DEF EchoState, EchoShape, EchoPlaces, BenchEnds
  <2> QED BY <2>2, EchoOver
<1>2. CASE ~HelperLost
  <2>1. /\ DOMAIN chan' = DOMAIN chan /\ chan'.to = chan.to + 1 /\ chan'.from = chan.from
        /\ DOMAIN pc' = DOMAIN pc /\ pc'["bench"] = l /\ pc'["helper"] = pc["helper"]
    BY <1>2 DEF Send, EchoState, EchoShape
  <2>2. EchoShape' BY <2>1 DEF EchoState, EchoShape, EchoPlaces
  <2>3. EchoFlight' BY <2>1 DEF EchoState, EchoShape, EchoFlight, EchoPlaces
  <2> QED BY <2>2, <2>3 DEF EchoState, SemUnit
<1> QED BY <1>1, <1>2

LEMMA EchoReceives ==
  ASSUME EchoState, program # "lat_sem", pc["bench"] \in {"shaken", "reply"},
         NEW l \in {"run", "interval", "cleanup"}, Receive(l), program' = program,
         DOMAIN mem' = DOMAIN mem, mem'.left = mem.left, mem'.rounds = mem.rounds
  PROVE  EchoState'
<1>1. CASE chan.from = 0
  <2>1. pc' = BenchEnds(pc) /\ chan' = chan BY <1>1 DEF Receive
  <2>2. EchoShape' /\ pc'["bench"] = "ended" BY <2>1, EndsShape DEF EchoState
  <2> QED BY <2>2, EchoOver
<1>2. CASE chan.from # 0
  <2>1. /\ DOMAIN chan' = DOMAIN chan /\ chan'.to = chan.to /\ chan'.from = chan.from - 1
        /\ DOMAIN pc' = DOMAIN pc /\ pc'["bench"] = l /\ pc'["helper"] = pc["helper"]
    BY <1>2 DEF Receive, EchoState, EchoShape
  <2>2. EchoShape' BY <1>2, <2>1 DEF EchoState, EchoShape, EchoPlaces
  <2>3. chan'.to = 0 /\ chan'.from = 0 /\ pc'["helper"] # "write"
    BY <1>2, <2>1 DEF EchoState, EchoShape, EchoFlight
  <2>4. EchoFlight' BY <2>1, <2>3 DEF EchoFlight, EchoPlaces
  <2> QED BY <2>2, <2>4 DEF EchoState, SemUnit
<1> QED BY <1>1, <1>2

LEMMA EchoHandshake == ASSUME EchoState, NEW p \in EchoNames \ {"lat_sem"}, Handshake(p) PROVE EchoState'
<1>1. program = p /\ program # "lat_sem" BY DEF Handshake, At
<1>2. CASE At(p, "bench", "shake") /\ Send("shaken") /\ UNCHANGED <<program, mem>>
  BY <1>1, <1>2, EchoSends DEF At, EchoState, EchoShape
<1>3. CASE At(p, "bench", "shaken") /\ Receive(AfterInitialize)
           /\ mem' = [mem EXCEPT !.cookie = Cookie] /\ UNCHANGED program
  <2>1. AfterInitialize \in {"run", "interval", "cleanup"} BY DEF AfterInitialize
  <2>2. DOMAIN mem' = DOMAIN mem /\ mem'.left = mem.left /\ mem'.rounds = mem.rounds
    BY <1>3 DEF EchoState, EchoShape
  <2> QED BY <1>1, <1>3, <2>1, <2>2, EchoReceives DEF At
<1> QED BY <1>2, <1>3 DEF Handshake

LEMMA EchoExchange == ASSUME EchoState, NEW p \in EchoNames \ {"lat_sem"}, Exchange(p) PROVE EchoState'
<1>1. program = p /\ program # "lat_sem" BY DEF Exchange, At
<1>2. CASE /\ At(p, "bench", "run") /\ mem.left = 0
           /\ pc' = [pc EXCEPT !["bench"] = "interval"] /\ UNCHANGED <<program, mem, chan>>
  <2>1. /\ DOMAIN pc' = DOMAIN pc /\ pc'["bench"] = "interval" /\ pc'["helper"] = pc["helper"]
        /\ pc["bench"] = "run"
    BY <1>2 DEF At, EchoState, EchoShape
  <2>2. EchoShape' BY <1>2, <2>1 DEF EchoState, EchoShape, EchoPlaces
  <2>3. EchoFlight' BY <1>2, <2>1 DEF EchoState, EchoFlight, EchoPlaces
  <2> QED BY <1>1, <1>2, <2>2, <2>3 DEF EchoState, SemUnit
<1>3. CASE /\ At(p, "bench", "run") /\ mem.left > 0 /\ Send("reply")
           /\ mem' = [mem EXCEPT !.left = @ - 1] /\ UNCHANGED program
  <2>1. DOMAIN mem' = DOMAIN mem /\ mem'.left = mem.left - 1 /\ mem'.rounds = mem.rounds
    BY <1>3 DEF EchoState, EchoShape
  <2>2. mem'.left \in Nat BY <1>3, <2>1 DEF EchoState, EchoShape
  <2> QED BY <1>1, <1>3, <2>1, <2>2, EchoSends DEF At
<1>4. CASE At(p, "bench", "reply") /\ Receive("run") /\ UNCHANGED <<program, mem>>
  BY <1>1, <1>4, EchoReceives DEF At
<1> QED BY <1>2, <1>3, <1>4 DEF Exchange

(* The helper of the pipes, fifos and sockets.                               *)
LEMMA EchoAnswers == ASSUME EchoState, NEW p \in EchoNames \ {"lat_sem"}, Echo(p) PROVE EchoState'
<1>1. program = p /\ program # "lat_sem" /\ program' = program BY DEF Echo, At
<1>2. CASE /\ At(p, "helper", "read") /\ chan.to > 0
           /\ chan' = [chan EXCEPT !.to = @ - 1]
           /\ pc' = [pc EXCEPT !["helper"] = "write"] /\ UNCHANGED mem
  <2>1. /\ DOMAIN chan' = DOMAIN chan /\ chan'.to = chan.to - 1 /\ chan'.from = chan.from
        /\ DOMAIN pc' = DOMAIN pc /\ pc'["bench"] = pc["bench"] /\ pc'["helper"] = "write"
        /\ pc["helper"] = "read"
    BY <1>2 DEF At, EchoState, EchoShape
  <2>2. EchoShape' BY <1>2, <2>1 DEF EchoState, EchoShape
  <2>3. EchoFlight' BY <1>1, <1>2, <2>1 DEF EchoState, EchoShape, EchoFlight
  <2> QED BY <1>1, <2>2, <2>3 DEF EchoState, SemUnit
<1>3. CASE pc' = [pc EXCEPT !["helper"] = "spin"] /\ UNCHANGED <<mem, chan>>
  <2>1. DOMAIN pc' = DOMAIN pc /\ pc'["bench"] = pc["bench"] /\ pc'["helper"] = "spin"
    BY <1>3 DEF EchoState, EchoShape
  <2>2. EchoShape' BY <1>3, <2>1 DEF EchoState, EchoShape
  <2>3. EchoFlight' BY <1>1, <1>3, <2>1 DEF EchoState, EchoShape, EchoFlight
  <2> QED BY <1>1, <2>2, <2>3 DEF EchoState, SemUnit
<1>4. CASE At(p, "helper", "write") /\ BenchLost /\ pc' = ChildEnded("helper")
           /\ mem' = MemAfterChild /\ UNCHANGED chan
  <2>1. /\ DOMAIN mem' = DOMAIN mem /\ mem'.left = mem.left /\ mem'.rounds = mem.rounds
        /\ mem'.pid = mem.pid
    <3>1. mem' = mem \/ mem' = [mem EXCEPT !.cookie = "other", !.sigchld = "default"]
      BY <1>4, Zenon DEF MemAfterChild
    <3> QED BY <3>1 DEF EchoState, EchoShape
  <2>3. Notices \/ (mem'.sigchld = mem.sigchld /\ mem'.cookie = mem.cookie)
    <3>1. ~Notices => mem' = mem BY <1>4, Zenon DEF MemAfterChild
    <3> QED BY <3>1, Zenon
  <2>2. pc["helper"] = "write" BY <1>4 DEF At
  <2> QED BY <1>1, <1>4, <2>1, <2>2, <2>3, EchoHelperEnds DEF Dead
<1>5. CASE At(p, "helper", "write") /\ chan' = [chan EXCEPT !.from = @ + 1]
           /\ pc' = [pc EXCEPT !["helper"] = "read"] /\ UNCHANGED mem
  <2>1. /\ DOMAIN chan' = DOMAIN chan /\ chan'.to = chan.to /\ chan'.from = chan.from + 1
        /\ DOMAIN pc' = DOMAIN pc /\ pc'["bench"] = pc["bench"] /\ pc'["helper"] = "read"
        /\ pc["helper"] = "write"
    BY <1>5 DEF At, EchoState, EchoShape
  <2>2. EchoShape' BY <1>5, <2>1 DEF EchoState, EchoShape
  <2>3. EchoFlight' BY <1>1, <1>5, <2>1 DEF EchoState, EchoShape, EchoFlight
  <2> QED BY <1>1, <2>2, <2>3 DEF EchoState, SemUnit
<1> QED BY <1>2, <1>3, <1>4, <1>5 DEF Echo

(* The two semaphores.                                                       *)
LEMMA SemExchange == EchoState /\ SemDoit => EchoState'
<1> SUFFICES ASSUME EchoState, SemDoit PROVE EchoState' OBVIOUS
<1>1. program = "lat_sem" /\ pc["bench"] = "run" /\ program' = program BY DEF SemDoit, At
<1>2. CASE mem.left = 0
  <2>1. /\ DOMAIN pc' = DOMAIN pc /\ pc'["bench"] = "interval" /\ pc'["helper"] = pc["helper"]
        /\ mem' = mem /\ chan' = chan
    BY <1>2 DEF SemDoit, EchoState, EchoShape
  <2>2. EchoShape' BY <2>1 DEF EchoState, EchoShape, EchoPlaces
  <2>3. SemUnit' BY <1>1, <1>2, <2>1 DEF EchoState, SemUnit
  <2> QED BY <1>1, <2>2, <2>3 DEF EchoState, EchoFlight
<1>3. CASE mem.left # 0
  <2>1. /\ chan.from > 0 /\ pc' = pc /\ mem' = [mem EXCEPT !.left = @ - 1]
        /\ chan' = [chan EXCEPT !.from = @ - 1, !.to = @ + 1]
    BY <1>3 DEF SemDoit
  <2>2. /\ DOMAIN chan' = DOMAIN chan /\ chan'.to = chan.to + 1 /\ chan'.from = chan.from - 1
        /\ chan'.exists = chan.exists
        /\ DOMAIN mem' = DOMAIN mem /\ mem'.left = mem.left - 1 /\ mem'.rounds = mem.rounds
        /\ mem'.cookie = mem.cookie /\ mem'.sigchld = mem.sigchld /\ mem'.pid = mem.pid
    BY <2>1 DEF EchoState, EchoShape
  <2>3. EchoShape' BY <1>3, <2>1, <2>2 DEF EchoState, EchoShape
  <2>4. mem.pid = "helper" /\ pc["helper"] # "post" /\ chan.to + chan.from = 1
    BY <1>1, <2>1 DEF EchoState, EchoShape, SemUnit
  <2>5. chan'.to + chan'.from = 1 BY <2>2, <2>4 DEF EchoState, EchoShape
  <2>6. SemUnit' BY <1>1, <2>1, <2>2, <2>4, <2>5 DEF EchoState, SemUnit
  <2> QED BY <1>1, <2>3, <2>6 DEF EchoState, EchoFlight
<1> QED BY <1>2, <1>3

LEMMA SemAnswers == EchoState /\ SemWriter => EchoState'
<1> SUFFICES ASSUME EchoState, SemWriter PROVE EchoState' OBVIOUS
<1>1. program' = program /\ mem' = mem /\ program = "lat_sem" BY DEF SemWriter, At
<1>2. CASE ~chan.exists /\ pc["helper"] \in {"post", "loop"} /\ pc' = ChildEnded("helper")
           /\ chan' = chan
  <2>1. /\ DOMAIN pc' = {"bench", "helper"} /\ pc'["helper"] \in {"zombie", "gone"}
        /\ pc'["bench"] \in {"cleanup", pc["bench"]}
    BY <1>2 DEF ChildEnded, EchoState, EchoShape
  <2>2. EchoShape' BY <1>1, <1>2, <2>1 DEF EchoState, EchoShape, EchoPlaces
  <2>3. pc["bench"] \notin {"main", "init", "interval", "run"}
    BY <1>1, <1>2 DEF EchoState, SemUnit
  <2>4. SemUnit' BY <2>1, <2>3 DEF SemUnit
  <2> QED BY <1>1, <2>2, <2>4 DEF EchoState, EchoFlight
<1>3. CASE At("lat_sem", "helper", "post") /\ chan' = [chan EXCEPT !.from = @ + 1]
           /\ pc' = [pc EXCEPT !["helper"] = "loop"]
  <2>1. /\ DOMAIN chan' = DOMAIN chan /\ chan'.to = chan.to /\ chan'.from = chan.from + 1
        /\ chan'.exists = chan.exists
        /\ DOMAIN pc' = DOMAIN pc /\ pc'["bench"] = pc["bench"] /\ pc'["helper"] = "loop"
        /\ pc["helper"] = "post"
    BY <1>3 DEF At, EchoState, EchoShape
  <2>2. EchoShape' BY <1>1, <2>1 DEF EchoState, EchoShape
  <2>3. SemUnit' BY <1>1, <2>1 DEF EchoState, EchoShape, SemUnit
  <2> QED BY <1>1, <2>2, <2>3 DEF EchoState, EchoFlight
<1>4. CASE /\ At("lat_sem", "helper", "loop") /\ chan.to > 0
           /\ chan' = [chan EXCEPT !.to = @ - 1, !.from = @ + 1] /\ pc' = pc
  <2>1. /\ DOMAIN chan' = DOMAIN chan /\ chan'.to = chan.to - 1 /\ chan'.from = chan.from + 1
        /\ chan'.exists = chan.exists /\ pc["helper"] = "loop"
    BY <1>4 DEF At, EchoState, EchoShape
  <2>2. EchoShape' BY <1>1, <1>4, <2>1 DEF EchoState, EchoShape
  <2>3. chan'.to + chan'.from = chan.to + chan.from BY <2>1 DEF EchoState, EchoShape
  <2>4. SemUnit' BY <1>1, <1>4, <2>1, <2>3 DEF EchoState, EchoShape, SemUnit
  <2> QED BY <1>1, <2>2, <2>4 DEF EchoState, EchoFlight
<1> QED BY <1>2, <1>3, <1>4 DEF SemWriter

(* The fifos are opened.                                                     *)
LEMMA EchoOpens ==
  ASSUME EchoState, NEW process \in {"bench", "helper"}, NEW label \in {"open1", "open2"},
         NEW fifo, NEW next, Open(process, label, fifo, next),
         IF process = "bench" THEN next \in {"open2", "shake"} ELSE next \in {"open2", "read"}
  PROVE  EchoState'
<1>1. /\ program' = program /\ program = "lat_fifo" /\ mem' = mem /\ pc[process] = label
      /\ DOMAIN chan' = DOMAIN chan /\ chan'.to = chan.to /\ chan'.from = chan.from
  BY DEF Open, EchoState, EchoShape
<1>2. pc' = pc \/ pc' = [pc EXCEPT ![process] = next] BY DEF Open
<1>3. /\ DOMAIN pc' = DOMAIN pc
      /\ pc'["bench"] = pc["bench"] \/ (pc["bench"] \in {"open1", "open2"} /\ pc'["bench"] \in {"open2", "shake"})
      /\ pc'["helper"] = pc["helper"] \/ (pc["helper"] \in {"open1", "open2"} /\ pc'["helper"] \in {"open2", "read"})
  BY <1>1, <1>2 DEF EchoState, EchoShape
<1>4. EchoShape' BY <1>1, <1>3 DEF EchoState, EchoShape, EchoPlaces
<1>5. EchoFlight' BY <1>1, <1>3 DEF EchoState, EchoShape, EchoFlight, EchoPlaces
<1> QED BY <1>1, <1>4, <1>5 DEF EchoState, SemUnit

(* The benchmark cleans up.                                                  *)
LEMMA EchoCleans ==
  EchoState /\ (PipeCleanup \/ FifoCleanup \/ UnixCleanup \/ SemCleanup) => EchoState'
<1> SUFFICES ASSUME EchoState, PipeCleanup \/ FifoCleanup \/ UnixCleanup \/ SemCleanup
             PROVE  EchoState'
  OBVIOUS
<1>1. program' = program BY DEF PipeCleanup, FifoCleanup, UnixCleanup, SemCleanup
<1>2. /\ DOMAIN mem' = DOMAIN mem /\ mem'.left = mem.left /\ mem'.rounds = mem.rounds
      /\ DOMAIN chan' = DOMAIN chan /\ chan'.to = chan.to /\ chan'.from = chan.from
  BY DEF PipeCleanup, FifoCleanup, UnixCleanup, SemCleanup, KillAndWait, EchoState, EchoShape
<1>3. DOMAIN pc' = DOMAIN pc /\ pc'["bench"] \in {"cleanup", "waiting", "ended"}
  BY DEF PipeCleanup, FifoCleanup, UnixCleanup, SemCleanup, KillAndWait, EchoState, EchoShape, BenchEnds
<1>4. EchoShape' BY <1>2, <1>3 DEF EchoState, EchoShape, EchoPlaces
<1> QED BY <1>1, <1>3, <1>4, EchoOver

LEMMA EchoBegins ==
  EchoState /\ (PipeInitialize \/ FifoInitialize \/ UnixInitialize \/ SemInitialize) => EchoState'
<1> SUFFICES ASSUME EchoState PROVE
      PipeInitialize \/ FifoInitialize \/ UnixInitialize \/ SemInitialize => EchoState'
  OBVIOUS
<1>1. CASE At("lat_pipe", "bench", "init") /\ Fork("read", "shake") /\ program' = program
           /\ chan' = [chan EXCEPT !.opened = {"bench", "helper"} \X {"both"}]
  <2>1. DOMAIN chan' = DOMAIN chan /\ chan'.to = chan.to /\ chan'.from = chan.from
    BY <1>1 DEF EchoState, EchoShape
  <2> QED BY <1>1, <2>1, EchoForks DEF At
<1>2. CASE FifoInitialize
  <2>1. DOMAIN chan' = DOMAIN chan /\ chan'.to = chan.to /\ chan'.from = chan.from
    BY <1>2 DEF FifoInitialize, EchoState, EchoShape
  <2> QED BY <1>2, <2>1, EchoForks DEF At, FifoInitialize
<1>3. CASE UnixInitialize BY <1>3, EchoForks DEF At, UnixInitialize
<1>4. CASE SemInitialize
  <2>1. DOMAIN chan' = DOMAIN chan /\ chan'.to = chan.to /\ chan'.from = chan.from /\ chan'.exists
    BY <1>4 DEF SemInitialize, EchoState, EchoShape
  <2> QED BY <1>4, <2>1, EchoForks DEF At, SemInitialize
<1>5. CASE Handshake("lat_pipe") BY <1>5, EchoHandshake DEF EchoNames
<1> QED BY <1>1, <1>2, <1>3, <1>4, <1>5 DEF PipeInitialize

LEMMA EchoStep == EchoState /\ EchoNext => EchoState'
<1> SUFFICES ASSUME EchoState, EchoNext PROVE EchoState' OBVIOUS
<1>1. CASE PipeMain \/ FifoMain \/ UnixMain \/ SemMain
  BY <1>1, EchoCall DEF PipeMain, FifoMain, UnixMain, SemMain
<1>2. CASE FifoOpen \/ FifoHelperOpen
  BY <1>2, EchoOpens DEF FifoOpen, FifoHelperOpen
<1>3. CASE PipeDoit \/ UnixBenchmark
  BY <1>3, EchoExchange DEF PipeDoit, UnixBenchmark, EchoNames
<1>4. CASE FifoDoit
  <2>1. CASE mem.pid = "failed" /\ mem.left > 0
    <3>1. program' = program /\ mem' = mem /\ chan' = chan
          /\ pc' \in {BenchEnds(pc), [pc EXCEPT !["bench"] = "stuck"]}
      BY <1>4, <2>1 DEF FifoDoit
    <3>2. DOMAIN pc' = DOMAIN pc /\ pc'["bench"] \in {"stuck", "ended"}
      BY <3>1 DEF BenchEnds, EchoState, EchoShape
    <3>3. EchoShape' BY <3>1, <3>2 DEF EchoState, EchoShape, EchoPlaces
    <3> QED BY <3>1, <3>2, <3>3, EchoOver
  <2>2. CASE ~(mem.pid = "failed" /\ mem.left > 0)
    BY <1>4, <2>2, EchoExchange DEF FifoDoit, EchoNames
  <2> QED BY <2>1, <2>2
<1>5. CASE PipeWriter \/ FifoWriter \/ UnixChild
  BY <1>5, EchoAnswers DEF PipeWriter, FifoWriter, UnixChild, EchoNames
<1>6. CASE Handshake("lat_fifo") BY <1>6, EchoHandshake DEF EchoNames
<1> QED BY <1>1, <1>2, <1>3, <1>4, <1>5, <1>6, EchoBegins, EchoCleans, SemExchange, SemAnswers,
           EchoInterval, EchoSigterm, EchoKill
        DEF EchoNext, EchoBench, EchoHelper

LEMMA EchoSeparate == EchoInv => WholeRoundTrips
  BY DEF EchoInv, EchoState, EchoShape, EchoFlight, SemUnit, WholeRoundTrips, EchoPlaces

-----------------------------------------------------------------------------
(* lat_fcntl: whatever the helper does, and whether it lives, the benchmark   *)
(* has lock 2 between two iterations, and lock 1 before the first only.       *)
FcntlShape ==
  /\ program = "lat_fcntl"
  /\ DOMAIN pc = {"bench", "helper", "parent"}
  /\ {"left", "rounds", "cookie", "sigchld", "flag", "first", "pid", "faults", "killed"}
       \subseteq DOMAIN mem
  /\ mem.left \in Nat /\ mem.rounds \in Nat
  /\ "owner" \in DOMAIN chan /\ DOMAIN chan.owner = 1..2

Mine(i) == chan.owner[i] = "bench"
FcntlTurn ==
  /\ pc["bench"] \in {"main", "init"} => mem.rounds = 0
  /\ pc["bench"] = "interval" => Mine(2) /\ (mem.rounds = 0 <=> Mine(1))
  /\ pc["bench"] \in {"run", "release2", "wait2", "release1"} => mem.rounds > 0
  /\ pc["bench"] = "run" => Mine(2) /\ (Mine(1) => mem.left > 0)
  /\ pc["bench"] \in {"release2", "release1"} => Mine(1) /\ Mine(2)
  /\ pc["bench"] = "release2" => mem.left > 0
  /\ pc["bench"] \in {"wait2", "release1"} => Mine(1) /\ mem.left > 0

FcntlState == FcntlShape /\ FcntlTurn
FcntlInv == program = "lat_fcntl" => FcntlState

LEMMA FcntlStart == LockInit => FcntlInv
  BY DEF LockInit, ChildInit, With, FcntlInv, FcntlState, FcntlShape, FcntlTurn

(* One process takes or gives up one lock; the helper's steps leave what the  *)
(* benchmark has alone.                                                       *)
LEMMA FcntlWaits ==
  ASSUME FcntlState, NEW p \in {"bench", "helper"}, NEW i \in 1..2, NEW label, NEW next,
         waiton(p, i, label, next)
  PROVE  /\ "owner" \in DOMAIN chan' /\ DOMAIN chan'.owner = 1..2
         /\ pc[p] = label /\ DOMAIN pc' = DOMAIN pc /\ pc'[p] = next
         /\ p = "helper" => pc'["bench"] = pc["bench"]
         /\ chan.owner[i] \in {"none", p} /\ chan'.owner[i] = p
         /\ \A j \in (1..2) \ {i} : chan'.owner[j] = chan.owner[j]
BY DEF waiton, At, FcntlState, FcntlShape

LEMMA FcntlReleases ==
  ASSUME FcntlState, NEW p \in {"bench", "helper"}, NEW i \in 1..2, NEW label, NEW next,
         release(p, i, label, next)
  PROVE  /\ "owner" \in DOMAIN chan' /\ DOMAIN chan'.owner = 1..2
         /\ pc[p] = label /\ DOMAIN pc' = DOMAIN pc /\ pc'[p] = next
         /\ p = "helper" => pc'["bench"] = pc["bench"]
         /\ chan'.owner[i] = (IF chan.owner[i] = p THEN "none" ELSE chan.owner[i])
         /\ \A j \in (1..2) \ {i} : chan'.owner[j] = chan.owner[j]
BY DEF release, Released, At, FcntlState, FcntlShape

LEMMA FcntlHelper == FcntlState /\ ProcB => FcntlState'
<1> SUFFICES ASSUME FcntlState, ProcB PROVE FcntlState' OBVIOUS
<1>1. /\ "owner" \in DOMAIN chan' /\ DOMAIN chan'.owner = 1..2 /\ DOMAIN pc' = DOMAIN pc
      /\ pc'["bench"] = pc["bench"] /\ \A i \in 1..2 : Mine(i)' <=> Mine(i)
  BY FcntlWaits, FcntlReleases DEF ProcB, Mine
<1>2. program' = program /\ mem' = mem BY DEF ProcB
<1> QED BY <1>1, <1>2 DEF FcntlState, FcntlShape, FcntlTurn

LEMMA FcntlIteration == FcntlState /\ ProcA => FcntlState'
<1> SUFFICES ASSUME FcntlState, ProcA PROVE FcntlState' OBVIOUS
<1>1. program' = program /\ program = "lat_fcntl" BY DEF ProcA, FcntlState, FcntlShape
<1>2. CASE /\ At("lat_fcntl", "bench", "run") /\ mem.left = 0
           /\ pc' = [pc EXCEPT !["bench"] = "interval"] /\ UNCHANGED <<mem, chan>>
  BY <1>1, <1>2 DEF At, FcntlState, FcntlShape, FcntlTurn, Mine
<1>3. CASE mem.left > 0 /\ waiton("bench", 1, "run", "release2") /\ UNCHANGED mem
  BY <1>1, <1>3, FcntlWaits DEF FcntlState, FcntlShape, FcntlTurn, Mine
<1>4. CASE release("bench", 2, "release2", "wait2") /\ UNCHANGED mem
  BY <1>1, <1>4, FcntlReleases DEF FcntlState, FcntlShape, FcntlTurn, Mine
<1>5. CASE waiton("bench", 2, "wait2", "release1") /\ UNCHANGED mem
  BY <1>1, <1>5, FcntlWaits DEF FcntlState, FcntlShape, FcntlTurn, Mine
<1>6. CASE release("bench", 1, "release1", "run") /\ mem' = [mem EXCEPT !.left = @ - 1]
  <2>1. DOMAIN mem' = DOMAIN mem /\ mem'.left = mem.left - 1 /\ mem'.rounds = mem.rounds
    BY <1>6 DEF FcntlState, FcntlShape
  <2>2. pc["bench"] = "release1" /\ pc'["bench"] = "run" /\ ~Mine(1)' /\ Mine(2)'
        /\ DOMAIN pc' = DOMAIN pc /\ "owner" \in DOMAIN chan' /\ DOMAIN chan'.owner = 1..2
    BY <1>6, FcntlReleases DEF FcntlState, FcntlTurn, Mine
  <2> QED BY <1>1, <2>1, <2>2 DEF FcntlState, FcntlShape, FcntlTurn
<1> QED BY <1>2, <1>3, <1>4, <1>5, <1>6 DEF ProcA

(* Once the benchmark cleans up or has ended the locks are of no interest.    *)
LEMMA FcntlOver ==
  ASSUME FcntlShape', pc'["bench"] \in {"usage", "cleanup", "ended"} PROVE FcntlState'
BY DEF FcntlState, FcntlTurn

LEMMA FcntlStep == FcntlState /\ LockNext => FcntlState'
<1> SUFFICES ASSUME FcntlState, LockNext PROVE FcntlState' OBVIOUS
<1>0. program = "lat_fcntl" BY DEF FcntlState, FcntlShape
<1>1. CASE FcntlMain
  <2>1. /\ program' = program /\ chan' = chan /\ DOMAIN pc' = DOMAIN pc /\ pc["bench"] = "main"
        /\ pc'["bench"] \in {"usage", "init"} /\ DOMAIN mem' = DOMAIN mem
        /\ mem'.rounds = mem.rounds /\ mem'.left = mem.left
    BY <1>1 DEF FcntlMain, Call, At, FcntlState, FcntlShape
  <2> QED BY <2>1 DEF FcntlState, FcntlShape, FcntlTurn
<1>2. CASE FcntlInitialize
  <2>1. CASE pc' = BenchEnds(pc)
    <3>1. FcntlShape' /\ pc'["bench"] = "ended"
      BY <1>2, <2>1 DEF FcntlInitialize, BenchEnds, FcntlState, FcntlShape
    <3> QED BY <3>1, FcntlOver
  <2>2. CASE pc' = [pc EXCEPT !["helper"] = "release1", !["bench"] = AfterInitialize]
             /\ chan' = [chan EXCEPT !.owner = [i \in 1..2 |-> "bench"]]
             /\ mem' = [mem EXCEPT !.pid = "helper", !.cookie = Cookie]
    <3>1. /\ program' = program /\ DOMAIN pc' = DOMAIN pc /\ pc["bench"] = "init"
          /\ pc'["bench"] \in {"cleanup", "interval"}
          /\ mem'.left = mem.left /\ mem'.rounds = mem.rounds /\ DOMAIN mem' = DOMAIN mem
          /\ "owner" \in DOMAIN chan' /\ DOMAIN chan'.owner = 1..2 /\ Mine(1)' /\ Mine(2)'
      BY <1>2, <2>2 DEF FcntlInitialize, At, AfterInitialize, FcntlState, FcntlShape, Mine
    <3> QED BY <3>1 DEF FcntlState, FcntlShape, FcntlTurn
  <2> QED BY <1>2, <2>1, <2>2 DEF FcntlInitialize
<1>3. CASE FcntlCleanup
  <2>1. /\ program' = program /\ DOMAIN mem' = DOMAIN mem /\ mem'.left = mem.left
        /\ mem'.rounds = mem.rounds
        /\ "owner" \in DOMAIN chan' /\ DOMAIN chan'.owner = 1..2
        /\ DOMAIN pc' = DOMAIN pc /\ pc'["bench"] = "ended"
    BY <1>3 DEF FcntlCleanup, LocksLost, BenchEnds, FcntlState, FcntlShape
  <2> QED BY <2>1, FcntlOver DEF FcntlState, FcntlShape
<1>4. CASE Interval
  <2>1. /\ program' = program /\ chan' = chan /\ pc["bench"] = "interval"
        /\ DOMAIN pc' = DOMAIN pc /\ DOMAIN mem' = DOMAIN mem
    BY <1>4 DEF Interval, FcntlState, FcntlShape
  <2>2. \/ /\ pc'["bench"] = "run" /\ mem'.rounds = mem.rounds + 1
           /\ mem'.left \in Nat /\ mem'.left > 0
        \/ pc'["bench"] = "cleanup" /\ mem'.left = mem.left /\ mem'.rounds = mem.rounds
    <3>1. CASE pc' = [pc EXCEPT !["bench"] = "run"]
      <4>1. PICK n \in 1..BatchSize :
              mem' = [mem EXCEPT !.left = n, !.rounds = @ + 1,
                        !.sigchld = IF mem.rounds > 0 /\ program \notin NoCleanup
                                    THEN "default" ELSE @]
        BY <1>4, <3>1 DEF Interval, FcntlState, FcntlShape
      <4> QED BY <3>1, <4>1, BenchAssumption DEF FcntlState, FcntlShape
    <3>2. CASE pc' = [pc EXCEPT !["bench"] = "cleanup"]
      BY <1>4, <3>2 DEF Interval, FcntlState, FcntlShape
    <3> QED BY <1>4, <3>1, <3>2 DEF Interval
  <2> QED BY <2>1, <2>2 DEF FcntlState, FcntlShape, FcntlTurn, Mine
<1>5. CASE Sigterm
  <2>1. /\ program' = program /\ chan' = chan /\ DOMAIN pc' = DOMAIN pc
        /\ DOMAIN mem' = DOMAIN mem /\ mem'.left = mem.left /\ mem'.rounds = mem.rounds
        /\ pc' = pc \/ pc'["bench"] = "cleanup"
    BY <1>5 DEF Sigterm, FcntlState, FcntlShape
  <2> QED BY <2>1 DEF FcntlState, FcntlShape, FcntlTurn, Mine
<1>6. CASE FcntlKill
  <2>1. mem' = [mem EXCEPT !.faults = @ - 1]
        \/ mem' = [mem EXCEPT !.cookie = "other", !.sigchld = "default", !.faults = @ - 1]
    BY <1>6 DEF FcntlKill, MemAfterChild, FcntlState, FcntlShape
  <2>2. pc'["bench"] \in {pc["bench"], "cleanup"} /\ DOMAIN pc' = DOMAIN pc
    BY <1>6 DEF FcntlKill, ChildEnded, FcntlState, FcntlShape
  <2>3. /\ "owner" \in DOMAIN chan' /\ DOMAIN chan'.owner = 1..2
        /\ \A i \in 1..2 : Mine(i)' <=> Mine(i)
    BY <1>6 DEF FcntlKill, LocksLost, FcntlState, FcntlShape, Mine
  <2>4. /\ DOMAIN mem' = DOMAIN mem /\ mem'.left = mem.left /\ mem'.rounds = mem.rounds
        /\ program' = program
    BY <1>6, <2>1 DEF FcntlKill, FcntlState, FcntlShape
  <2> QED BY <2>2, <2>3, <2>4 DEF FcntlState, FcntlShape, FcntlTurn
<1>7. ~(SelectMain \/ SelectInitialize \/ SelectDoit \/ SelectCleanup \/ SelectServer
        \/ SelectParent \/ SelectKill)
  BY <1>0 DEF SelectMain, SelectInitialize, SelectDoit, SelectCleanup, SelectServer,
              SelectParent, SelectKill, At
<1> QED BY <1>1, <1>2, <1>3, <1>4, <1>5, <1>6, <1>7, FcntlIteration, FcntlHelper
        DEF LockNext, LockBench, LockHelper, LockParent

-----------------------------------------------------------------------------
(* bw_unix with a byte count that is a multiple of the piece: what the        *)
(* benchmark asked for is in the socket, in its own hands, or still with the   *)
(* helper, to the byte.                                                        *)
UnixShape ==
  /\ program = "bw_unix"
  /\ DOMAIN pc = {"bench", "helper"}
  /\ {"left", "rounds", "cookie", "sigchld", "flag", "first", "pid", "faults", "killed"}
       \subseteq DOMAIN mem
  /\ DOMAIN chan = {"data", "control", "todo", "done", "piece"}
  /\ pc["bench"] \in {"init", "interval", "run", "read"} =>
       /\ {"xfer", "bytes", "read"} \subseteq DOMAIN mem
       /\ mem.xfer \in 1..2 /\ mem.bytes \in Nat
       /\ mem.bytes % mem.xfer = 0 => mem.xfer = 1 \/ mem.bytes = 2

Whole == mem.xfer \in 1..2 /\ mem.bytes \in Nat /\ (mem.xfer = 1 \/ (mem.xfer = 2 /\ mem.bytes = 2))

Nothing == chan.data = 0 /\ chan.control = 0 /\ mem.read = 0 /\ pc["helper"] \in {"ask"} \cup Dead

Reading ==
  /\ chan.data \in Nat /\ mem.read \in Nat /\ mem.read + chan.data <= mem.bytes
  /\ \/ /\ chan.control = 1 /\ chan.data = 0 /\ mem.read = 0 /\ pc["helper"] \in {"ask"} \cup Dead
     \/ /\ chan.control = 0 /\ pc["helper"] = "write" /\ chan.todo = mem.bytes
        /\ chan.done \in Nat /\ chan.piece \in 1..mem.xfer
        /\ chan.done + mem.xfer <= mem.bytes
        /\ mem.read + chan.data + chan.piece = chan.done + mem.xfer
     \/ chan.control = 0 /\ pc["helper"] = "ask" /\ mem.read + chan.data = mem.bytes
     \/ chan.control = 0 /\ pc["helper"] \in Dead

UnixFlow ==
  /\ pc["bench"] \in {"main", "init"} =>
       chan.data = 0 /\ chan.control = 0 /\ pc["helper"] = "none"
  /\ pc["bench"] = "init" => mem.read = 0
  /\ pc["bench"] \in {"interval", "run"} /\ mem.pid = "helper" /\ Whole => Nothing
  /\ pc["bench"] = "read" /\ mem.pid = "helper" /\ Whole => Reading

UnixState == UnixShape /\ UnixFlow
UnixInv == program = "bw_unix" => UnixState

LEMMA UnixStart == TransferInit => UnixInv
  BY DEF TransferInit, ChildInit, UnixInv, UnixState, UnixShape, UnixFlow

(* What a step leaves alone in the memory of the benchmark.                   *)
Called == {"xfer", "bytes", "read"} \subseteq DOMAIN mem
Untouched ==
  /\ DOMAIN mem' = DOMAIN mem /\ mem'.pid = mem.pid
  /\ Called => mem'.xfer = mem.xfer /\ mem'.bytes = mem.bytes /\ mem'.read = mem.read

LEMMA UnixOver ==
  ASSUME UnixShape', pc'["bench"] \in {"usage", "cleanup", "ended"} PROVE UnixState'
BY DEF UnixState, UnixFlow

LEMMA UnixBegins == UnixState /\ (BwUnixMain \/ BwUnixInitialize) => UnixState'
<1> SUFFICES ASSUME UnixState, BwUnixMain \/ BwUnixInitialize PROVE UnixState' OBVIOUS
<1>1. CASE BwUnixMain
  <2>1. PICK xfer \in 1..2, bytes \in 1..3 :
          Call("bw_unix", Memory(xfer, RoundUnix(bytes, xfer)))
    BY <1>1 DEF BwUnixMain
  <2> DEFINE m == Memory(xfer, RoundUnix(bytes, xfer))
  <2>2. /\ program' = program /\ chan' = chan /\ DOMAIN pc' = DOMAIN pc /\ pc["bench"] = "main"
        /\ pc'["helper"] = pc["helper"]
        /\ \/ pc'["bench"] = "usage" /\ mem' = mem
           \/ pc'["bench"] = "init" /\ mem' \in {m, [m EXCEPT !.first = FALSE]}
    BY <2>1 DEF Call, At, UnixState, UnixShape
  <2>3. CASE pc'["bench"] = "usage"
    BY <2>2, <2>3, UnixOver DEF UnixState, UnixShape
  <2>4. CASE pc'["bench"] = "init"
    <3>1. RoundUnix(bytes, xfer) \in Nat
          /\ (RoundUnix(bytes, xfer) % xfer = 0 => xfer = 1 \/ RoundUnix(bytes, xfer) = 2)
      <4>1. CASE xfer = 1 BY <4>1 DEF RoundUnix
      <4>2. CASE xfer = 2 /\ bytes = 1 BY <4>2 DEF RoundUnix
      <4>3. CASE xfer = 2 /\ bytes = 2 BY <4>3 DEF RoundUnix
      <4>4. CASE xfer = 2 /\ bytes = 3 BY <4>4 DEF RoundUnix
      <4> QED BY <4>1, <4>2, <4>3, <4>4
    <3>2. /\ DOMAIN m = {"left", "rounds", "cookie", "sigchld", "flag", "first", "pid", "faults",
                         "killed", "xfer", "bytes", "read"}
          /\ m.xfer = xfer /\ m.bytes = RoundUnix(bytes, xfer) /\ m.read = 0
      BY DEF Memory, With, ChildInit
    <3>3. DOMAIN mem' = DOMAIN m /\ mem'.xfer = m.xfer /\ mem'.bytes = m.bytes /\ mem'.read = m.read
      <4> HIDE DEF m
      <4> QED BY <2>2, <2>4, <3>2
    <3> HIDE DEF m
    <3>4. UnixShape' BY <2>2, <2>4, <3>1, <3>2, <3>3 DEF UnixState, UnixShape
    <3>5. UnixFlow' BY <2>2, <2>4, <3>2, <3>3 DEF UnixState, UnixFlow
    <3> QED BY <3>4, <3>5 DEF UnixState
  <2> QED BY <2>2, <2>3, <2>4
<1>2. CASE BwUnixInitialize
  <2>1. /\ program' = program /\ DOMAIN pc' = DOMAIN pc /\ DOMAIN chan' = DOMAIN chan
        /\ pc["bench"] = "init" /\ pc'["bench"] \in {"cleanup", "interval"}
        /\ chan'.data = chan.data /\ chan'.control = chan.control
        /\ DOMAIN mem' = DOMAIN mem /\ mem'.xfer = mem.xfer /\ mem'.bytes = mem.bytes
        /\ mem'.read = mem.read
        /\ mem'.pid = "helper" => pc'["helper"] = "ask"
    BY <1>2 DEF BwUnixInitialize, Start, At, AfterInitialize, UnixState, UnixShape
  <2>2. UnixShape' BY <2>1 DEF UnixState, UnixShape
  <2>3. UnixFlow' BY <2>1 DEF UnixState, UnixShape, UnixFlow, Nothing
  <2> QED BY <2>2, <2>3 DEF UnixState
<1> QED BY <1>1, <1>2

(* The benchmark asks and reads.                                              *)
LEMMA UnixTakes ==
  ASSUME UnixState, pc["bench"] = "read", NEW n \in 1..Smaller(chan.data, mem.xfer), Take(n),
         program' = program
  PROVE  UnixState'
<1>1. /\ DOMAIN chan' = DOMAIN chan /\ chan'.data = chan.data - n /\ chan'.control = chan.control
      /\ chan'.todo = chan.todo /\ chan'.done = chan.done /\ chan'.piece = chan.piece
      /\ DOMAIN pc' = DOMAIN pc /\ pc'["helper"] = pc["helper"]
      /\ DOMAIN mem' = DOMAIN mem /\ mem'.xfer = mem.xfer /\ mem'.bytes = mem.bytes
      /\ mem'.pid = mem.pid
  BY DEF Take, BenchAt, UnixState, UnixShape
<1>2. IF mem.read + n >= mem.bytes THEN mem'.read = 0 /\ pc'["bench"] = "run"
      ELSE mem'.read = mem.read + n /\ pc'["bench"] = "read"
  BY DEF Take, BenchAt, UnixState, UnixShape
<1>3. pc'["bench"] \in {"run", "read"} BY <1>2
<1>4. UnixShape' BY <1>1, <1>3 DEF UnixState, UnixShape
<1>5. ASSUME mem.pid = "helper", Whole
      PROVE  IF pc'["bench"] = "run" THEN Nothing' ELSE Reading'
  <2>1. Reading BY <1>5 DEF UnixState, UnixFlow
  <2>2. n \in Nat \ {0} /\ n <= chan.data
    BY <1>5, <2>1 DEF Reading, Smaller, Whole
  <2>3. chan'.data \in Nat /\ chan.data > 0 BY <1>1, <2>1, <2>2 DEF Reading
  <2>4. CASE mem.read + n >= mem.bytes
    <3>1. chan.data = n /\ mem.read + chan.data = mem.bytes
      BY <1>5, <2>1, <2>2, <2>4 DEF Reading, Whole
    <3>2. chan.control = 0 /\ pc["helper"] \in {"ask"} \cup Dead
      BY <1>5, <2>1, <2>3, <3>1 DEF Reading, Whole
    <3> QED BY <1>1, <1>2, <2>1, <2>4, <3>1, <3>2 DEF Nothing, Reading
  <2>5. CASE ~(mem.read + n >= mem.bytes)
    <3>1. mem'.read = mem.read + n /\ pc'["bench"] = "read" BY <1>2, <2>5
    <3>2. mem'.read + chan'.data = mem.read + chan.data /\ mem'.read \in Nat
      BY <1>1, <2>1, <2>2, <3>1 DEF Reading
    <3>3. Reading' BY <1>1, <1>5, <2>1, <2>3, <3>2 DEF Reading, Whole
    <3> QED BY <3>1, <3>3
  <2> QED BY <2>4, <2>5
<1>6. UnixFlow' BY <1>1, <1>3, <1>5 DEF UnixFlow, Whole
<1> QED BY <1>4, <1>6 DEF UnixState

LEMMA UnixEnds ==
  ASSUME UnixState, pc' = BenchEnds(pc), program' = program, DOMAIN chan' = DOMAIN chan,
         DOMAIN mem' = DOMAIN mem
  PROVE  UnixState'
BY UnixOver DEF BenchEnds, UnixState, UnixShape

LEMMA UnixReads == UnixState /\ BwUnixReader => UnixState'
<1> SUFFICES ASSUME UnixState, BwUnixReader PROVE UnixState' OBVIOUS
<1>0. program' = program BY DEF BwUnixReader
<1>1. CASE /\ pc["bench"] = "run" /\ mem.left = 0
           /\ pc' = BenchAt("interval") /\ UNCHANGED <<mem, chan>>
  BY <1>0, <1>1 DEF BenchAt, UnixState, UnixShape, UnixFlow, Whole, Nothing
<1>2. CASE pc["bench"] = "run" /\ ~HelperDead /\ chan' = [chan EXCEPT !.control = @ + 1]
           /\ pc' = BenchAt("read") /\ UNCHANGED mem
  <2>1. /\ DOMAIN chan' = DOMAIN chan /\ chan'.data = chan.data /\ chan'.control = chan.control + 1
        /\ DOMAIN pc' = DOMAIN pc /\ pc'["helper"] = pc["helper"] /\ pc'["bench"] = "read"
    BY <1>2 DEF BenchAt, UnixState, UnixShape
  <2>2. UnixShape' BY <1>0, <1>2, <2>1 DEF UnixState, UnixShape
  <2>3. ASSUME mem.pid = "helper", Whole PROVE Reading'
    <3>1. Nothing BY <1>2, <2>3 DEF UnixState, UnixFlow
    <3> QED BY <1>2, <2>1, <2>3, <3>1 DEF Nothing, Reading, Whole
  <2>4. UnixFlow' BY <1>2, <2>1, <2>3 DEF UnixFlow, Whole
  <2> QED BY <2>2, <2>4 DEF UnixState
<1>3. CASE pc' = BenchEnds(pc) /\ UNCHANGED <<mem, chan>> BY <1>0, <1>3, UnixEnds
<1>4. CASE pc["bench"] = "read" /\ \E n \in 1..Smaller(chan.data, mem.xfer) : Take(n)
  BY <1>0, <1>4, UnixTakes
<1> QED BY <1>1, <1>2, <1>3, <1>4 DEF BwUnixReader

(* The helper is asked and writes.                                            *)
LEMMA UnixWrites == UnixState /\ BwUnixWriter => UnixState'
<1> SUFFICES ASSUME UnixState, BwUnixWriter PROVE UnixState' OBVIOUS
<1>1. CASE BenchGone
  <2>1. /\ program' = program /\ DOMAIN pc' = DOMAIN pc /\ DOMAIN chan' = DOMAIN chan
        /\ pc'["bench"] = "ended" /\ {"left", "rounds", "cookie", "sigchld", "flag", "first", "pid",
                                      "faults", "killed"} \subseteq DOMAIN mem'
    BY <1>1 DEF BwUnixWriter, BenchGone, HelperDies, ChildEnded, MemAfterChild, Notices, At,
                UnixState, UnixShape
  <2>2. UnixShape' BY <2>1 DEF UnixState, UnixShape
  <2> QED BY <2>1, <2>2, UnixOver
<1>2. CASE /\ At("bw_unix", "helper", "ask") /\ chan.control > 0
           /\ chan' = [chan EXCEPT !.control = @ - 1, !.todo = mem.bytes, !.done = 0,
                                   !.piece = mem.xfer]
           /\ pc' = [pc EXCEPT !["helper"] = Asked(mem.bytes)]
           /\ UNCHANGED <<program, mem>>
  <2>1. /\ DOMAIN chan' = DOMAIN chan /\ chan'.data = chan.data /\ chan'.control = chan.control - 1
        /\ chan'.todo = mem.bytes /\ chan'.done = 0 /\ chan'.piece = mem.xfer
        /\ DOMAIN pc' = DOMAIN pc /\ pc'["bench"] = pc["bench"] /\ pc["helper"] = "ask"
        /\ pc'["helper"] = IF mem.bytes > 0 THEN "write" ELSE "ask"
    BY <1>2 DEF Asked, At, UnixState, UnixShape
  <2>2. UnixShape' BY <1>2, <2>1 DEF UnixState, UnixShape
  <2>3. ASSUME pc["bench"] = "read", mem.pid = "helper", Whole PROVE Reading'
    <3>1. Reading BY <2>3 DEF UnixState, UnixFlow
    <3>2. chan.control = 1 /\ chan.data = 0 /\ mem.read = 0 BY <1>2, <3>1 DEF Reading
    <3>3. mem.bytes > 0 => mem.xfer <= mem.bytes BY <2>3 DEF Whole
    <3> QED BY <1>2, <2>1, <2>3, <3>1, <3>2, <3>3 DEF Reading, Whole
  <2>4. ~(pc["bench"] \in {"interval", "run"} /\ mem.pid = "helper" /\ Whole)
    BY <1>2 DEF UnixState, UnixFlow, Nothing
  <2>5. UnixFlow' BY <1>2, <2>1, <2>3, <2>4 DEF UnixState, UnixFlow, Whole
  <2> QED BY <2>2, <2>5 DEF UnixState
<1>3. CASE /\ At("bw_unix", "helper", "write")
           /\ IF chan.piece > 1
              THEN /\ chan' = [chan EXCEPT !.data = @ + 1, !.piece = @ - 1]
                   /\ UNCHANGED pc
              ELSE /\ chan' = [chan EXCEPT !.data = @ + 1, !.piece = mem.xfer,
                                           !.done = @ + mem.xfer]
                   /\ pc' = [pc EXCEPT !["helper"] =
                               IF chan.done + mem.xfer < chan.todo THEN "write" ELSE "ask"]
           /\ UNCHANGED <<program, mem>>
  <2>1. /\ DOMAIN chan' = DOMAIN chan /\ chan'.data = chan.data + 1 /\ chan'.control = chan.control
        /\ chan'.todo = chan.todo /\ pc["helper"] = "write"
        /\ DOMAIN pc' = DOMAIN pc /\ pc'["bench"] = pc["bench"]
    BY <1>3 DEF At, UnixState, UnixShape
  <2>2. IF chan.piece > 1
        THEN chan'.piece = chan.piece - 1 /\ chan'.done = chan.done /\ pc'["helper"] = "write"
        ELSE /\ chan'.piece = mem.xfer /\ chan'.done = chan.done + mem.xfer
             /\ pc'["helper"] = IF chan.done + mem.xfer < chan.todo THEN "write" ELSE "ask"
    BY <1>3 DEF At, UnixState, UnixShape
  <2>3. UnixShape' BY <1>3, <2>1 DEF UnixState, UnixShape
  <2>4. ASSUME pc["bench"] = "read", mem.pid = "helper", Whole PROVE Reading'
    <3>1. /\ chan.data \in Nat /\ mem.read \in Nat /\ chan.control = 0 /\ chan.todo = mem.bytes
          /\ chan.done \in Nat /\ chan.piece \in 1..mem.xfer
          /\ chan.done + mem.xfer <= mem.bytes
          /\ mem.read + chan.data + chan.piece = chan.done + mem.xfer
      <4>1. Reading BY <2>4 DEF UnixState, UnixFlow
      <4> QED BY <2>1, <4>1 DEF Reading, Dead
    <3>2. CASE chan.piece > 1
      BY <1>3, <2>1, <2>2, <2>4, <3>1, <3>2 DEF Reading, Whole
    <3>3. CASE ~(chan.piece > 1) /\ chan.done + mem.xfer < chan.todo
      BY <1>3, <2>1, <2>2, <2>4, <3>1, <3>3 DEF Reading, Whole
    <3>4. CASE ~(chan.piece > 1) /\ ~(chan.done + mem.xfer < chan.todo)
      BY <1>3, <2>1, <2>2, <2>4, <3>1, <3>4 DEF Reading, Whole
    <3> QED BY <3>2, <3>3, <3>4
  <2>5. ~(pc["bench"] \in {"interval", "run"} /\ mem.pid = "helper" /\ Whole)
    BY <2>1 DEF UnixState, UnixFlow, Nothing, Dead
  <2>6. pc["bench"] \notin {"main", "init"} BY <2>1 DEF UnixState, UnixFlow
  <2>7. UnixFlow' BY <1>3, <2>1, <2>4, <2>5, <2>6 DEF UnixFlow, Whole
  <2> QED BY <2>3, <2>7 DEF UnixState
<1> QED BY <1>1, <1>2, <1>3 DEF BwUnixWriter

(* A dead helper sends nothing more; what it has sent may still be read.      *)
LEMMA UnixKill == UnixState /\ KillHelper("helper") => UnixState'
<1> SUFFICES ASSUME UnixState, KillHelper("helper") PROVE UnixState' OBVIOUS
<1>1. /\ program' = program /\ chan' = chan /\ DOMAIN pc' = DOMAIN pc
      /\ pc["helper"] # "none" /\ pc'["helper"] \in Dead /\ pc'["bench"] \in {"cleanup", pc["bench"]}
  BY DEF KillHelper, ChildEnded, Dead, UnixState, UnixShape
<1>2. Untouched
  <2>1. mem' = [mem EXCEPT !.faults = @ - 1]
        \/ mem' = [mem EXCEPT !.cookie = "other", !.sigchld = "default", !.faults = @ - 1]
    BY DEF KillHelper, MemAfterChild, UnixState, UnixShape
  <2> QED BY <2>1 DEF Untouched, Called, UnixState, UnixShape
<1>3. UnixShape' BY <1>1, <1>2 DEF UnixState, UnixShape, Untouched, Called
<1>4. Called /\ Nothing => Nothing' BY <1>1, <1>2 DEF Nothing, Untouched
<1>5. Called /\ Reading => Reading' BY <1>1, <1>2 DEF Reading, Untouched
<1>6. UnixFlow'
  BY <1>1, <1>2, <1>4, <1>5 DEF UnixState, UnixShape, UnixFlow, Whole, Untouched, Called
<1> QED BY <1>3, <1>6 DEF UnixState

LEMMA UnixStep == UnixState /\ TransferNext => UnixState'
<1> SUFFICES ASSUME UnixState, TransferNext PROVE UnixState' OBVIOUS
<1>0. program = "bw_unix" BY DEF UnixState, UnixShape
<1>1. CASE Interval
  <2>1. /\ program' = program /\ chan' = chan /\ pc["bench"] = "interval"
        /\ DOMAIN pc' = DOMAIN pc /\ pc'["helper"] = pc["helper"]
        /\ pc'["bench"] \in {"run", "cleanup"}
    BY <1>1 DEF Interval, UnixState, UnixShape
  <2>2. Untouched BY <1>1 DEF Interval, Untouched, Called, UnixState, UnixShape
  <2>3. UnixShape' BY <2>1, <2>2 DEF UnixState, UnixShape, Untouched, Called
  <2>4. UnixFlow'
    BY <2>1, <2>2 DEF UnixState, UnixShape, UnixFlow, Nothing, Whole, Untouched, Called
  <2> QED BY <2>3, <2>4 DEF UnixState
<1>2. CASE Sigterm
  <2>1. /\ program' = program /\ chan' = chan
        /\ DOMAIN pc' = DOMAIN pc /\ pc'["helper"] = pc["helper"]
        /\ pc'["bench"] \in {pc["bench"], "cleanup"}
    BY <1>2 DEF Sigterm, UnixState, UnixShape
  <2>2. Untouched BY <1>2 DEF Sigterm, Untouched, Called, UnixState, UnixShape
  <2>3. UnixShape' BY <2>1, <2>2 DEF UnixState, UnixShape, Untouched, Called
  <2>4. (Called /\ Nothing => Nothing') /\ (Called /\ Reading => Reading')
    BY <2>1, <2>2 DEF Nothing, Reading, Untouched
  <2>5. UnixFlow'
    BY <2>1, <2>2, <2>4 DEF UnixState, UnixShape, UnixFlow, Whole, Untouched, Called
  <2> QED BY <2>3, <2>5 DEF UnixState
<1>3. CASE BwUnixCleanup
  <2>1. /\ program' = program /\ chan' = chan /\ DOMAIN mem' = DOMAIN mem
        /\ DOMAIN pc' = DOMAIN pc /\ pc'["bench"] = "ended"
    BY <1>3 DEF BwUnixCleanup, KillHelperOnly, BenchEnds, UnixState, UnixShape
  <2> QED BY <2>1, UnixOver DEF UnixState, UnixShape
<1>4. ~(BwPipeMain \/ BwPipeInitialize \/ BwPipeReader \/ BwPipeCleanup \/ BwPipeWriter)
  BY <1>0 DEF BwPipeMain, BwPipeInitialize, BwPipeReader, BwPipeCleanup, BwPipeWriter, Call, Start, At
<1> QED BY <1>1, <1>2, <1>3, <1>4, UnixBegins, UnixReads, UnixWrites, UnixKill
        DEF TransferNext, TransferBench, TransferHelper

LEMMA UnixSeparate == UnixInv => TransfersSeparate
<1> SUFFICES ASSUME UnixInv, program = "bw_unix", pc["bench"] = "interval", mem.pid = "helper",
                    mem.bytes % mem.xfer = 0
             PROVE  chan.data = 0 /\ chan.control = 0 /\ pc["helper"] \in {"ask"} \cup Dead
  BY DEF TransfersSeparate
<1>1. UnixState BY DEF UnixInv
<1>2. Whole BY <1>1 DEF UnixState, UnixShape, Whole
<1> QED BY <1>1, <1>2 DEF UnixState, UnixFlow, Nothing

-----------------------------------------------------------------------------
(* lmdd: its records, and which kinds of copies there are.                     *)
Settings == {"fork", "seek", "norepeat", "pad", "padded", "gotcnt", "count", "start", "off", "buf",
             "blocks", "past", "norepeats", "pid", "faults", "cookie", "killed"}
LmddPlaces == {"main", "usage", "loop", "read", "write", "fork", "done", "ended"}
LmddShape ==
  /\ program = "lmdd"
  /\ DOMAIN pc = {"bench", "helper"} /\ pc["bench"] \in LmddPlaces
  /\ pc["helper"] \in {"none", "write"} \cup Dead
  /\ DOMAIN mem = Settings
  /\ DOMAIN chan = {"in", "out", "file", "log", "toWrite", "synced", "reports"}
  /\ mem.fork \in BOOLEAN /\ mem.norepeat \in BOOLEAN /\ mem.gotcnt \in BOOLEAN
  /\ mem.pad \in BOOLEAN /\ mem.padded \in BOOLEAN /\ (mem.pad => mem.padded)
  /\ mem.seek \in {"none", "rand", "end"}
  /\ mem.count \in Nat /\ mem.off \in Nat /\ mem.blocks \in Nat /\ mem.faults \in 0..MaxFaults
  /\ chan.in \in Nat /\ chan.out \in Nat

(* Only a program with fork= has a child, and it knows the one that writes.    *)
Kinds ==
  /\ ~mem.fork => pc["helper"] = "none" /\ pc["bench"] # "fork"
  /\ mem.fork => pc["bench"] # "write"
  /\ pc["helper"] = "write" => mem.pid = "helper"
  /\ mem.norepeat => mem.seek # "none"
  /\ pc["bench"] \in {"main", "usage"} => ~mem.norepeat

AtFirst ==
  pc["bench"] = "main" =>
    /\ pc["helper"] = "none" /\ chan.in = 0 /\ chan.out = 0
    /\ DOMAIN chan.file = {} /\ chan.reports = 0

Faultless == mem.faults = MaxFaults
First == IF mem.padded /\ mem.seek = "none" THEN 1 ELSE 0
Behind == IF pc["helper"] = "write" THEN 1 ELSE 0   \* what was read and forked, not written

(* The copies in order: the position of the output follows that of the input.  *)
Following ==
  /\ mem.pad => /\ chan.in = 0 /\ chan.out = 0 /\ pc["helper"] = "none"
                /\ pc["bench"] \notin {"write", "fork"}
  /\ ~mem.pad /\ pc["bench"] \in {"loop", "read"} => chan.in = chan.out + First + Behind
  /\ ~mem.pad /\ pc["bench"] \in {"write", "fork"} =>
       mem.buf = chan.out + First + Behind /\ chan.in = mem.buf + 1
  /\ pc["helper"] = "write" => chan.toWrite = chan.out + First
InOrder == mem.seek = "none" /\ (mem.fork => Faultless) => Following

(* The copies at random offsets.                                               *)
AtRandom ==
  mem.seek # "none" /\ ~mem.fork =>
    /\ pc["bench"] = "read" => chan.in = chan.out
    /\ pc["bench"] = "write" => mem.buf = chan.out

Placed ==
  /\ (mem.seek = "none" \/ ~mem.fork) /\ (mem.fork => Faultless) =>
       \A p \in DOMAIN chan.file : chan.file[p] = p + First
  /\ mem.seek = "none" => DOMAIN chan.file = 0..(chan.out - 1)

(* What was counted was written, but for the child's block.                    *)
Synced ==
  \E n \in Nat : chan.synced = 0..(n - 1) /\ mem.blocks <= n + (IF mem.fork THEN 1 ELSE 0)
Counted ==
  Faultless =>
    /\ chan.reports = IF pc["bench"] = "ended" THEN 1 ELSE 0
    /\ mem.seek = "none" => mem.blocks = chan.out + Behind
    /\ mem.seek = "none" /\ pc["bench"] = "ended" => Synced

(* norepeat=: the draws, whose last one is not in the log before its block is   *)
(* read, and the list of them, which lags one behind.                          *)
Log == Len(chan.log)
Draws == Log + (IF pc["bench"] = "read" THEN 1 ELSE 0)
Drew(i) == IF i <= Log THEN chan.log[i] ELSE mem.off
Apart == \A i, j \in 1..Log : 1 < i /\ i < j /\ OneList(i, j) => chan.log[i] # chan.log[j]

(* The list has a place for every draw that is still to come.                  *)
Extra == IF mem.padded /\ ~mem.pad THEN 1 ELSE 0   \* the draw of the padded block
Room ==
  \E size \in Nat :
    /\ DOMAIN mem.past = 1..size
    /\ IF mem.gotcnt THEN mem.count + mem.norepeats <= size + Extra ELSE size = Remember

Numbered ==
  IF mem.gotcnt THEN mem.norepeats = Draws
  ELSE /\ mem.norepeats <= Remember /\ (mem.norepeats = 0 => Draws = 0)
       /\ \E b \in Nat : Draws = b * Remember + mem.norepeats

Listed ==
  \A i \in 2..Draws :
    OneList(i, Draws + 1) => \E q \in 1..(mem.norepeats - 1) : mem.past[q] = Drew(i)
NewDraw ==
  pc["bench"] = "read" => \A i \in 2..Log : OneList(i, Log + 1) => chan.log[i] # mem.off

Copies == {"loop", "read", "write", "fork"}
Drawn ==
  /\ mem.norepeats \in Nat /\ chan.log \in Seq(Nat) /\ Apart
  /\ pc["bench"] \in Copies => Room /\ Numbered /\ Listed /\ NewDraw
Remembers == IF mem.norepeat THEN Drawn ELSE chan.log = <<>>

LmddState == LmddShape /\ Kinds /\ AtFirst /\ InOrder /\ AtRandom /\ Placed /\ Counted /\ Remembers
LmddInv == program = "lmdd" => LmddState

(* Multiples of a number, and division by it.                                   *)
LEMMA Multiples ==
  ASSUME NEW d \in Nat \ {0}, NEW a \in Nat, NEW b \in Nat
  PROVE  /\ a * d \in Nat
         /\ a < b => a * d + d <= b * d
         /\ a * d = b * d => a = b
<1>1. a * d \in Nat /\ b * d \in Nat OBVIOUS
<1>2. ASSUME NEW x \in Nat, NEW y \in Nat, x < y PROVE x * d + d <= y * d
  <2>1. PICK z \in Nat : y = x + 1 + z
    <3>1. y - x - 1 \in Nat /\ y = x + 1 + (y - x - 1) BY <1>2
    <3> QED BY <3>1
  <2>2. y * d = x * d + d + z * d BY <2>1
  <2>3. z * d \in Nat /\ x * d \in Nat OBVIOUS
  <2> QED BY <2>2, <2>3
<1>3. a * d = b * d => a = b
  <2>1. CASE a < b BY <1>1, <1>2, <2>1
  <2>2. CASE b < a BY <1>1, <1>2, <2>2
  <2>3. CASE a = b BY <2>3
  <2> QED BY <2>1, <2>2, <2>3
<1> QED BY <1>1, <1>2, <1>3

LEMMA Divided ==
  ASSUME NEW d \in Nat \ {0}, NEW m \in Nat
  PROVE  /\ m \div d \in Nat /\ m % d \in 0..(d - 1)
         /\ m = (m \div d) * d + (m % d)
OBVIOUS

LEMMA LmddStart == LmddInit => LmddInv
<1> SUFFICES ASSUME LmddInit PROVE LmddState BY DEF LmddInv
<1>1. /\ program = "lmdd" /\ DOMAIN pc = {"bench", "helper"} /\ pc["bench"] = "main"
      /\ pc["helper"] = "none" /\ mem = LmddMemory(FALSE, "none", FALSE, FALSE, 0)
      /\ DOMAIN chan = {"in", "out", "file", "log", "toWrite", "synced", "reports"}
      /\ chan.in = 0 /\ chan.out = 0 /\ chan.file = <<>> /\ chan.log = <<>> /\ chan.reports = 0
  BY DEF LmddInit
<1>2. LmddShape
  BY <1>1, BenchAssumption, CopierAssumption DEF LmddShape, Settings, LmddPlaces, LmddMemory, NoCount
<1>3. /\ ~mem.fork /\ ~mem.norepeat /\ ~mem.pad /\ mem.seek = "none" /\ mem.blocks = 0
      /\ mem.faults = MaxFaults
  BY <1>1 DEF LmddMemory
<1>0. DOMAIN chan.file = {} BY <1>1
<1>4. Kinds /\ AtFirst /\ AtRandom BY <1>0, <1>1, <1>3 DEF Kinds, AtFirst, AtRandom
<1>7. InOrder BY <1>1, <1>3 DEF InOrder, Following
<1>5. Placed /\ Remembers BY <1>0, <1>1, <1>3 DEF Placed, Remembers
<1>6. Counted
  <2>1. chan.out + Behind = 0 BY <1>1 DEF Behind
  <2> QED BY <1>1, <1>3, <2>1 DEF Counted
<1> QED BY <1>2, <1>4, <1>5, <1>6, <1>7 DEF LmddState

(* What main() sets once.                                                     *)
SetOnce ==
  /\ mem'.fork = mem.fork /\ mem'.seek = mem.seek /\ mem'.norepeat = mem.norepeat
  /\ mem'.padded = mem.padded /\ mem'.gotcnt = mem.gotcnt
NoDraw ==
  /\ mem'.past = mem.past /\ mem'.norepeats = mem.norepeats
  /\ mem'.count = mem.count /\ mem'.pad = mem.pad /\ chan'.log = chan.log

(* The list is as it was, for a step that draws no offset.                     *)
LEMMA DrawnStays ==
  ASSUME Remembers, SetOnce, NoDraw,
         \/ pc'["bench"] \notin Copies
         \/ pc["bench"] \in Copies \ {"read"} /\ pc'["bench"] \in Copies \ {"read"}
         \/ pc'["bench"] = pc["bench"] /\ mem'.off = mem.off
  PROVE  Remembers'
<1>1. Apart => Apart' BY DEF Apart, Log, OneList, NoDraw, SetOnce
<1>2. CASE pc'["bench"] \notin Copies
  BY <1>1, <1>2 DEF Remembers, Drawn, NoDraw, SetOnce
<1>3. CASE /\ pc["bench"] \in Copies /\ pc'["bench"] \in Copies
           /\ (pc["bench"] = "read" <=> pc'["bench"] = "read")
           /\ (pc["bench"] = "read" => mem'.off = mem.off)
  <2>1. Draws' = Draws /\ Log' = Log /\ Extra' = Extra
    BY <1>3 DEF Draws, Log, Extra, NoDraw, SetOnce
  <2>2. Room => Room' BY <2>1 DEF Room, NoDraw, SetOnce
  <2>3. Numbered => Numbered' BY <2>1 DEF Numbered, NoDraw, SetOnce
  <2>4. ASSUME mem.norepeats \in Nat, chan.log \in Seq(Nat), Listed PROVE Listed'
    <3>0. PICK n \in Nat : n = Log BY <2>4, LenProperties DEF Log
    <3>1. \A i \in 2..Draws : Drew(i)' = Drew(i)
      <4>1. CASE pc["bench"] = "read"
        BY <1>3, <2>1, <4>1 DEF Drew, NoDraw
      <4>2. CASE pc["bench"] # "read"
        <5>1. Draws = n BY <3>0, <4>2 DEF Draws
        <5> QED BY <2>1, <3>0, <5>1 DEF Drew, NoDraw
      <4> QED BY <4>1, <4>2
    <3>2. \A i \in 2..Draws : OneList(i, Draws + 1)' = OneList(i, Draws + 1)
      BY <2>1 DEF OneList, SetOnce
    <3> QED BY <2>1, <2>4, <3>1, <3>2 DEF Listed, NoDraw
  <2>5. NewDraw => NewDraw' BY <1>3, <2>1 DEF NewDraw, OneList, NoDraw, SetOnce
  <2> QED BY <1>1, <1>3, <2>2, <2>3, <2>4, <2>5 DEF Remembers, Drawn, NoDraw, SetOnce
<1> QED BY <1>2, <1>3

LEMMA LmddBegins == LmddState /\ LmddMain => LmddState'
<1> SUFFICES ASSUME LmddState, LmddMain PROVE LmddState' OBVIOUS
<1>1. /\ program' = program /\ chan' = chan /\ DOMAIN pc' = DOMAIN pc
      /\ pc'["helper"] = pc["helper"] /\ pc["bench"] = "main"
      /\ program = "lmdd"
  BY DEF LmddMain, LmddTo, At, LmddState, LmddShape
<1>2. CASE pc' = LmddTo("usage") /\ mem' = mem
  <2>1. pc'["bench"] = "usage" BY <1>2 DEF LmddTo, LmddState, LmddShape
  <2>2. LmddShape' BY <1>1, <1>2, <2>1 DEF LmddState, LmddShape, LmddPlaces
  <2>3. Kinds' /\ AtFirst' BY <1>1, <1>2, <2>1 DEF LmddState, Kinds, AtFirst
  <2>4. InOrder' BY <1>1, <1>2, <2>1 DEF LmddState, InOrder, Following, Faultless, First, Behind
  <2>5. AtRandom' /\ Placed' BY <1>1, <1>2, <2>1 DEF LmddState, AtRandom, Placed, First, Faultless
  <2>6. Counted' BY <1>1, <1>2, <2>1 DEF LmddState, Counted, Behind, Faultless
  <2>7. Remembers' BY <1>1, <1>2, <2>1 DEF LmddState, Kinds, Remembers
  <2> QED BY <2>2, <2>3, <2>4, <2>5, <2>6, <2>7 DEF LmddState
<1>3. ASSUME NEW fork \in BOOLEAN, NEW padin \in BOOLEAN,
             NEW count \in (1..FileBlocks) \cup {NoCount},
             NEW seek \in {"none", "rand", "end"}, NEW norepeat \in BOOLEAN,
             norepeat => seek # "none",
             mem' = LmddMemory(fork, seek, norepeat, padin, count), pc' = LmddTo("loop")
      PROVE  LmddState'
  <2>1. /\ DOMAIN mem' = Settings /\ mem'.fork = fork /\ mem'.seek = seek
        /\ mem'.norepeat = norepeat /\ mem'.pad = padin /\ mem'.padded = padin
        /\ mem'.gotcnt = (count # NoCount) /\ mem'.count = count /\ mem'.off = 0 /\ mem'.blocks = 0
        /\ mem'.past = [i \in 1..(IF count = NoCount THEN Remember ELSE count) |-> 0]
        /\ mem'.norepeats = 0
        /\ mem'.faults = MaxFaults
    BY <1>3 DEF LmddMemory, Settings
  <2>2. /\ pc'["bench"] = "loop" /\ pc["helper"] = "none"
        /\ chan.in = 0 /\ chan.out = 0 /\ DOMAIN chan.file = {} /\ chan.reports = 0
    BY <1>1, <1>3 DEF LmddTo, LmddState, LmddShape, AtFirst
  <2>3. LmddShape'
    BY <1>1, <2>1, <2>2, BenchAssumption, CopierAssumption
       DEF LmddState, LmddShape, LmddPlaces, NoCount
  <2>4. Kinds' /\ AtFirst' /\ AtRandom' BY <1>1, <1>3, <2>1, <2>2 DEF Kinds, AtFirst, AtRandom
  <2>5. InOrder' BY <1>1, <2>1, <2>2 DEF InOrder, Following, First, Behind
  <2>6. Placed' BY <1>1, <2>1, <2>2 DEF Placed
  <2>7. Counted' BY <1>1, <2>1, <2>2 DEF Counted, Behind
  <2>8. chan.log = <<>> BY <1>1 DEF LmddState, Kinds, Remembers
  <2>9. Remembers'
    <3>1. CASE ~norepeat BY <1>1, <2>1, <2>8, <3>1 DEF Remembers
    <3>2. CASE norepeat
      <4>1. Log' = 0 /\ Draws' = 0 /\ chan'.log \in Seq(Nat)
        BY <1>1, <2>2, <2>8 DEF Log, Draws
      <4>2. Room'
        <5>1. PICK size \in Nat : size = IF count = NoCount THEN Remember ELSE count
          BY CopierAssumption
        <5>2. DOMAIN mem'.past = 1..size BY <2>1, <5>1
        <5>3. Extra' = 0 BY <2>1 DEF Extra
        <5>4. IF mem'.gotcnt THEN mem'.count + mem'.norepeats <= size + Extra' ELSE size = Remember
          <6>1. CASE count = NoCount BY <2>1, <5>1, <6>1
          <6>2. CASE count # NoCount
            <7>1. mem'.gotcnt /\ size = count /\ mem'.count + mem'.norepeats = count + 0
              BY <2>1, <5>1, <6>2
            <7> QED BY <5>1, <5>3, <7>1
          <6> QED BY <6>1, <6>2
        <5> QED BY <5>2, <5>4 DEF Room
      <4>3. Numbered'
        <5>1. 0 * Remember + 0 = 0 BY CopierAssumption
        <5> QED BY <2>1, <4>1, <5>1, CopierAssumption DEF Numbered
      <4>4. Listed' /\ NewDraw' /\ Apart' BY <4>1 DEF Listed, NewDraw, Apart
      <4> QED BY <2>1, <3>2, <4>1, <4>2, <4>3, <4>4 DEF Remembers, Drawn
    <3> QED BY <3>1, <3>2
  <2> QED BY <2>3, <2>4, <2>5, <2>6, <2>7, <2>9 DEF LmddState
<1>4. CASE pc' = LmddTo("loop")
  <2>1. PICK fork \in BOOLEAN, padin \in BOOLEAN, count \in (1..FileBlocks) \cup {NoCount} :
          \/ mem' = LmddMemory(fork, "none", FALSE, padin, count)
          \/ \E seek \in {"rand", "end"}, norepeat \in BOOLEAN :
               mem' = LmddMemory(fork, seek, norepeat, padin, count)
    BY <1>1, <1>4 DEF LmddMain, LmddTo, LmddState, LmddShape
  <2>2. CASE mem' = LmddMemory(fork, "none", FALSE, padin, count) BY <1>3, <1>4, <2>2
  <2>3. CASE \E seek \in {"rand", "end"}, norepeat \in BOOLEAN :
               mem' = LmddMemory(fork, seek, norepeat, padin, count)
    BY <1>3, <1>4, <2>3
  <2> QED BY <2>1, <2>2, <2>3
<1> QED BY <1>2, <1>4 DEF LmddMain

(* A step of the benchmark that moves no block and opens none.                *)
LEMMA LmddStops ==
  ASSUME LmddState, program' = program, chan' = chan, DOMAIN mem' = Settings,
         SetOnce, NoDraw, mem'.off = mem.off, mem'.blocks = mem.blocks, mem'.buf = mem.buf,
         mem'.pid = mem.pid, mem'.faults \in 0..mem.faults,
         DOMAIN pc' = DOMAIN pc, pc'["helper"] = pc["helper"], pc'["bench"] = "done",
         pc["bench"] \in {"loop", "read", "write", "fork"}
  PROVE  LmddState'
<1>1. LmddShape'
  BY BenchAssumption DEF LmddState, LmddShape, LmddPlaces, SetOnce, NoDraw
<1>2. Kinds' /\ AtFirst' /\ AtRandom' BY DEF LmddState, Kinds, AtFirst, AtRandom, SetOnce
<1>3. Faultless' => Faultless /\ mem'.faults = mem.faults
  BY BenchAssumption DEF Faultless, LmddState, LmddShape
<1>4. First' = First /\ Behind' = Behind BY DEF First, Behind, SetOnce
<1>5. InOrder'
  <2>1. InOrder BY DEF LmddState
  <2> QED BY <1>3, <1>4, <2>1 DEF InOrder, Following, SetOnce, NoDraw
<1>6. Placed' BY <1>3, <1>4 DEF LmddState, Placed, SetOnce
<1>7. Counted' BY <1>3, <1>4 DEF LmddState, Counted, SetOnce
<1>8. Remembers' BY DrawnStays DEF LmddState, Copies
<1> QED BY <1>1, <1>2, <1>5, <1>6, <1>7, <1>8 DEF LmddState

LEMMA LmddSignals == LmddState /\ LmddSignal => LmddState'
<1> SUFFICES ASSUME LmddState, LmddSignal PROVE LmddState' OBVIOUS
<1>1. /\ program' = program /\ chan' = chan /\ DOMAIN mem' = Settings
      /\ DOMAIN pc' = DOMAIN pc /\ pc'["helper"] = pc["helper"] /\ pc'["bench"] = "done"
      /\ pc["bench"] \in {"loop", "read", "write", "fork"}
  BY DEF LmddSignal, LmddTo, LmddState, LmddShape
<1>2. /\ SetOnce /\ NoDraw /\ mem'.off = mem.off /\ mem'.blocks = mem.blocks
      /\ mem'.buf = mem.buf /\ mem'.pid = mem.pid /\ mem'.faults \in 0..mem.faults
  BY BenchAssumption DEF LmddSignal, LmddState, LmddShape, Settings, SetOnce, NoDraw
<1> QED BY <1>1, <1>2, LmddStops

LEMMA TwoFields ==
  ASSUME NEW r, NEW p, NEW n, NEW s, DOMAIN r = Settings,
         s = [r EXCEPT !.past = p, !.norepeats = n]
  PROVE  /\ DOMAIN s = Settings /\ s.past = p /\ s.norepeats = n
         /\ \A f \in Settings \ {"past", "norepeats"} : s[f] = r[f]
BY DEF Settings

(* A random offset is drawn.                                                  *)
LEMMA LmddDraws ==
  ASSUME LmddShape, NEW off \in Nat, NEW m, NEW count \in Nat, NEW start,
         m = [mem EXCEPT !.count = count, !.off = off, !.start = start],
         mem' = Remembered(m, off)
  PROVE  /\ DOMAIN mem' = Settings /\ SetOnce /\ mem'.pad = mem.pad /\ mem'.blocks = mem.blocks
         /\ mem'.buf = mem.buf /\ mem'.pid = mem.pid /\ mem'.faults = mem.faults
         /\ mem'.off = off /\ mem'.count = count
         /\ mem.norepeat =>
              /\ mem'.norepeats = IF ~mem.gotcnt /\ mem.norepeats + 1 = Remember + 1 THEN 1
                                  ELSE mem.norepeats + 1
              /\ mem'.past = IF mem.norepeats = 0 THEN mem.past
                             ELSE [mem.past EXCEPT ![mem.norepeats] = off]
<1>1. /\ DOMAIN m = Settings /\ m.fork = mem.fork /\ m.seek = mem.seek /\ m.norepeat = mem.norepeat
      /\ m.padded = mem.padded /\ m.gotcnt = mem.gotcnt /\ m.pad = mem.pad /\ m.blocks = mem.blocks
      /\ m.buf = mem.buf /\ m.pid = mem.pid /\ m.faults = mem.faults /\ m.off = off
      /\ m.count = count /\ m.norepeats = mem.norepeats /\ m.past = mem.past
  BY DEF LmddShape, Settings
<1>2. CASE ~m.norepeat
  <2>1. mem' = m BY <1>2 DEF Remembered
  <2> QED BY <1>1, <1>2, <2>1 DEF SetOnce
<1>3. CASE m.norepeat
  <2> DEFINE past == IF m.norepeats = 0 THEN m.past ELSE [m.past EXCEPT ![m.norepeats] = off]
             next == IF ~m.gotcnt /\ m.norepeats + 1 = Remember + 1 THEN 1 ELSE m.norepeats + 1
  <2>1. mem' = [m EXCEPT !.past = past, !.norepeats = next] BY <1>3 DEF Remembered
  <2>3. next = IF ~mem.gotcnt /\ mem.norepeats + 1 = Remember + 1 THEN 1 ELSE mem.norepeats + 1
    BY <1>1
  <2>4. past = IF mem.norepeats = 0 THEN mem.past ELSE [mem.past EXCEPT ![mem.norepeats] = off]
    BY <1>1
  <2> HIDE DEF past, next
  <2>2. /\ DOMAIN mem' = Settings /\ mem'.fork = m.fork /\ mem'.seek = m.seek
        /\ mem'.norepeat = m.norepeat /\ mem'.padded = m.padded /\ mem'.gotcnt = m.gotcnt
        /\ mem'.pad = m.pad /\ mem'.blocks = m.blocks /\ mem'.buf = m.buf /\ mem'.pid = m.pid
        /\ mem'.faults = m.faults /\ mem'.off = m.off /\ mem'.count = m.count
        /\ mem'.norepeats = next /\ mem'.past = past
    <3>0. DOMAIN m = Settings /\ mem' = [m EXCEPT !.past = past, !.norepeats = next]
      BY <1>1, <2>1
    <3>1. \A f \in Settings \ {"past", "norepeats"} : mem'[f] = m[f] BY <3>0, TwoFields
    <3>2. DOMAIN mem' = Settings BY <3>0
    <3>3. "norepeats" \in DOMAIN m /\ "past" \in DOMAIN m BY <3>0 DEF Settings
    <3>4. mem'.norepeats = next BY <3>0, <3>3
    <3>5. mem'.past = past BY <3>0, <3>3
    <3> QED BY <3>1, <3>2, <3>4, <3>5 DEF Settings
  <2> QED BY <1>1, <2>2, <2>3, <2>4 DEF SetOnce
<1> QED BY <1>2, <1>3

(* Where list b ends and list b + 1 begins.                                   *)
LEMMA ListOf ==
  ASSUME NEW b \in Nat, NEW r \in 1..Remember, NEW n, n = b * Remember + r
  PROVE  /\ (n - 1) \div Remember = b
         /\ n \div Remember = IF r = Remember THEN b + 1 ELSE b
<1>1. /\ Remember \in Nat \ {0}
      /\ \A d \in Nat \ {0}, x, y \in Nat : y < d => (x * d + y) \div d = x
  <2> SUFFICES ASSUME NEW d \in Nat \ {0}, NEW x \in Nat, NEW y \in Nat, y < d
               PROVE  (x * d + y) \div d = x
    BY CopierAssumption
  <2>1. PICK m \in Nat : m = x * d + y BY Multiples
  <2>2. PICK q \in Nat, z \in 0..(d - 1) : q = m \div d /\ m = q * d + z BY <2>1, Divided
  <2>3. x * d \in Nat /\ q * d \in Nat BY Multiples
  <2>4. ~(x < q)
    <3>1. x < q => x * d + d <= q * d BY <2>2, Multiples
    <3> QED BY <2>1, <2>2, <2>3, <3>1
  <2>5. ~(q < x)
    <3>1. q < x => q * d + d <= x * d BY <2>2, Multiples
    <3> QED BY <2>1, <2>2, <2>3, <3>1
  <2> QED BY <2>1, <2>2, <2>4, <2>5
<1>2. b * Remember \in Nat BY <1>1, Multiples
<1>3. n - 1 = b * Remember + (r - 1) /\ r - 1 \in Nat /\ r - 1 < Remember BY <1>1, <1>2
<1>4. (n - 1) \div Remember = b BY <1>1, <1>3
<1>5. CASE r = Remember
  <2>1. n = (b + 1) * Remember + 0 BY <1>1, <1>2, <1>5
  <2> QED BY <1>1, <1>4, <1>5, <2>1
<1>6. CASE r # Remember
  <2>1. r \in Nat /\ r < Remember BY <1>1, <1>6
  <2> QED BY <1>1, <1>4, <1>6, <2>1
<1> QED BY <1>5, <1>6

(* An offset is drawn: it is none of those in the list, and takes its place   *)
(* there, unless it is the first of all.  Without count= the draw that fills   *)
(* the last place begins a new list.                                           *)
LEMMA DrawnKept ==
  ASSUME Drawn, pc["bench"] = "loop", pc'["bench"] = "read", mem.count \in Nat,
         ~(mem.gotcnt /\ mem.count = 0), mem.gotcnt \in BOOLEAN, SetOnce, mem'.pad = mem.pad,
         NEW off \in Nat, ~been_there(off), mem'.off = off, chan'.log = chan.log,
         mem'.count = IF mem.gotcnt THEN mem.count - 1 ELSE mem.count,
         mem'.norepeats = IF ~mem.gotcnt /\ mem.norepeats + 1 = Remember + 1 THEN 1
                          ELSE mem.norepeats + 1,
         mem'.past = IF mem.norepeats = 0 THEN mem.past
                     ELSE [mem.past EXCEPT ![mem.norepeats] = off]
  PROVE  Drawn'
<1>1. /\ mem.norepeats \in Nat /\ chan.log \in Seq(Nat) /\ Remember \in Nat \ {0}
      /\ Apart /\ Room /\ Numbered /\ Listed
  BY CopierAssumption DEF Drawn, Copies
<1>2. PICK r \in Nat, n \in Nat : r = mem.norepeats /\ n = Log BY <1>1, LenProperties DEF Log
<1>3. Log' = n /\ Draws = n /\ Draws' = n + 1 /\ mem'.gotcnt = mem.gotcnt
  BY <1>2 DEF Log, Draws, SetOnce
<1>4. \A i \in 1..(n + 1) : Drew(i)' = IF i <= n THEN chan.log[i] ELSE off
  BY <1>2, <1>3 DEF Drew
<1>5. \A i, j : OneList(i, j)' = OneList(i, j) BY <1>3 DEF OneList
<1>6. Apart'
  <2>1. \A i, j \in 1..n : 1 < i /\ i < j /\ OneList(i, j) => chan.log[i] # chan.log[j]
    BY <1>1, <1>2 DEF Apart
  <2>2. \A i, j \in 1..n : 1 < i /\ i < j /\ OneList(i, j)' => chan'.log[i] # chan'.log[j]
    BY <1>5, <2>1
  <2> QED BY <1>3, <2>2 DEF Apart
<1>7. /\ \A i \in 2..n : OneList(i, n + 1) => \E q \in 1..(r - 1) : mem.past[q] = chan.log[i]
      /\ n = 0 => \A i \in 2..n : FALSE
  BY <1>1, <1>2, <1>3 DEF Listed, Drew
<1>8. NewDraw'
  <2> SUFFICES ASSUME NEW i \in 2..n, OneList(i, n + 1) PROVE chan.log[i] # off
    BY <1>3 DEF NewDraw, OneList
  <2>1. PICK q \in 1..(r - 1) : mem.past[q] = chan.log[i] BY <1>7
  <2>2. q \in 1..mem.norepeats BY <1>2
  <2> QED BY <2>1, <2>2 DEF been_there
<1>9. PICK size \in Nat :
        /\ DOMAIN mem.past = 1..size
        /\ IF mem.gotcnt THEN mem.count + r <= size + Extra ELSE size = Remember
  BY <1>1, <1>2 DEF Room
<1>10. Extra' = Extra /\ Extra \in {0, 1} BY DEF Extra, SetOnce
<1>11. r <= size
  <2>1. CASE mem.gotcnt BY <1>9, <1>10, <2>1
  <2>2. CASE ~mem.gotcnt BY <1>2, <1>1, <1>9, <2>2 DEF Numbered
  <2> QED BY <2>1, <2>2
<1>12. DOMAIN mem'.past = 1..size BY <1>2, <1>9, <1>11
<1>13. Room'
  <2>1. CASE mem.gotcnt
    <3>1. mem'.count + mem'.norepeats <= size + Extra' BY <1>2, <1>9, <1>10, <2>1
    <3> QED BY <1>3, <1>12, <2>1, <3>1 DEF Room
  <2>2. CASE ~mem.gotcnt BY <1>3, <1>9, <1>12, <2>2 DEF Room
  <2> QED BY <2>1, <2>2
<1>14. \A q \in 1..(r - 1) : mem'.past[q] = mem.past[q] BY <1>2, <1>9, <1>11
<1>15. r # 0 => mem'.past[r] = off BY <1>2, <1>9, <1>11
<1>16. CASE mem.gotcnt
  <2>1. mem'.norepeats = r + 1 /\ r = n BY <1>1, <1>2, <1>3, <1>16 DEF Numbered
  <2>2. Numbered' BY <1>3, <1>16, <2>1 DEF Numbered
  <2>3. ASSUME NEW i \in 2..(n + 1) PROVE \E q \in 1..r : mem'.past[q] = Drew(i)'
    <3>1. CASE i <= n
      <4>1. PICK q \in 1..(r - 1) : mem.past[q] = chan.log[i]
        BY <1>7, <1>16, <2>3, <3>1 DEF OneList
      <4> QED BY <1>4, <1>14, <3>1, <4>1
    <3>2. CASE i > n BY <1>4, <1>15, <2>1, <3>2
    <3> QED BY <3>1, <3>2
  <2>4. Listed' BY <1>3, <2>1, <2>3 DEF Listed
  <2> QED BY <1>1, <1>3, <1>6, <1>8, <1>13, <2>1, <2>2, <2>4 DEF Drawn
<1>17. CASE ~mem.gotcnt
  <2>1. /\ r <= Remember /\ (r = 0 => n = 0)
        /\ \E b \in Nat : n = b * Remember + r
    BY <1>1, <1>2, <1>3, <1>17 DEF Numbered
  <2>2. PICK b \in Nat : n = b * Remember + r BY <2>1
  <2>3. b * Remember \in Nat BY <1>1, Multiples
  <2>4. CASE r = Remember
    <3>1. mem'.norepeats = 1 BY <1>2, <1>17, <2>4
    <3>2. n + 1 = (b + 1) * Remember + 1 BY <1>1, <2>2, <2>3, <2>4
    <3>3. Numbered'
      <4>1. PICK d \in Nat : d = b + 1 OBVIOUS
      <4>2. Draws' = d * Remember + mem'.norepeats BY <1>3, <3>1, <3>2, <4>1
      <4>3. mem'.norepeats <= Remember /\ mem'.norepeats # 0 BY <1>1, <3>1
      <4> QED BY <1>3, <1>17, <4>2, <4>3 DEF Numbered
    <3>0. r \in 1..Remember BY <1>1, <2>4
    <3>4. n \div Remember = b + 1 BY <2>2, <2>4, <3>0, ListOf
    <3>5. ASSUME NEW i \in 2..(n + 1) PROVE ~OneList(i, n + 2)
      <4>1. PICK m \in Nat : m = i - 2 /\ m <= n - 1 BY <1>2, <3>5
      <4>2. (n - 1) \div Remember = b BY <2>2, <3>0, ListOf
      <4>3. PICK q \in Nat, z \in 0..(Remember - 1) : q = m \div Remember /\ m = q * Remember + z
        <5>1. /\ m \div Remember \in Nat /\ m % Remember \in 0..(Remember - 1)
              /\ m = (m \div Remember) * Remember + (m % Remember)
          BY <1>1, Divided
        <5> QED BY <5>1, Zenon
      <4>4. q * Remember \in Nat BY <1>1, <4>3, Multiples
      <4>5. b + 1 \in Nat /\ (b + 1) * Remember = n BY <1>1, <2>2, <2>3, <2>4
      <4>6. q = b + 1 => FALSE BY <4>1, <4>3, <4>4, <4>5
      <4>7. (n + 2) - 2 = n BY <1>2
      <4> QED BY <1>17, <3>4, <4>1, <4>3, <4>6, <4>7 DEF OneList
    <3>6. Listed'
      <4>1. (n + 1) + 1 = n + 2 BY <1>2
      <4> QED BY <1>3, <3>5, <4>1 DEF Listed, OneList
    <3> QED BY <1>1, <1>3, <1>6, <1>8, <1>13, <3>1, <3>3, <3>6 DEF Drawn
  <2>5. CASE r # Remember
    <3>1. mem'.norepeats = r + 1 BY <1>1, <1>2, <2>5
    <3>2. n + 1 = b * Remember + (r + 1) BY <1>1, <2>2, <2>3
    <3>3. Numbered'
      <4>1. Draws' = b * Remember + mem'.norepeats BY <1>3, <3>1, <3>2
      <4>2. mem'.norepeats <= Remember /\ mem'.norepeats # 0 BY <1>1, <1>2, <2>1, <2>5, <3>1
      <4> QED BY <1>3, <1>17, <4>1, <4>2 DEF Numbered
    <3>4. ASSUME NEW i \in 2..(n + 1), OneList(i, n + 2) PROVE \E q \in 1..r : mem'.past[q] = Drew(i)'
      <4>1. r # 0 BY <1>2, <2>1, <3>4
      <4>2. CASE i <= n
        <5>1. (n - 1) \div Remember = b /\ n \div Remember = b
          <6>1. r \in 1..Remember BY <1>1, <1>2, <2>1, <4>1
          <6> QED BY <2>2, <2>5, <6>1, ListOf
        <5>2. (n + 2) - 2 = n /\ (n + 1) - 2 = n - 1 BY <1>2
        <5>3. OneList(i, n + 1) BY <3>4, <5>1, <5>2 DEF OneList
        <5>4. PICK q \in 1..(r - 1) : mem.past[q] = chan.log[i]
          BY <1>7, <3>4, <4>2, <5>3
        <5> QED BY <1>4, <1>14, <4>2, <5>4
      <4>3. CASE i > n BY <1>4, <1>15, <4>1, <4>3
      <4> QED BY <4>2, <4>3
    <3>5. Listed'
      <4>1. (n + 1) + 1 = n + 2 /\ (r + 1) - 1 = r BY <1>2
      <4> QED BY <1>3, <3>1, <3>4, <4>1 DEF Listed, OneList
    <3> QED BY <1>1, <1>3, <1>6, <1>8, <1>13, <3>1, <3>3, <3>5 DEF Drawn
  <2> QED BY <2>4, <2>5
<1> QED BY <1>16, <1>17

(* The block of the last draw is read, and thrown away if it is the padded one. *)
LEMMA DrawnRead ==
  ASSUME Drawn, SetOnce, pc["bench"] = "read", pc'["bench"] \in Copies \ {"read"},
         mem.off \in Nat, mem.count \in Nat, mem.gotcnt \in BOOLEAN,
         mem'.past = mem.past, mem'.norepeats = mem.norepeats,
         chan'.log = Append(chan.log, mem.off),
         \/ mem'.pad = mem.pad /\ mem'.count = mem.count
         \/ /\ mem.pad /\ mem.padded /\ ~mem'.pad
            /\ mem'.count = IF mem.gotcnt THEN mem.count + 1 ELSE mem.count
  PROVE  Drawn'
<1>1. /\ mem.norepeats \in Nat /\ chan.log \in Seq(Nat)
      /\ Apart /\ Room /\ Numbered /\ Listed /\ NewDraw
  BY DEF Drawn, Copies
<1>2. PICK n \in Nat : n = Log BY <1>1, LenProperties DEF Log
<1>3. /\ chan'.log \in Seq(Nat) /\ Len(chan'.log) = n + 1 /\ mem'.gotcnt = mem.gotcnt
      /\ chan'.log[n + 1] = mem.off /\ \A i \in 1..n : chan'.log[i] = chan.log[i]
  BY <1>1, <1>2, AppendProperties DEF Log, SetOnce
<1>10. Log' = n + 1 /\ Draws = n + 1 /\ Draws' = n + 1
  <2>1. Log' = n + 1 BY <1>3 DEF Log
  <2>2. Draws = n + 1 BY <1>2 DEF Draws
  <2>3. pc'["bench"] # "read" BY Zenon
  <2>4. Draws' = n + 1 BY <2>1, <2>3 DEF Draws
  <2> QED BY <2>1, <2>2, <2>4
<1>4. \A i \in 1..(n + 1) : Drew(i)' = Drew(i)
  <2> SUFFICES ASSUME NEW i \in 1..(n + 1) PROVE Drew(i)' = Drew(i) OBVIOUS
  <2>1. Drew(i)' = chan'.log[i]
    <3>1. Log' \in Nat /\ i <= Log' BY <1>10
    <3> QED BY <3>1, Zenon DEF Drew
  <2>2. chan'.log[i] = Drew(i) BY <1>2, <1>3 DEF Drew
  <2> QED BY <2>1, <2>2
<1>6. Apart'
  <2> SUFFICES ASSUME NEW i \in 1..(n + 1), NEW j \in 1..(n + 1), 1 < i, i < j, OneList(i, j)
               PROVE  chan'.log[i] # chan'.log[j]
    BY <1>3, <1>10 DEF Apart, OneList
  <2>1. i \in 2..n BY <1>2
  <2>2. CASE j = n + 1
    <3>1. \A k \in 2..n : OneList(k, n + 1) => chan.log[k] # mem.off
      BY <1>1, <1>2 DEF NewDraw
    <3> QED BY <1>3, <2>1, <2>2, <3>1
  <2>3. CASE j # n + 1
    <3>1. i \in 1..n /\ j \in 1..n BY <1>2, <2>1, <2>3
    <3> QED BY <1>1, <1>2, <1>3, <3>1 DEF Apart
  <2> QED BY <2>2, <2>3
<1>7. Room'
  <2>1. PICK size \in Nat :
          /\ DOMAIN mem.past = 1..size
          /\ IF mem.gotcnt THEN mem.count + mem.norepeats <= size + Extra ELSE size = Remember
    BY <1>1 DEF Room
  <2>2. CASE mem'.pad = mem.pad /\ mem'.count = mem.count
    BY <1>3, <2>1, <2>2 DEF Room, Extra, SetOnce
  <2>3. CASE /\ mem.pad /\ mem.padded /\ ~mem'.pad
             /\ mem'.count = IF mem.gotcnt THEN mem.count + 1 ELSE mem.count
    <3>1. Extra = 0 /\ Extra' = 1 BY <2>3 DEF Extra, SetOnce
    <3>2. mem.gotcnt => mem'.count + mem'.norepeats <= size + Extra' BY <1>1, <2>1, <2>3, <3>1
    <3> QED BY <1>3, <2>1, <3>2 DEF Room
  <2> QED BY <2>2, <2>3
<1>8. Numbered' BY <1>1, <1>3, <1>10 DEF Numbered
<1>9. Listed'
  <2> SUFFICES ASSUME NEW i \in 2..(n + 1), OneList(i, (n + 1) + 1)
               PROVE  \E q \in 1..(mem.norepeats - 1) : mem.past[q] = Drew(i)'
    BY <1>3, <1>10 DEF Listed, OneList
  <2>1. \E q \in 1..(mem.norepeats - 1) : mem.past[q] = Drew(i) BY <1>1, <1>10 DEF Listed
  <2> QED BY <1>4, <2>1
<1> QED BY <1>1, <1>3, <1>6, <1>7, <1>8, <1>9 DEF Drawn, NewDraw

LEMMA LmddSeeks == LmddState /\ LmddSeek => LmddState'
<1> SUFFICES ASSUME LmddState, LmddSeek PROVE LmddState' OBVIOUS
<1>1. /\ program' = program /\ program = "lmdd" /\ pc["bench"] = "loop"
      /\ LmddShape /\ Kinds /\ InOrder /\ AtRandom /\ Placed /\ Counted /\ Remembers
  BY DEF LmddSeek, At, LmddState
<1>2. CASE mem.gotcnt /\ mem.count = 0 /\ pc' = LmddTo("done") /\ UNCHANGED <<mem, chan>>
  <2>1. /\ DOMAIN pc' = DOMAIN pc /\ pc'["helper"] = pc["helper"] /\ pc'["bench"] = "done"
        /\ mem'.faults \in 0..mem.faults /\ DOMAIN mem' = Settings
    BY <1>1, <1>2, BenchAssumption DEF LmddTo, LmddShape
  <2> QED BY <1>1, <1>2, <2>1, LmddStops DEF SetOnce, NoDraw
<1> DEFINE count == IF mem.gotcnt THEN mem.count - 1 ELSE mem.count
           m == [mem EXCEPT !.count = IF mem.gotcnt THEN @ - 1 ELSE @]
<1>3. CASE /\ ~(mem.gotcnt /\ mem.count = 0) /\ pc' = LmddTo("read")
           /\ mem.seek = "none" /\ mem' = m /\ UNCHANGED chan
  <2>1. /\ DOMAIN pc' = DOMAIN pc /\ pc'["helper"] = pc["helper"] /\ pc'["bench"] = "read"
    BY <1>1, <1>3 DEF LmddTo, LmddShape
  <2>2. /\ DOMAIN mem' = Settings /\ SetOnce /\ mem'.pad = mem.pad /\ mem'.blocks = mem.blocks
        /\ mem'.pid = mem.pid /\ mem'.faults = mem.faults /\ mem'.off = mem.off
        /\ mem'.count = count
    BY <1>1, <1>3 DEF LmddShape, Settings, SetOnce
  <2>3. count \in Nat BY <1>1, <1>3 DEF LmddShape
  <2>4. LmddShape'
    <3> HIDE DEF count, m
    <3> QED BY <1>1, <1>3, <2>1, <2>2, <2>3 DEF LmddShape, LmddPlaces, SetOnce
  <2> HIDE DEF count, m
  <2>5. Kinds' /\ AtFirst' /\ AtRandom' /\ ~mem.norepeat
    BY <1>1, <1>3, <2>1, <2>2 DEF Kinds, AtFirst, AtRandom, SetOnce
  <2>6. First' = First /\ Behind' = Behind /\ (Faultless' <=> Faultless)
    BY <2>1, <2>2 DEF First, Behind, Faultless, SetOnce
  <2>7. InOrder' BY <1>1, <1>3, <2>1, <2>2, <2>6 DEF InOrder, Following, SetOnce
  <2>8. Placed' BY <1>1, <1>3, <2>2, <2>6 DEF Placed, SetOnce
  <2>9. Counted' BY <1>1, <1>3, <2>1, <2>2, <2>6 DEF Counted, SetOnce
  <2>10. Remembers' BY <1>1, <1>3, <2>2, <2>5 DEF Remembers, SetOnce
  <2> QED BY <2>4, <2>5, <2>7, <2>8, <2>9, <2>10 DEF LmddState
<1>4. ASSUME NEW off \in Nat, NEW start,
             ~(mem.gotcnt /\ mem.count = 0), pc' = LmddTo("read"), mem.seek # "none",
             mem.norepeat => ~been_there(off),
             mem' = Remembered([mem EXCEPT !.count = count, !.off = off, !.start = start], off),
             chan' = Seek(off)
      PROVE  LmddState'
  <2>1. /\ DOMAIN pc' = DOMAIN pc /\ pc'["helper"] = pc["helper"] /\ pc'["bench"] = "read"
    BY <1>1, <1>4 DEF LmddTo, LmddShape
  <2>2. /\ DOMAIN chan' = DOMAIN chan /\ chan'.in = off /\ chan'.out = off
        /\ chan'.file = chan.file /\ chan'.log = chan.log /\ chan'.reports = chan.reports
    BY <1>1, <1>4 DEF Seek, LmddShape
  <2>3. count \in Nat BY <1>1, <1>4 DEF LmddShape
  <2> HIDE DEF count
  <2>4. /\ DOMAIN mem' = Settings /\ SetOnce /\ mem'.pad = mem.pad /\ mem'.blocks = mem.blocks
        /\ mem'.buf = mem.buf /\ mem'.pid = mem.pid /\ mem'.faults = mem.faults
        /\ mem'.off = off /\ mem'.count = count
        /\ mem.norepeat =>
             /\ mem'.norepeats = IF ~mem.gotcnt /\ mem.norepeats + 1 = Remember + 1 THEN 1
                                 ELSE mem.norepeats + 1
             /\ mem'.past = IF mem.norepeats = 0 THEN mem.past
                            ELSE [mem.past EXCEPT ![mem.norepeats] = off]
    BY <1>1, <1>4, <2>3, LmddDraws
  <2>5. LmddShape' BY <1>1, <2>1, <2>2, <2>3, <2>4 DEF LmddShape, LmddPlaces, SetOnce
  <2>6. Kinds' /\ AtFirst' /\ AtRandom' /\ InOrder'
    BY <1>1, <1>4, <2>1, <2>2, <2>4 DEF Kinds, AtFirst, AtRandom, InOrder, SetOnce
  <2>7. First' = First /\ Behind' = Behind /\ (Faultless' <=> Faultless)
    BY <2>1, <2>4 DEF First, Behind, Faultless, SetOnce
  <2>8. Placed' BY <1>1, <1>4, <2>2, <2>4, <2>7 DEF Placed, SetOnce
  <2>9. Counted' BY <1>1, <1>4, <2>1, <2>2, <2>4, <2>7 DEF Counted, SetOnce
  <2>10. Remembers'
    <3>1. CASE ~mem.norepeat BY <1>1, <2>2, <2>4, <3>1 DEF Remembers, SetOnce
    <3>2. CASE mem.norepeat
      <4>1. Drawn BY <1>1, <3>2 DEF Remembers
      <4>2. mem.count \in Nat /\ count = (IF mem.gotcnt THEN mem.count - 1 ELSE mem.count)
            /\ ~(mem.gotcnt /\ mem.count = 0) /\ mem.gotcnt \in BOOLEAN
        BY <1>1, <1>4 DEF LmddShape, count
      <4>3. Drawn' BY <1>1, <1>4, <2>1, <2>2, <2>4, <3>2, <4>1, <4>2, DrawnKept
      <4> QED BY <2>4, <3>2, <4>3 DEF Remembers, SetOnce
    <3> QED BY <3>1, <3>2
  <2> QED BY <2>5, <2>6, <2>8, <2>9, <2>10 DEF LmddState
<1>5. CASE /\ ~(mem.gotcnt /\ mem.count = 0) /\ pc' = LmddTo("read")
           /\ \E off \in CASE mem.seek = "rand" -> RandomOffsets
                           [] mem.seek = "end" -> EndOffsets
                           [] OTHER -> {} :
                /\ mem.norepeat => ~been_there(off)
                /\ mem' = Remembered([m EXCEPT !.off = off,
                            !.start = IF mem.seek = "end" THEN NextStart ELSE @], off)
                /\ chan' = Seek(off)
  <2>1. PICK off \in CASE mem.seek = "rand" -> RandomOffsets
                       [] mem.seek = "end" -> EndOffsets
                       [] OTHER -> {} :
          /\ mem.norepeat => ~been_there(off)
          /\ mem' = Remembered([m EXCEPT !.off = off,
                      !.start = IF mem.seek = "end" THEN NextStart ELSE @], off)
          /\ chan' = Seek(off)
    BY <1>5
  <2>2. mem.seek # "none" /\ off \in Nat
    <3>1. mem.seek \in {"none", "rand", "end"} BY <1>1 DEF LmddShape
    <3>2. \A i \in RandomOffsets : i \in Nat BY CopierAssumption DEF RandomOffsets
    <3>3. \A i \in EndOffsets : i \in Nat BY CopierAssumption DEF EndOffsets, NextStart
    <3> QED BY <2>1, <3>1, <3>2, <3>3
  <2>3. \E start : [m EXCEPT !.off = off, !.start = IF mem.seek = "end" THEN NextStart ELSE @]
                   = [mem EXCEPT !.count = count, !.off = off, !.start = start]
    <3>1. [m EXCEPT !.off = off, !.start = IF mem.seek = "end" THEN NextStart ELSE @]
          = [mem EXCEPT !.count = count, !.off = off,
                        !.start = IF mem.seek = "end" THEN NextStart ELSE mem.start]
      BY <1>1 DEF LmddShape, Settings
    <3> QED BY <3>1
  <2> HIDE DEF m
  <2> QED BY <1>4, <1>5, <2>1, <2>2, <2>3
<1> HIDE DEF m, count
<1>6. \/ mem.gotcnt /\ mem.count = 0 /\ pc' = LmddTo("done") /\ UNCHANGED <<mem, chan>>
      \/ /\ ~(mem.gotcnt /\ mem.count = 0) /\ pc' = LmddTo("read")
         /\ \/ mem.seek = "none" /\ mem' = m /\ UNCHANGED chan
            \/ \E off \in CASE mem.seek = "rand" -> RandomOffsets
                            [] mem.seek = "end" -> EndOffsets
                            [] OTHER -> {} :
                 /\ mem.norepeat => ~been_there(off)
                 /\ mem' = Remembered([m EXCEPT !.off = off,
                             !.start = IF mem.seek = "end" THEN NextStart ELSE @], off)
                 /\ chan' = Seek(off)
  BY DEF LmddSeek, m
<1> QED BY <1>2, <1>3, <1>5, <1>6

LEMMA LmddReads == LmddState /\ LmddRead => LmddState'
<1> SUFFICES ASSUME LmddState, LmddRead PROVE LmddState' OBVIOUS
<1>1. /\ program' = program /\ program = "lmdd" /\ pc["bench"] = "read"
      /\ LmddShape /\ Kinds /\ InOrder /\ AtRandom /\ Placed /\ Counted /\ Remembers
  BY DEF LmddRead, At, LmddState
<1>2. CASE pc' = LmddTo("done") /\ UNCHANGED <<mem, chan>>
  <2>1. /\ DOMAIN pc' = DOMAIN pc /\ pc'["helper"] = pc["helper"] /\ pc'["bench"] = "done"
        /\ mem'.faults \in 0..mem.faults /\ DOMAIN mem' = Settings
    BY <1>1, <1>2, BenchAssumption DEF LmddTo, LmddShape
  <2> QED BY <1>1, <1>2, <2>1, LmddStops DEF SetOnce, NoDraw
<1>3. ASSUME chan.in < FileBlocks \/ mem.pad,
             chan' = [chan EXCEPT !.in = IF @ >= FileBlocks THEN @ ELSE @ + 1,
                                  !.log = IF mem.norepeat THEN Append(@, mem.off) ELSE @]
      PROVE  /\ DOMAIN chan' = DOMAIN chan /\ chan'.in \in Nat
             /\ chan.in < FileBlocks => chan'.in = chan.in + 1
             /\ chan'.out = chan.out /\ chan'.file = chan.file /\ chan'.reports = chan.reports
             /\ chan'.toWrite = chan.toWrite
             /\ chan'.log = IF mem.norepeat THEN Append(chan.log, mem.off) ELSE chan.log
  BY <1>1, <1>3, CopierAssumption DEF LmddShape
<1>4. CASE /\ chan' = [chan EXCEPT !.in = IF @ >= FileBlocks THEN @ ELSE @ + 1,
                                   !.log = IF mem.norepeat THEN Append(@, mem.off) ELSE @]
           /\ mem.pad /\ pc' = LmddTo("loop")
           /\ mem' = [mem EXCEPT !.pad = FALSE, !.count = IF mem.gotcnt THEN @ + 1 ELSE @]
  <2>1. /\ DOMAIN pc' = DOMAIN pc /\ pc'["helper"] = pc["helper"] /\ pc'["bench"] = "loop"
    BY <1>1, <1>4 DEF LmddTo, LmddShape
  <2>2. /\ DOMAIN mem' = Settings /\ SetOnce /\ ~mem'.pad /\ mem'.blocks = mem.blocks
        /\ mem'.pid = mem.pid /\ mem'.faults = mem.faults /\ mem'.off = mem.off
        /\ mem'.count = (IF mem.gotcnt THEN mem.count + 1 ELSE mem.count)
        /\ mem'.past = mem.past /\ mem'.norepeats = mem.norepeats
    BY <1>1, <1>4 DEF LmddShape, Settings, SetOnce
  <2>3. mem.padded BY <1>1, <1>4 DEF LmddShape
  <2>4. First' = First /\ Behind' = Behind /\ (Faultless' <=> Faultless)
    BY <2>1, <2>2 DEF First, Behind, Faultless, SetOnce
  <2>5. LmddShape' BY <1>1, <1>3, <1>4, <2>1, <2>2 DEF LmddShape, LmddPlaces, SetOnce
  <2>6. Kinds' /\ AtFirst' /\ AtRandom'
    BY <1>1, <2>1, <2>2 DEF Kinds, AtFirst, AtRandom, SetOnce
  <2>7. InOrder'
    <3> SUFFICES ASSUME mem.seek = "none", mem.fork => Faultless PROVE Following'
      BY <2>2, <2>4 DEF InOrder, SetOnce
    <3>1. chan.in = 0 /\ chan.out = 0 /\ pc["helper"] = "none" BY <1>1, <1>4 DEF InOrder, Following
    <3>2. chan'.in = 1 /\ chan'.out = 0 /\ First' = 1 /\ Behind' = 0
      BY <1>3, <1>4, <2>3, <2>4, <3>1, CopierAssumption DEF First, Behind
    <3> QED BY <2>1, <2>2, <3>1, <3>2 DEF Following
  <2>8. Placed' BY <1>1, <1>3, <1>4, <2>2, <2>4 DEF Placed, SetOnce
  <2>9. Counted' BY <1>1, <1>3, <1>4, <2>1, <2>2, <2>4 DEF Counted, SetOnce
  <2>10. Remembers'
    <3>1. CASE ~mem.norepeat BY <1>1, <1>3, <1>4, <2>2, <3>1 DEF Remembers, SetOnce
    <3>2. CASE mem.norepeat
      <4>1. pc'["bench"] \in Copies \ {"read"} BY <2>1 DEF Copies
      <4>2. mem.off \in Nat /\ mem.count \in Nat /\ mem.gotcnt \in BOOLEAN BY <1>1 DEF LmddShape
      <4>3. Drawn /\ chan'.log = Append(chan.log, mem.off) BY <1>1, <1>3, <1>4, <3>2 DEF Remembers
      <4>4. Drawn' BY <1>1, <1>4, <2>2, <2>3, <4>1, <4>2, <4>3, DrawnRead
      <4> QED BY <2>2, <3>2, <4>4 DEF Remembers, SetOnce
    <3> QED BY <3>1, <3>2
  <2> QED BY <2>5, <2>6, <2>7, <2>8, <2>9, <2>10 DEF LmddState
<1>5. CASE /\ chan' = [chan EXCEPT !.in = IF @ >= FileBlocks THEN @ ELSE @ + 1,
                                   !.log = IF mem.norepeat THEN Append(@, mem.off) ELSE @]
           /\ chan.in < FileBlocks /\ ~mem.pad
           /\ mem' = [mem EXCEPT !.buf = chan.in]
           /\ pc' = LmddTo(IF mem.fork THEN "fork" ELSE "write")
  <2>1. /\ DOMAIN pc' = DOMAIN pc /\ pc'["helper"] = pc["helper"]
        /\ pc'["bench"] = IF mem.fork THEN "fork" ELSE "write"
    BY <1>1, <1>5 DEF LmddTo, LmddShape
  <2>2. /\ DOMAIN mem' = Settings /\ SetOnce /\ mem'.pad = mem.pad /\ mem'.blocks = mem.blocks
        /\ mem'.pid = mem.pid /\ mem'.faults = mem.faults /\ mem'.off = mem.off
        /\ mem'.count = mem.count /\ mem'.buf = chan.in /\ mem'.past = mem.past
        /\ mem'.norepeats = mem.norepeats
    BY <1>1, <1>5 DEF LmddShape, Settings, SetOnce
  <2>3. chan'.in = chan.in + 1 BY <1>3, <1>5
  <2>4. First' = First /\ Behind' = Behind /\ (Faultless' <=> Faultless)
    BY <2>1, <2>2 DEF First, Behind, Faultless, SetOnce
  <2>5. LmddShape' BY <1>1, <1>3, <1>5, <2>1, <2>2 DEF LmddShape, LmddPlaces, SetOnce
  <2>6. Kinds' /\ AtFirst' BY <1>1, <2>1, <2>2 DEF Kinds, AtFirst, SetOnce
  <2>7. AtRandom' BY <1>1, <1>3, <1>5, <2>1, <2>2 DEF AtRandom, SetOnce
  <2>8. InOrder'
    <3> SUFFICES ASSUME mem.seek = "none", mem.fork => Faultless PROVE Following'
      BY <2>2, <2>4 DEF InOrder, SetOnce
    <3>1. /\ chan.in = chan.out + First + Behind
          /\ pc["helper"] = "write" => chan.toWrite = chan.out + First
      BY <1>1, <1>5 DEF InOrder, Following
    <3> QED BY <1>3, <1>5, <2>1, <2>2, <2>3, <2>4, <3>1 DEF Following
  <2>9. Placed' BY <1>1, <1>3, <1>5, <2>2, <2>4 DEF Placed, SetOnce
  <2>10. Counted' BY <1>1, <1>3, <1>5, <2>1, <2>2, <2>4 DEF Counted, SetOnce
  <2>11. Remembers'
    <3>1. CASE ~mem.norepeat BY <1>1, <1>3, <1>5, <2>2, <3>1 DEF Remembers, SetOnce
    <3>2. CASE mem.norepeat
      <4>1. pc'["bench"] \in Copies \ {"read"} BY <2>1 DEF Copies
      <4>2. mem.off \in Nat /\ mem.count \in Nat /\ mem.gotcnt \in BOOLEAN BY <1>1 DEF LmddShape
      <4>3. Drawn /\ chan'.log = Append(chan.log, mem.off) BY <1>1, <1>3, <1>5, <3>2 DEF Remembers
      <4>4. Drawn' BY <1>1, <2>2, <4>1, <4>2, <4>3, DrawnRead
      <4> QED BY <2>2, <3>2, <4>4 DEF Remembers, SetOnce
    <3> QED BY <3>1, <3>2
  <2> QED BY <2>5, <2>6, <2>7, <2>8, <2>9, <2>10, <2>11 DEF LmddState
<1>7. CASE chan.in >= FileBlocks /\ ~mem.pad BY <1>2, <1>7 DEF LmddRead
<1>8. CASE ~(chan.in >= FileBlocks /\ ~mem.pad)
  <2>1. ~mem.pad => chan.in < FileBlocks BY <1>1, <1>8, CopierAssumption DEF LmddShape
  <2> QED BY <1>4, <1>5, <1>8, <2>1 DEF LmddRead
<1> QED BY <1>7, <1>8

(* A block is written.                                                        *)
LEMMA LmddWritten ==
  ASSUME LmddShape, NEW block, chan' = Written(block)
  PROVE  /\ DOMAIN chan' = DOMAIN chan /\ chan'.in = chan.in /\ chan'.out = chan.out + 1
         /\ chan'.log = chan.log /\ chan'.toWrite = chan.toWrite /\ chan'.synced = chan.synced
         /\ chan'.reports = chan.reports
         /\ DOMAIN chan'.file = {chan.out} \cup DOMAIN chan.file
         /\ \A p \in DOMAIN chan'.file :
              chan'.file[p] = IF p = chan.out THEN block ELSE chan.file[p]
<1>1. chan' = [chan EXCEPT !.file = With([p \in {chan.out} |-> block], chan.file),
                           !.out = chan.out + 1]
  BY DEF Written
<1>2. chan'.file = With([p \in {chan.out} |-> block], chan.file) BY <1>1 DEF LmddShape
<1>3. /\ DOMAIN chan' = DOMAIN chan /\ chan'.in = chan.in /\ chan'.out = chan.out + 1
      /\ chan'.log = chan.log /\ chan'.toWrite = chan.toWrite /\ chan'.synced = chan.synced
      /\ chan'.reports = chan.reports
  BY <1>1 DEF LmddShape
<1>4. chan'.file = [p \in {chan.out} \cup DOMAIN chan.file |->
                      IF p \in {chan.out} THEN block ELSE chan.file[p]]
  BY <1>2 DEF With
<1> QED BY <1>3, <1>4

LEMMA FileGrows ==
  ASSUME LmddShape, NEW block, chan' = Written(block), mem.seek = "none",
         DOMAIN chan.file = 0..(chan.out - 1)
  PROVE  DOMAIN chan'.file = 0..(chan'.out - 1)
<1>1. chan.out \in Nat /\ chan'.out = chan.out + 1
      /\ DOMAIN chan'.file = {chan.out} \cup (0..(chan.out - 1))
  BY LmddWritten DEF LmddShape
<1>2. {chan.out} \cup (0..(chan.out - 1)) = 0..(chan.out + 1 - 1) BY <1>1
<1> QED BY <1>1, <1>2

LEMMA LmddWrites == LmddState /\ LmddWrite => LmddState'
<1> SUFFICES ASSUME LmddState, LmddWrite PROVE LmddState' OBVIOUS
<1>1. /\ program' = program /\ program = "lmdd" /\ pc["bench"] = "write" /\ ~mem.fork
      /\ LmddShape /\ Kinds /\ InOrder /\ AtRandom /\ Placed /\ Counted /\ Remembers
      /\ pc["helper"] = "none"
  BY DEF LmddWrite, At, LmddState, LmddShape, Kinds
<1>2. CASE /\ mem.faults > 0 /\ mem' = [mem EXCEPT !.faults = @ - 1]
           /\ pc' = LmddTo("done") /\ UNCHANGED chan
  <2>1. /\ DOMAIN pc' = DOMAIN pc /\ pc'["helper"] = pc["helper"] /\ pc'["bench"] = "done"
    BY <1>1, <1>2 DEF LmddTo, LmddShape
  <2>2. /\ DOMAIN mem' = Settings /\ SetOnce /\ NoDraw /\ mem'.off = mem.off
        /\ mem'.blocks = mem.blocks /\ mem'.buf = mem.buf /\ mem'.pid = mem.pid
        /\ mem'.faults \in 0..mem.faults
    BY <1>1, <1>2, BenchAssumption DEF LmddShape, Settings, SetOnce, NoDraw
  <2> QED BY <1>1, <1>2, <2>1, <2>2, LmddStops
<1>3. CASE chan' = Written(mem.buf) /\ mem' = Moved(mem) /\ pc' = LmddTo("loop")
  <2>1. /\ DOMAIN pc' = DOMAIN pc /\ pc'["helper"] = pc["helper"] /\ pc'["bench"] = "loop"
    BY <1>1, <1>3 DEF LmddTo, LmddShape
  <2>2. /\ DOMAIN mem' = Settings /\ SetOnce /\ mem'.pad = mem.pad /\ mem'.blocks = mem.blocks + 1
        /\ mem'.pid = mem.pid /\ mem'.faults = mem.faults /\ mem'.off = mem.off + 1
        /\ mem'.count = mem.count /\ mem'.past = mem.past /\ mem'.norepeats = mem.norepeats
    BY <1>1, <1>3 DEF Moved, LmddShape, Settings, SetOnce
  <2>3. /\ DOMAIN chan' = DOMAIN chan /\ chan'.in = chan.in /\ chan'.out = chan.out + 1
        /\ chan'.log = chan.log /\ chan'.reports = chan.reports /\ chan'.toWrite = chan.toWrite
        /\ DOMAIN chan'.file = {chan.out} \cup DOMAIN chan.file
        /\ \A p \in DOMAIN chan'.file :
             chan'.file[p] = IF p = chan.out THEN mem.buf ELSE chan.file[p]
    BY <1>1, <1>3, LmddWritten
  <2>4. First' = First /\ Behind' = 0 /\ Behind = 0 /\ (Faultless' <=> Faultless)
        /\ First \in {0, 1} /\ (mem.seek # "none" => First = 0)
    BY <1>1, <2>1, <2>2 DEF First, Behind, Faultless, SetOnce
  <2>5. LmddShape' BY <1>1, <2>1, <2>2, <2>3 DEF LmddShape, LmddPlaces, SetOnce
  <2>6. Kinds' /\ AtFirst' /\ AtRandom'
    BY <1>1, <2>1, <2>2 DEF Kinds, AtFirst, AtRandom, SetOnce
  <2>7. mem.seek = "none" => ~mem.pad /\ mem.buf = chan.out + First /\ chan.in = mem.buf + 1
    BY <1>1, <2>4 DEF LmddShape, InOrder, Following
  <2>8. mem.seek # "none" => mem.buf = chan.out + First
    BY <1>1, <2>4 DEF LmddShape, AtRandom
  <2>9. InOrder'
    <3> SUFFICES ASSUME mem.seek = "none" PROVE Following'
      BY <2>2 DEF InOrder, SetOnce
    <3>1. chan'.in = chan'.out + First + 0 BY <1>1, <2>3, <2>4, <2>7 DEF LmddShape
    <3> QED BY <1>1, <2>1, <2>2, <2>4, <2>7, <3>1 DEF Following
  <2>10. Placed'
    <3>1. \A p \in DOMAIN chan.file : chan.file[p] = p + First BY <1>1 DEF Placed
    <3>2. \A p \in DOMAIN chan'.file : chan'.file[p] = p + First BY <2>3, <2>7, <2>8, <3>1
    <3>3. mem.seek = "none" => DOMAIN chan'.file = 0..(chan'.out - 1)
      BY <1>1, <1>3, FileGrows DEF Placed
    <3> QED BY <2>2, <2>4, <3>2, <3>3 DEF Placed, SetOnce
  <2>11. Counted'
    <3>1. Faultless => chan.reports = 0 BY <1>1 DEF Counted
    <3>2. Faultless /\ mem.seek = "none" => mem'.blocks = chan'.out + 0
      BY <1>1, <2>2, <2>3, <2>4 DEF Counted, LmddShape
    <3> QED BY <1>1, <2>1, <2>2, <2>3, <2>4, <3>1, <3>2 DEF Counted, SetOnce
  <2>12. Remembers'
    <3>1. NoDraw BY <2>2, <2>3 DEF NoDraw
    <3> QED BY <1>1, <2>1, <2>2, <3>1, DrawnStays DEF Copies
  <2> QED BY <2>5, <2>6, <2>9, <2>10, <2>11, <2>12 DEF LmddState
<1> QED BY <1>2, <1>3 DEF LmddWrite

LEMMA LmddForks == LmddState /\ LmddFork => LmddState'
<1> SUFFICES ASSUME LmddState, LmddFork PROVE LmddState' OBVIOUS
<1>1. /\ program' = program /\ program = "lmdd" /\ pc["bench"] = "fork" /\ mem.fork
      /\ LmddShape /\ Kinds /\ InOrder /\ AtRandom /\ Placed /\ Counted /\ Remembers
      /\ mem.pid = "helper" => pc["helper"] \in Dead
  BY DEF LmddFork, At, LmddState, LmddShape, Kinds
<1>2. pc["helper"] # "write" BY <1>1 DEF Kinds, Dead
<1>4. CASE /\ chan' = [chan EXCEPT !.toWrite = mem.buf]
           /\ mem' = [Moved(mem) EXCEPT !.pid = "helper"]
           /\ pc' = [LmddTo("loop") EXCEPT !["helper"] = "write"]
  <2>1. DOMAIN pc' = DOMAIN pc /\ pc'["helper"] = "write" /\ pc'["bench"] = "loop"
    BY <1>1, <1>4 DEF LmddTo, LmddShape
  <2>2. /\ DOMAIN mem' = Settings /\ SetOnce /\ mem'.pad = mem.pad /\ mem'.blocks = mem.blocks + 1
        /\ mem'.pid = "helper" /\ mem'.faults = mem.faults /\ mem'.off = mem.off + 1
        /\ mem'.count = mem.count /\ mem'.past = mem.past /\ mem'.norepeats = mem.norepeats
    BY <1>1, <1>4 DEF Moved, LmddShape, Settings, SetOnce
  <2>3. /\ DOMAIN chan' = DOMAIN chan /\ chan'.in = chan.in /\ chan'.out = chan.out
        /\ chan'.log = chan.log /\ chan'.reports = chan.reports /\ chan'.toWrite = mem.buf
        /\ chan'.file = chan.file
    BY <1>1, <1>4 DEF LmddShape
  <2>4. First' = First /\ Behind' = 1 /\ Behind = 0 /\ (Faultless' <=> Faultless)
        /\ First \in {0, 1}
    BY <1>2, <2>1, <2>2 DEF First, Behind, Faultless, SetOnce
  <2>5. LmddShape' BY <1>1, <2>1, <2>2, <2>3 DEF LmddShape, LmddPlaces, SetOnce
  <2>6. Kinds' /\ AtFirst' /\ AtRandom'
    BY <1>1, <2>1, <2>2 DEF Kinds, AtFirst, AtRandom, SetOnce
  <2>7. InOrder'
    <3> SUFFICES ASSUME mem.seek = "none", Faultless PROVE Following'
      BY <1>1, <2>2, <2>4 DEF InOrder, SetOnce
    <3>1. ~mem.pad /\ mem.buf = chan.out + First + 0 /\ chan.in = mem.buf + 1
      BY <1>1, <2>4 DEF LmddShape, InOrder, Following
    <3>2. chan'.in = chan'.out + First + 1 /\ chan'.toWrite = chan'.out + First
      BY <1>1, <2>3, <2>4, <3>1 DEF LmddShape
    <3> QED BY <2>1, <2>2, <2>4, <3>1, <3>2 DEF Following
  <2>8. Placed' BY <1>1, <2>2, <2>3, <2>4 DEF Placed, SetOnce
  <2>9. Counted'
    <3>1. Faultless => chan.reports = 0 BY <1>1 DEF Counted
    <3>2. Faultless /\ mem.seek = "none" => mem'.blocks = chan'.out + 1
      BY <1>1, <2>2, <2>3, <2>4 DEF Counted, LmddShape
    <3> QED BY <2>1, <2>2, <2>3, <2>4, <3>1, <3>2 DEF Counted, SetOnce
  <2>10. Remembers'
    <3>1. NoDraw BY <2>2, <2>3 DEF NoDraw
    <3> QED BY <1>1, <2>1, <2>2, <3>1, DrawnStays DEF Copies
  <2> QED BY <2>5, <2>6, <2>7, <2>8, <2>9, <2>10 DEF LmddState
<1>5. CASE /\ mem.faults > 0
           /\ mem' = [Moved(mem) EXCEPT !.pid = "failed", !.faults = @ - 1]
           /\ pc' = [LmddTo("loop") EXCEPT !["helper"] = "none"] /\ UNCHANGED chan
  <2>1. DOMAIN pc' = DOMAIN pc /\ pc'["helper"] = "none" /\ pc'["bench"] = "loop"
    BY <1>1, <1>5 DEF LmddTo, LmddShape
  <2>2. /\ DOMAIN mem' = Settings /\ SetOnce /\ mem'.pad = mem.pad /\ mem'.blocks = mem.blocks + 1
        /\ mem'.faults = mem.faults - 1 /\ mem'.off = mem.off + 1 /\ mem'.count = mem.count
        /\ mem'.past = mem.past /\ mem'.norepeats = mem.norepeats
    BY <1>1, <1>5 DEF Moved, LmddShape, Settings, SetOnce
  <2>3. ~Faultless' /\ First' = First BY <1>1, <1>5, <2>2, BenchAssumption DEF Faultless, First, LmddShape, SetOnce
  <2>8. mem'.faults \in 0..MaxFaults BY <1>1, <1>5, <2>2, BenchAssumption DEF LmddShape
  <2>9. chan' = chan BY <1>5
  <2>4. LmddShape' BY <1>1, <2>1, <2>2, <2>8, <2>9 DEF LmddShape, LmddPlaces, SetOnce
  <2>5. Kinds' /\ AtFirst' /\ AtRandom' /\ InOrder' /\ Counted'
    BY <1>1, <2>1, <2>2, <2>3 DEF Kinds, AtFirst, AtRandom, InOrder, Counted, SetOnce
  <2>6. Placed' BY <1>1, <1>5, <2>2, <2>3 DEF Placed, SetOnce
  <2>7. Remembers'
    <3>1. NoDraw BY <2>2, <2>9 DEF NoDraw
    <3> QED BY <1>1, <2>1, <2>2, <3>1, DrawnStays DEF Copies
  <2> QED BY <2>4, <2>5, <2>6, <2>7 DEF LmddState
<1> QED BY <1>4, <1>5 DEF LmddFork

LEMMA LmddChildWrites == LmddState /\ LmddChild => LmddState'
<1> SUFFICES ASSUME LmddState, LmddChild PROVE LmddState' OBVIOUS
<1>1. /\ program' = program /\ program = "lmdd" /\ pc["helper"] = "write" /\ mem.fork
      /\ LmddShape /\ Kinds /\ AtFirst /\ InOrder /\ AtRandom /\ Placed /\ Counted /\ Remembers
  BY DEF LmddChild, At, LmddState, LmddShape, Kinds
<1>2. /\ DOMAIN pc' = DOMAIN pc /\ pc'["bench"] = pc["bench"] /\ pc'["helper"] \in Dead
      /\ pc'["helper"] # "write" /\ pc["bench"] # "main"
  BY <1>1 DEF LmddChild, LmddShape, Dead, AtFirst
<1>4. CASE chan' = Written(chan.toWrite) /\ UNCHANGED mem
  <2>1. /\ DOMAIN chan' = DOMAIN chan /\ chan'.in = chan.in /\ chan'.out = chan.out + 1
        /\ chan'.log = chan.log /\ chan'.reports = chan.reports /\ chan'.synced = chan.synced
        /\ DOMAIN chan'.file = {chan.out} \cup DOMAIN chan.file
        /\ \A p \in DOMAIN chan'.file :
             chan'.file[p] = IF p = chan.out THEN chan.toWrite ELSE chan.file[p]
    BY <1>1, <1>4, LmddWritten
  <2>2. First' = First /\ Behind' = 0 /\ Behind = 1 /\ (Faultless' <=> Faultless)
        /\ First \in {0, 1}
    BY <1>1, <1>2, <1>4 DEF First, Behind, Faultless
  <2>10. mem' = mem /\ chan'.in \in Nat /\ chan'.out \in Nat BY <1>1, <1>4, <2>1 DEF LmddShape
  <2>11. pc'["bench"] \in LmddPlaces BY <1>1, <1>2 DEF LmddShape
  <2>3. LmddShape' BY <1>1, <1>2, <2>1, <2>10, <2>11 DEF LmddShape
  <2>4. Kinds' /\ AtFirst' /\ AtRandom' BY <1>1, <1>2, <1>4 DEF Kinds, AtFirst, AtRandom
  <2>5. mem.seek = "none" /\ Faultless => Following BY <1>1 DEF InOrder
  <2>6. InOrder'
    <3> SUFFICES ASSUME mem.seek = "none", Faultless PROVE Following'
      BY <1>1, <1>4, <2>2 DEF InOrder
    <3>1. ~mem.pad BY <1>1, <2>5 DEF Following
    <3>2. pc["bench"] \in {"loop", "read"} => chan'.in = chan'.out + First + 0
      BY <1>1, <2>1, <2>2, <2>5, <3>1 DEF Following, LmddShape
    <3>3. pc["bench"] \in {"write", "fork"} =>
            mem.buf = chan'.out + First + 0 /\ chan'.in = mem.buf + 1
      BY <1>1, <2>1, <2>2, <2>5, <3>1 DEF Following, LmddShape
    <3> QED BY <1>2, <1>4, <2>2, <3>1, <3>2, <3>3 DEF Following
  <2>7. Placed'
    <3>1. mem.seek = "none" => DOMAIN chan'.file = 0..(chan'.out - 1)
      BY <1>1, <1>4, FileGrows DEF Placed
    <3>2. ASSUME mem.seek = "none", Faultless, NEW p \in DOMAIN chan'.file
          PROVE  chan'.file[p] = p + First
      <4>1. \A q \in DOMAIN chan.file : chan.file[q] = q + First BY <1>1, <3>2 DEF Placed
      <4>2. chan.toWrite = chan.out + First BY <1>1, <2>5, <3>2 DEF Following
      <4> QED BY <2>1, <3>2, <4>1, <4>2
    <3> QED BY <1>1, <1>4, <2>2, <3>1, <3>2 DEF Placed
  <2>8. Counted'
    <3>1. Faultless => chan.reports = (IF pc["bench"] = "ended" THEN 1 ELSE 0)
      BY <1>1 DEF Counted
    <3>2. Faultless /\ mem.seek = "none" => mem.blocks = chan'.out + 0
      BY <1>1, <2>1, <2>2 DEF Counted, LmddShape
    <3>3. Synced => Synced' BY <1>4, <2>1 DEF Synced
    <3> QED BY <1>1, <1>2, <1>4, <2>1, <2>2, <3>1, <3>2, <3>3 DEF Counted
  <2>9. Remembers'
    <3>1. SetOnce /\ NoDraw /\ mem'.off = mem.off BY <1>4, <2>1 DEF SetOnce, NoDraw
    <3> QED BY <1>1, <1>2, <3>1, DrawnStays
  <2> QED BY <2>3, <2>4, <2>6, <2>7, <2>8, <2>9 DEF LmddState
<1>5. CASE /\ mem.faults > 0 /\ mem' = [mem EXCEPT !.faults = @ - 1]
           /\ chan' = [chan EXCEPT !.reports = @ + 1]
  <2>1. /\ DOMAIN chan' = DOMAIN chan /\ chan'.in = chan.in /\ chan'.out = chan.out
        /\ chan'.log = chan.log /\ chan'.file = chan.file
    BY <1>1, <1>5 DEF LmddShape
  <2>2. /\ DOMAIN mem' = Settings /\ SetOnce /\ NoDraw /\ mem'.off = mem.off
        /\ mem'.blocks = mem.blocks /\ mem'.faults = mem.faults - 1
    BY <1>1, <1>5, <2>1 DEF LmddShape, Settings, SetOnce, NoDraw
  <2>3. ~Faultless' /\ First' = First
    BY <1>1, <1>5, <2>2, BenchAssumption DEF Faultless, First, LmddShape, SetOnce
  <2>8. mem'.faults \in 0..MaxFaults BY <1>1, <1>5, <2>2, BenchAssumption DEF LmddShape
  <2>4. LmddShape'
    BY <1>1, <1>2, <2>1, <2>2, <2>8 DEF LmddShape, LmddPlaces, SetOnce, NoDraw, Dead
  <2>5. Kinds' /\ AtFirst' /\ AtRandom' /\ InOrder' /\ Counted'
    BY <1>1, <1>2, <2>1, <2>2, <2>3 DEF Kinds, AtFirst, AtRandom, InOrder, Counted, SetOnce
  <2>6. Placed' BY <1>1, <2>1, <2>2, <2>3 DEF Placed, SetOnce
  <2>7. Remembers' BY <1>1, <1>2, <2>2, DrawnStays
  <2> QED BY <2>4, <2>5, <2>6, <2>7 DEF LmddState
<1> QED BY <1>4, <1>5 DEF LmddChild

LEMMA LmddEnds == LmddState /\ LmddDone => LmddState'
<1> SUFFICES ASSUME LmddState, LmddDone PROVE LmddState' OBVIOUS
<1>1. /\ program' = program /\ program = "lmdd" /\ pc["bench"] = "done" /\ mem' = mem
      /\ LmddShape /\ Kinds /\ InOrder /\ AtRandom /\ Placed /\ Counted /\ Remembers
  BY DEF LmddDone, At, LmddState
<1>2. /\ DOMAIN pc' = DOMAIN pc /\ pc'["bench"] = "ended"
      /\ pc'["helper"] = IF pc["helper"] = "zombie" THEN "gone" ELSE pc["helper"]
  BY <1>1 DEF LmddDone, BenchEnds, LmddShape
<1>3. /\ DOMAIN chan' = DOMAIN chan /\ chan'.in = chan.in /\ chan'.out = chan.out
      /\ chan'.log = chan.log /\ chan'.file = chan.file /\ chan'.synced = DOMAIN chan.file
      /\ chan'.reports = chan.reports + 1 /\ chan'.toWrite = chan.toWrite
  BY <1>1 DEF LmddDone, LmddShape
<1>4. First' = First /\ Behind' = Behind /\ (Faultless' <=> Faultless)
      /\ Behind = IF pc["helper"] = "write" THEN 1 ELSE 0
  BY <1>1, <1>2 DEF First, Behind, Faultless
<1>5. LmddShape' BY <1>1, <1>2, <1>3 DEF LmddShape, LmddPlaces, Dead
<1>6. Kinds' /\ AtFirst' /\ AtRandom' BY <1>1, <1>2 DEF Kinds, AtFirst, AtRandom
<1>7. InOrder' BY <1>1, <1>2, <1>3, <1>4 DEF InOrder, Following
<1>8. Placed' BY <1>1, <1>3, <1>4 DEF Placed
<1>9. Counted'
  <2>1. Faultless => chan'.reports = 1 BY <1>1, <1>3 DEF Counted
  <2>2. Faultless /\ mem.seek = "none" => mem.blocks = chan.out + Behind BY <1>1 DEF Counted
  <2>3. Faultless /\ mem.seek = "none" => Synced'
    <3> SUFFICES ASSUME Faultless, mem.seek = "none" PROVE Synced' OBVIOUS
    <3>1. chan'.synced = 0..(chan.out - 1) BY <1>1, <1>3 DEF Placed
    <3>2. chan.out \in Nat BY <1>1 DEF LmddShape
    <3>3. mem.blocks <= chan.out + (IF mem.fork THEN 1 ELSE 0)
      BY <1>1, <1>4, <2>2, <3>2 DEF Kinds
    <3> QED BY <1>1, <3>1, <3>2, <3>3 DEF Synced
  <2> QED BY <1>1, <1>2, <1>3, <1>4, <2>1, <2>2, <2>3 DEF Counted
<1>10. Remembers'
  <2>1. SetOnce /\ NoDraw BY <1>1, <1>3 DEF SetOnce, NoDraw
  <2> QED BY <1>1, <1>2, <2>1, DrawnStays DEF Copies
<1> QED BY <1>5, <1>6, <1>7, <1>8, <1>9, <1>10 DEF LmddState

LEMMA LmddStep == LmddState /\ LmddNext => LmddState'
BY LmddBegins, LmddSeeks, LmddReads, LmddWrites, LmddForks, LmddEnds, LmddChildWrites, LmddSignals
   DEF LmddNext, LmddBench

LEMMA Blocks ==
  ASSUME NEW n \in Nat PROVE Cardinality(0..(n - 1)) = n
<1>1. 0 \in Int /\ n - 1 \in Int BY SMT
<1>2. Cardinality(0..(n - 1)) = IF 0 > n - 1 THEN 0 ELSE (n - 1) - 0 + 1 BY <1>1, FS_Interval
<1> QED BY <1>2

(* In the end as many places are written as were counted, or synced but for    *)
(* the last child's.                                                          *)
LEMMA LmddPlaced == LmddInv => CopiesInPlace
<1> SUFFICES ASSUME LmddState, program = "lmdd" PROVE CopiesInPlace
  BY DEF LmddInv, CopiesInPlace
<1>1. LmddShape /\ Kinds /\ Placed /\ Counted BY DEF LmddState
<1>2. (mem.seek = "none" \/ ~mem.fork) /\ (mem.fork => mem.faults = MaxFaults) =>
        \A p \in DOMAIN chan.file :
          chan.file[p] = p + (IF mem.padded /\ mem.seek = "none" THEN 1 ELSE 0)
  BY <1>1 DEF Placed, First, Faultless
<1>3. ASSUME mem.faults = MaxFaults, pc["bench"] = "ended"
      PROVE  /\ chan.reports = 1
             /\ pc["helper"] # "write" /\ mem.seek = "none" =>
                  Cardinality(DOMAIN chan.file) = mem.blocks
             /\ mem.seek = "none" =>
                  Cardinality(chan.synced) >= mem.blocks - (IF mem.fork THEN 1 ELSE 0)
  <2>1. chan.reports = 1 BY <1>1, <1>3 DEF Counted, Faultless
  <2>2. chan.out \in Nat /\ mem.blocks \in Nat BY <1>1 DEF LmddShape
  <2>3. ASSUME pc["helper"] # "write", mem.seek = "none"
        PROVE  Cardinality(DOMAIN chan.file) = mem.blocks
    <3>1. mem.blocks = chan.out + 0 BY <1>1, <1>3, <2>3 DEF Counted, Faultless, Behind
    <3>2. DOMAIN chan.file = 0..(chan.out - 1) BY <1>1, <2>3 DEF Placed
    <3> QED BY <2>2, <3>1, <3>2, Blocks
  <2>4. ASSUME mem.seek = "none"
        PROVE  Cardinality(chan.synced) >= mem.blocks - (IF mem.fork THEN 1 ELSE 0)
    <3>1. Synced BY <1>1, <1>3, <2>4 DEF Counted, Faultless
    <3>2. PICK n \in Nat : chan.synced = 0..(n - 1)
                           /\ mem.blocks <= n + (IF mem.fork THEN 1 ELSE 0)
      BY <3>1 DEF Synced
    <3>3. Cardinality(chan.synced) = n BY <3>2, Blocks
    <3> QED BY <2>2, <3>2, <3>3
  <2> QED BY <2>1, <2>3, <2>4
<1> QED BY <1>2, <1>3 DEF CopiesInPlace

(* No two of the draws that were read are the same, of those of one list.      *)
LEMMA LmddDistinct == LmddInv => DrawsRemembered
<1> SUFFICES ASSUME LmddState, mem.norepeat, NEW i \in DOMAIN chan.log, NEW j \in DOMAIN chan.log,
                    1 < i, i < j, OneList(i, j)
             PROVE  Draw(i) # Draw(j)
  BY DEF LmddInv, DrawsRemembered
<1>1. chan.log \in Seq(Nat) /\ Apart BY DEF LmddState, Remembers, Drawn
<1>2. i \in 1..Log /\ j \in 1..Log BY <1>1, LenProperties DEF Log
<1> QED BY <1>1, <1>2 DEF Apart, Draw

-----------------------------------------------------------------------------
(* One program runs: no step of a program is a step of another.               *)
LEMMA EchoOwn == EchoNext => program' = program
<1>1. \A p, m : Call(p, m) => program' = program BY DEF Call
<1>2. \A p : Handshake(p) \/ Exchange(p) \/ Echo(p) => program' = program
  BY DEF Handshake, Exchange, Echo
<1>3. \A q, l, f, n : Open(q, l, f, n) => program' = program BY DEF Open
<1>4. EchoHelper => program' = program
  BY <1>2, <1>3 DEF EchoHelper, PipeWriter, FifoWriter, UnixChild, SemWriter, FifoHelperOpen
<1>5. FifoDoit => program' = program BY <1>2 DEF FifoDoit
<1>6. PipeMain \/ FifoMain \/ UnixMain \/ SemMain => program' = program
  BY <1>1 DEF PipeMain, FifoMain, UnixMain, SemMain
<1>7. PipeInitialize \/ FifoInitialize \/ FifoOpen \/ UnixInitialize \/ SemInitialize
      => program' = program
  BY <1>2, <1>3 DEF PipeInitialize, FifoInitialize, FifoOpen, UnixInitialize, SemInitialize
<1>8. PipeCleanup \/ FifoCleanup \/ UnixCleanup \/ SemCleanup => program' = program
  BY DEF PipeCleanup, FifoCleanup, UnixCleanup, SemCleanup
<1>9. PipeDoit \/ UnixBenchmark \/ SemDoit \/ Interval => program' = program
  BY <1>2 DEF PipeDoit, UnixBenchmark, SemDoit, Interval
<1> QED BY <1>2, <1>4, <1>5, <1>6, <1>7, <1>8, <1>9 DEF EchoNext, EchoBench, Sigterm, KillHelper

LEMMA TransferOwn == TransferNext => program' = program
<1>1. BwPipeMain \/ BwUnixMain => program' = program
  <2>1. \A p, m : Call(p, m) => program' = program BY DEF Call
  <2> QED BY <2>1 DEF BwPipeMain, BwUnixMain
<1>2. BwPipeInitialize \/ BwUnixInitialize \/ BwPipeReader \/ BwUnixReader => program' = program
  BY DEF BwPipeInitialize, BwUnixInitialize, Start, BwPipeReader, BwUnixReader
<1>3. BwPipeCleanup \/ BwUnixCleanup \/ Interval \/ Sigterm \/ KillHelper("helper")
      => program' = program
  BY DEF BwPipeCleanup, BwUnixCleanup, KillHelperOnly, Interval, Sigterm, KillHelper
<1>4. HelperDies => program' = program BY DEF HelperDies
<1>5. BwPipeWriter \/ BwUnixWriter => program' = program
  BY <1>4 DEF BwPipeWriter, BwUnixWriter
<1> QED BY <1>1, <1>2, <1>3, <1>5 DEF TransferNext, TransferBench, TransferHelper

LEMMA RingOwn == RingNext => program' = program
<1>1. \A i : CtxDoit(i) => program' = program BY DEF CtxDoit, DaemonEnds
<1>2. CtxMain => program' = program BY DEF CtxMain, Call
<1>3. CreatePipes \/ CtxInitialize \/ CreateDaemons \/ BenchmarkOverhead \/ CtxBenchmark
      => program' = program
  BY DEF CreatePipes, CtxInitialize, CreateDaemons, BenchmarkOverhead, CtxBenchmark
<1>4. CleanupOverhead \/ CtxCleanup \/ CtxCleanupCrash \/ Interval \/ Sigterm => program' = program
  BY DEF CleanupOverhead, CtxCleanup, CtxCleanupCrash, Interval, Sigterm
<1>5. \A i : KillDaemon(i) => program' = program BY DEF KillDaemon
<1> QED BY <1>1, <1>2, <1>3, <1>4, <1>5 DEF RingNext, RingBench, RingDaemon

LEMMA ForkOwn == ForkNext => program' = program
<1>1. \A p, m : Call(p, m) => program' = program BY DEF Call
<1>2. LatProcMain \/ LatCmdMain \/ PmakeMain \/ LatSigMain => program' = program
  BY <1>1 DEF LatProcMain, LatCmdMain, PmakeMain, LatSigMain
<1>3. \A k : ForkAndWait(k) \/ SigDone(k) => program' = program BY DEF ForkAndWait, SigDone
<1>4. DoShell \/ DoForkexec \/ DoFork \/ DoProcedure \/ ProcCleanup \/ NoInitialize
      => program' = program
  BY <1>3 DEF DoShell, DoForkexec, DoFork, DoProcedure, ProcCleanup, NoInitialize
<1>5. CmdBench \/ CmdEnds \/ CmdSigterm \/ PmakeSetup \/ PmakeWork \/ PmakeBench \/ PmakeEnds
      => program' = program
  BY DEF CmdBench, CmdEnds, CmdSigterm, PmakeSetup, PmakeWork, PmakeBench, PmakeEnds, Sigterm
<1>6. BenchCatch \/ BenchProt \/ SigInitialize \/ DoSend \/ DoInstall \/ DoCatch \/ DoProt
        \/ Prot \/ SigEnds \/ Interval
      => program' = program
  BY <1>3 DEF BenchCatch, BenchProt, NextStage, SigInitialize, DoSend, DoInstall, DoCatch, DoProt,
              Prot, SigEnds, Interval
<1>7. ForkChild => program' = program BY DEF ForkChild, ProcChild, PmakeJob
<1>8. \A p : KillHelper(p) => program' = program BY DEF KillHelper
<1> QED BY <1>2, <1>4, <1>5, <1>6, <1>7, <1>8 DEF ForkNext, ForkBench

LEMMA ForkingOwn == ForkingNext => program' = program
<1>1. \A s, l : tcp_accept(s, l) \/ tcp_server(s) => program' = program BY DEF tcp_accept, tcp_server
<1>2. \A c, l : tcp_connect(c, l) => program' = program BY DEF tcp_connect
<1>3. \A p, a, b : Stop(p, a) \/ Arguments(p, a, b) => program' = program
  BY <1>2 DEF Stop, Arguments
<1>4. LatTcpMain \/ BwTcpMain => program' = program BY <1>3 DEF LatTcpMain, BwTcpMain
<1>5. \A c : ForkingClient(c) => program' = program
  BY <1>2 DEF ForkingClient, LatTcpInit, LatTcpDoclient, LatTcpCleanup, BwTcpInitialize, LoopTransfer,
              BwTcpCleanup, Close, SendSize
<1>6. ForkingServer => program' = program
  BY <1>1 DEF ForkingServer, LatTcpServer, BwTcpServer, AcceptAndFork
<1>7. \A i : Doserver(i) \/ Source(i) => program' = program
  BY DEF Doserver, Source, ReadControl, ShutDown, HandlerEnds, LastRead
<1> QED BY <1>4, <1>5, <1>6, <1>7 DEF ForkingNext, sigchld_wait_handler, KillClient, GoAway

LEMMA SequentialOwn == SequentialNext => program' = program
<1>1. \A s, l : tcp_accept(s, l) \/ tcp_server(s) \/ unix_server(s) \/ unix_done(s)
                \/ ServerEnds(s, l) \/ CloseAndAccept(s) => program' = program
  BY DEF tcp_accept, tcp_server, unix_server, unix_done, ServerEnds, CloseAndAccept
<1>2. \A c, l : ConnectBy(c, l) \/ Iterate(c, l) => program' = program
  BY DEF ConnectBy, tcp_connect, unix_connect, Iterate, CloseAndIterate
<1>3. \A p, n : StartUsers(p, n) \/ AskToStop(p) => program' = program
  BY <1>2 DEF StartUsers, AskToStop
<1>4. \A c : LatConnectDoclient(c) \/ UnixConnectBenchmark(c) \/ Http(c) => program' = program
  BY <1>2 DEF LatConnectDoclient, UnixConnectBenchmark, Http
<1>5. SequentialClient => program' = program
  BY <1>3, <1>4 DEF SequentialClient, LatConnectMain, UnixConnectMain, LatHttpMain, Killhttp
<1>6. \A s : LmhttpWorker(s) => program' = program
  BY <1>1 DEF LmhttpWorker, LmhttpSource, Rdwr, MmapRdwr, SendByte
<1>7. SequentialServer => program' = program
  BY <1>1, <1>6 DEF SequentialServer, LatConnectServer, UnixConnectServer, AcceptAndRead, LmhttpMain
<1> QED BY <1>5, <1>7 DEF SequentialNext, KillClient, KillServer

LEMMA DatagramOwn == DatagramNext => program' = program
<1>1. \A p, l : Goes(p, l) \/ BeginClients(p, l) \/ ShutDownRun(p, l) \/ udp_server(p)
                \/ ClientDone(p, l) \/ CleanupSocket(p, l) => program' = program
  BY DEF Goes, BeginClients, ShutDownRun, udp_server, ClientDone, CleanupSocket
<1>2. LatUdpMain \/ BwUdpMain \/ LatRpcMain => program' = program
  BY <1>1 DEF LatUdpMain, BwUdpMain, LatRpcMain
<1>3. \A c : LatUdpDoit(c) \/ LatUdpTimeout(c) \/ LatUdpCleanup(c) \/ BwUdpLoopTransfer(c)
             \/ BwUdpCleanup(c) => program' = program
  BY <1>1 DEF LatUdpDoit, LatUdpTimeout, LatUdpCleanup, BwUdpLoopTransfer, BwUdpCleanup
<1>4. \A c : LatRpcInitialize(c) \/ LatRpcBenchmark(c) \/ LatRpcDoit(c) \/ client_rpc_xact_1(c)
             => program' = program
  BY <1>1 DEF LatRpcInitialize, LatRpcBenchmark, LatRpcDoit, client_rpc_xact_1
<1>5. LatUdpServer \/ BwUdpServer => program' = program
  BY <1>1 DEF LatUdpServer, BwUdpServer
<1>6. LatRpcServer \/ xact_prog_1 => program' = program
  BY <1>1 DEF LatRpcServer, xact_prog_1
<1>7. UdpGoAway => program' = program BY <1>1 DEF UdpGoAway
<1> QED BY <1>2, <1>3, <1>4, <1>5, <1>6, <1>7
        DEF DatagramNext, DatagramMain, DatagramServer, DatagramClient, Lose

LEMMA MemoryOwn == MemoryNext => program' = program
<1>1. \A p, m : Call(p, m) => program' = program BY DEF Call
<1>2. LatMemRdMain \/ LatDramPageMain => program' = program
  BY <1>1 DEF LatMemRdMain, LatDramPageMain
<1>3. ChainInitialize \/ BenchmarkLoads \/ MemCleanup \/ Interval \/ Sigterm => program' = program
  BY DEF ChainInitialize, BenchmarkLoads, MemCleanup, Interval, Sigterm
<1>4. ComputeTimes \/ FindTlb \/ LineFind \/ LineTest \/ ParMem => program' = program
  BY DEF ComputeTimes, FindTlb, LineFind, LineTest, ParMem
<1> QED BY <1>2, <1>3, <1>4 DEF MemoryNext, MemoryBench

LEMMA LockOwn == LockNext => program' = program
<1>1. FcntlMain \/ FcntlInitialize \/ FcntlCleanup \/ FcntlKill => program' = program
  BY DEF FcntlMain, Call, FcntlInitialize, FcntlCleanup, FcntlKill
<1>2. ProcA \/ ProcB \/ Interval \/ Sigterm => program' = program
  BY DEF ProcA, ProcB, Interval, Sigterm
<1>3. SelectMain \/ SelectInitialize \/ SelectDoit \/ SelectCleanup => program' = program
  BY DEF SelectMain, SelectInitialize, SelectDoit, SelectCleanup
<1>4. SelectServer \/ SelectParent \/ SelectKill => program' = program
  BY DEF SelectServer, SelectParent, SelectKill
<1> QED BY <1>1, <1>2, <1>3, <1>4 DEF LockNext, LockBench, LockHelper, LockParent

LEMMA LmddOwn == LmddNext => program' = program
<1>1. LmddMain \/ LmddSeek \/ LmddRead \/ LmddWrite \/ LmddFork \/ LmddDone => program' = program
  BY DEF LmddMain, LmddSeek, LmddRead, LmddWrite, LmddFork, LmddDone
<1>2. LmddChild \/ LmddSignal => program' = program BY DEF LmddChild, LmddSignal
<1> QED BY <1>1, <1>2 DEF LmddNext, LmddBench

LEMMA NextOwn == [Next]_childvars => program' = program
BY EchoOwn, TransferOwn, RingOwn, ForkOwn, ForkingOwn, SequentialOwn, DatagramOwn, MemoryOwn,
   LockOwn, LmddOwn
   DEF Next, childvars

-----------------------------------------------------------------------------
(* lat_mem_rd: the chain that stride_initialize() makes.                      *)

(* The sequence of the members of sequences of one.                          *)
Ones(x, n) == [i \in 1..n |-> <<x[i]>>]
Flat(seqs, f) == [i \in 1..Len(seqs) |-> IF i = 1 THEN seqs[i] ELSE f[i - 1] \o seqs[i]]

LEMMA FlattenOnes ==
  ASSUME NEW n \in Nat \ {0}, NEW x
  PROVE  FlattenSeq(Ones(x, n)) = [i \in 1..n |-> x[i]]
<1> DEFINE seqs == Ones(x, n)
           good == [i \in 1..n |-> [k \in 1..i |-> x[k]]]
           f == CHOOSE g : g = Flat(seqs, g)
<1>1. Len(seqs) = n /\ \A i \in 1..n : seqs[i] = <<x[i]>> BY DEF Ones
<1>2. good = Flat(seqs, good)
  <2>1. \A i \in 1..n : good[i] = IF i = 1 THEN seqs[i] ELSE good[i - 1] \o seqs[i]
    <3>1. SUFFICES ASSUME NEW i \in 1..n
                   PROVE  good[i] = IF i = 1 THEN seqs[i] ELSE good[i - 1] \o seqs[i]
      OBVIOUS
    <3>2. CASE i = 1
      <4>1. good[1] = [k \in 1..1 |-> x[k]] BY <3>2
      <4>2. [k \in 1..1 |-> x[k]] = <<x[1]>> OBVIOUS
      <4> QED BY <1>1, <3>2, <4>1, <4>2
    <3>3. CASE i # 1
      <4>1. i - 1 \in 1..n BY <3>3
      <4>2. good[i - 1] = [k \in 1..(i - 1) |-> x[k]] BY <4>1
      <4>3. good[i] = [k \in 1..i |-> x[k]] OBVIOUS
      <4>4. [k \in 1..(i - 1) |-> x[k]] \o <<x[i]>> = [k \in 1..i |-> x[k]]
        BY <4>1
      <4> QED BY <1>1, <3>3, <4>2, <4>3, <4>4
    <3> QED BY <3>2, <3>3
  <2> HIDE DEF seqs
  <2>2. DOMAIN good = 1..n OBVIOUS
  <2> HIDE DEF good
  <2>3. Flat(seqs, good) = [i \in 1..n |-> IF i = 1 THEN seqs[i] ELSE good[i - 1] \o seqs[i]]
    BY <1>1 DEF Flat
  <2>4. good = [i \in 1..n |-> good[i]] BY <2>2 DEF good
  <2> QED BY <2>1, <2>3, <2>4
<1>3. FlattenSeq(seqs) = f[n] BY <1>1 DEF FlattenSeq, Flat
<1>4. f = Flat(seqs, f) BY <1>2
<1> HIDE DEF f, seqs
<1>5. /\ f[1] = <<x[1]>>
      /\ \A i \in 2..n : f[i] = f[i - 1] \o <<x[i]>>
  <2>1. f = [i \in 1..n |-> IF i = 1 THEN seqs[i] ELSE f[i - 1] \o seqs[i]]
    BY <1>1, <1>4 DEF Flat
  <2>2. \A i \in 1..n : f[i] = IF i = 1 THEN seqs[i] ELSE f[i - 1] \o seqs[i] BY <2>1
  <2>3. 1 \in 1..n /\ \A i \in 2..n : i \in 1..n /\ i # 1 OBVIOUS
  <2>4. f[1] = seqs[1] BY <2>2, <2>3
  <2>5. \A i \in 2..n : f[i] = f[i - 1] \o seqs[i] BY <2>2, <2>3
  <2> QED BY <1>1, <2>3, <2>4, <2>5
<1> DEFINE odd == {i \in 1..n : f[i] # good[i]}
<1>6. ASSUME odd # {} PROVE FALSE
  <2>1. PICK i \in odd : \A j \in odd : i <= j
    <3>1. odd \in SUBSET Nat OBVIOUS
    <3> HIDE DEF odd
    <3> QED BY <1>6, <3>1, FirstInQueue
  <2>2. i \in 1..n /\ f[i] # good[i] OBVIOUS
  <2>3. CASE i = 1
    <3>1. good[1] = [k \in 1..1 |-> x[k]] OBVIOUS
    <3>2. [k \in 1..1 |-> x[k]] = <<x[1]>> OBVIOUS
    <3> QED BY <1>5, <2>2, <2>3, <3>1, <3>2
  <2>4. CASE i # 1
    <3>1. i - 1 \in 1..n /\ i - 1 \notin odd /\ i \in 2..n BY <2>1, <2>4
    <3>2. f[i - 1] = [k \in 1..(i - 1) |-> x[k]] BY <3>1
    <3>3. good[i] = [k \in 1..i |-> x[k]] OBVIOUS
    <3>4. [k \in 1..(i - 1) |-> x[k]] \o <<x[i]>> = [k \in 1..i |-> x[k]] BY <3>1
    <3> QED BY <1>5, <2>2, <3>1, <3>2, <3>3, <3>4
  <2> QED BY <2>3, <2>4
<1>7. n \in 1..n OBVIOUS
<1>8. f[n] = good[n] BY <1>6, <1>7
<1> QED BY <1>3, <1>8 DEF seqs

(* The first n places and, where they are different, the memory after a store  *)
(* to each of them.                                                           *)
Places(place, n) == {place[i] : i \in 1..n}
Stores(place, value, n) == [i \in 1..n |-> <<place[i], value[i]>>]

LEMMA StoredOnce ==
  ASSUME NEW n \in Nat \ {0}, NEW place, NEW value,
         \A i, j \in 1..n : place[i] = place[j] => i = j
  PROVE  /\ DOMAIN Stored(Stores(place, value, n)) = Places(place, n)
         /\ \A i \in 1..n : Stored(Stores(place, value, n))[place[i]] = value[i]
<1> DEFINE w == Stores(place, value, n)
           At1(a) == {i \in DOMAIN w : w[i][1] = a}
<1>1. DOMAIN w = 1..n /\ \A i \in 1..n : w[i][1] = place[i] /\ w[i][2] = value[i]
  BY DEF Stores
<1>2. ToSet(w) = {w[i] : i \in 1..n} BY <1>1 DEF ToSet
<1>3. {x[1] : x \in ToSet(w)} = {place[i] : i \in 1..n}
  <2>1. ASSUME NEW x \in ToSet(w) PROVE \E i \in 1..n : x[1] = place[i]
    <3>1. PICK i \in 1..n : x = w[i] BY <1>2
    <3> QED BY <1>1, <3>1
  <2>2. ASSUME NEW i \in 1..n PROVE \E x \in ToSet(w) : x[1] = place[i]
    <3>1. w[i] \in ToSet(w) BY <1>2
    <3> QED BY <1>1, <3>1
  <2> HIDE DEF w
  <2> QED BY <2>1, <2>2
<1> HIDE DEF w
<1>4. ASSUME NEW i \in 1..n PROVE Max(At1(place[i])) = i
  <2>1. At1(place[i]) = {i} BY <1>1
  <2>2. Max({i}) = i BY DEF Max
  <2> QED BY <2>1, <2>2
<1>5. Stored(w) = [a \in {place[i] : i \in 1..n} |-> w[Max(At1(a))][2]] BY <1>3 DEF Stored
<1>6. ASSUME NEW i \in 1..n PROVE Stored(w)[place[i]] = value[i]
  <2>1. place[i] \in {place[k] : k \in 1..n} OBVIOUS
  <2>2. Stored(w)[place[i]] = w[Max(At1(place[i]))][2] BY <1>5, <2>1
  <2> QED BY <1>1, <1>4, <2>2
<1>7. DOMAIN Stored(w) = {place[i] : i \in 1..n} BY <1>5
<1> QED BY <1>6, <1>7 DEF w, Places

(* A ring of different places, each holding the next one.                     *)
Ring(c, place, n) ==
  /\ DOMAIN c = Places(place, n)
  /\ \A i \in 1..n : c[place[i]] = IF i = n THEN place[1] ELSE place[i + 1]
  /\ \A i, j \in 1..n : place[i] = place[j] => i = j

LEMMA RingSize ==
  ASSUME NEW n \in Nat \ {0}, NEW place,
         \A i, j \in 1..n : place[i] = place[j] => i = j
  PROVE  Cardinality(Places(place, n)) = n
<1> DEFINE f == [i \in 1..n |-> place[i]]
           T == {place[i] : i \in 1..n}
<1>1. f \in Bijection(1..n, T) BY DEF Bijection, Injection, Surjection, IsInjective
<1>2. ExistsBijection(1..n, T) BY <1>1 DEF ExistsBijection
<1>3. IsFiniteSet(1..n) /\ Cardinality(1..n) = n BY FS_Interval
<1> QED BY <1>2, <1>3, FS_Bijection DEF Places

(* The n loads that begin at the first of n places lead through all of them    *)
(* and back.                                                                  *)
LEMMA RingWalk ==
  ASSUME NEW n \in Nat \ {0}, NEW place, NEW c, Ring(c, place, n)
  PROVE  \A i \in 0..n : Walk(c, place[1], n)[i] = IF i = n THEN place[1] ELSE place[i + 1]
<1> DEFINE Next0(g) == [i \in 0..n |-> IF i = 0 THEN place[1] ELSE c[g[i - 1]]]
           good == [i \in 0..n |-> IF i = n THEN place[1] ELSE place[i + 1]]
           f == CHOOSE g : g = Next0(g)
<1>1. \A i \in 0..n : good[i] = IF i = 0 THEN place[1] ELSE c[good[i - 1]]
  <2>1. SUFFICES ASSUME NEW i \in 0..n PROVE good[i] = IF i = 0 THEN place[1] ELSE c[good[i - 1]]
    OBVIOUS
  <2>2. CASE i = 0 BY <2>2
  <2>3. CASE i # 0
    <3>1. i \in 1..n /\ i - 1 \in 0..n /\ i - 1 # n /\ (i - 1) + 1 = i BY <2>3
    <3>2. good[i - 1] = place[i] BY <3>1
    <3>3. good[i] = IF i = n THEN place[1] ELSE place[i + 1] OBVIOUS
    <3>4. c[place[i]] = IF i = n THEN place[1] ELSE place[i + 1] BY <3>1 DEF Ring
    <3> QED BY <2>3, <3>2, <3>3, <3>4
  <2> QED BY <2>2, <2>3
<1>2. good = Next0(good)
  <2>1. good = [i \in 0..n |-> good[i]] OBVIOUS
  <2> HIDE DEF good
  <2> QED BY <1>1, <2>1
<1>3. f = Next0(f) BY <1>2
<1>4. Walk(c, place[1], n) = f BY DEF Walk
<1> HIDE DEF f
<1>5. \A i \in 0..n : f[i] = IF i = 0 THEN place[1] ELSE c[f[i - 1]] BY <1>3
<1> DEFINE odd == {i \in 0..n : f[i] # good[i]}
<1>6. ASSUME odd # {} PROVE FALSE
  <2>1. PICK i \in odd : \A j \in odd : i <= j
    <3>1. odd \in SUBSET Nat OBVIOUS
    <3> HIDE DEF odd
    <3> QED BY <1>6, <3>1, FirstInQueue
  <2> HIDE DEF good
  <2>2. i \in 0..n /\ f[i] # good[i] OBVIOUS
  <2>3. i # 0 BY <1>1, <1>5, <2>2
  <2>4. i - 1 \in 0..n /\ i - 1 \notin odd BY <2>1, <2>2, <2>3
  <2>5. f[i - 1] = good[i - 1] BY <2>4
  <2> QED BY <1>1, <1>5, <2>2, <2>3, <2>5
<1>7. \A i \in 0..n : f[i] = good[i] BY <1>6
<1> QED BY <1>4, <1>7

LEMMA RingTour ==
  ASSUME NEW n \in Nat \ {0}, NEW place, NEW c, Ring(c, place, n)
  PROVE  /\ Tour(c, place[1]) = Places(place, n)
         /\ Cardinality(Tour(c, place[1])) = n
         /\ Lap(c, place[1])
<1> DEFINE T == Places(place, n)
           walk == Walk(c, place[1], n)
<1>1. DOMAIN c = T /\ Cardinality(T) = n BY RingSize DEF Ring
<1>2. \A i \in 0..n : walk[i] = IF i = n THEN place[1] ELSE place[i + 1] BY RingWalk
<1>3. Tour(c, place[1]) = {walk[i] : i \in 0..n} BY <1>1 DEF Tour
<1> HIDE DEF walk
<1>4. \A i \in 0..n : walk[i] \in T
  <2>1. SUFFICES ASSUME NEW i \in 0..n PROVE walk[i] \in T OBVIOUS
  <2>2. CASE i = n BY <1>2, <2>2 DEF Places
  <2>3. CASE i # n
    <3>1. i + 1 \in 1..n BY <2>3
    <3> QED BY <1>2, <2>3, <3>1 DEF Places
  <2> QED BY <2>2, <2>3
<1>5. \A k \in 1..n : \E i \in 0..n : walk[i] = place[k]
  <2>1. SUFFICES ASSUME NEW k \in 1..n PROVE \E i \in 0..n : walk[i] = place[k] OBVIOUS
  <2>2. k - 1 \in 0..n /\ k - 1 # n /\ (k - 1) + 1 = k OBVIOUS
  <2>3. walk[k - 1] = place[k] BY <1>2, <2>2
  <2> QED BY <2>2, <2>3
<1>6. Tour(c, place[1]) = T BY <1>3, <1>4, <1>5 DEF Places
<1>7. walk[n] = place[1] BY <1>2
<1>8. Lap(c, place[1]) BY <1>1, <1>6, <1>7 DEF Lap, walk
<1> QED BY <1>1, <1>6, <1>8

-----------------------------------------------------------------------------
(* Multiples of a stride.                                                     *)
(* The stores of stride_initialize(): as many as there are multiples of the    *)
(* stride below the length, each to one of them.                              *)
Hops(len, line) == (len + line - 1) \div line

LEMMA HopsRight ==
  ASSUME NEW len \in Nat \ {0}, NEW line \in Nat \ {0}
  PROVE  /\ Hops(len, line) \in Nat \ {0}
         /\ {(k - 1) * line : k \in 1..Hops(len, line)}
              = {a \in 0..(len - 1) : a % line = 0}
         /\ Hops(len, line) <= 2 * (len \div (line * 2) + 1)
<1> DEFINE n == Hops(len, line)
           m == len + line - 1
           r == m % line
<1>1. m \in Nat OBVIOUS
<1>2. n \in Nat /\ r \in 0..(line - 1) /\ m = n * line + r BY <1>1, Divided DEF Hops
<1>3. n # 0
  <2>1. n = 0 => n * line = 0 BY <1>2
  <2> QED BY <1>2, <2>1
<1>4. len <= n * line /\ n * line < len + line /\ n * line \in Nat BY <1>2, Multiples
<1> HIDE DEF n, m, r
<1>5. ASSUME NEW k \in 1..n
      PROVE  (k - 1) * line \in 0..(len - 1) /\ ((k - 1) * line) % line = 0
  <2>1. k - 1 \in Nat /\ k - 1 < n BY <1>2
  <2>2. (k - 1) * line \in Nat /\ (k - 1) * line + line <= n * line BY <1>2, <2>1, Multiples
  <2>3. (k - 1) * line < len BY <1>4, <2>2
  <2>4. ((k - 1) * line) % line = 0
    <3> DEFINE q == ((k - 1) * line) \div line
               t == ((k - 1) * line) % line
    <3>1. q \in Nat /\ t \in 0..(line - 1) /\ (k - 1) * line = q * line + t BY <2>2, Divided
    <3> HIDE DEF q, t
    <3>2. q * line \in Nat BY <3>1, Multiples
    <3>3. ~ (k - 1 < q)
      <4>1. k - 1 < q => (k - 1) * line + line <= q * line BY <2>1, <3>1, Multiples
      <4> QED BY <2>2, <3>1, <3>2, <4>1
    <3>4. ~ (q < k - 1)
      <4>1. q < k - 1 => q * line + line <= (k - 1) * line BY <2>1, <3>1, Multiples
      <4> QED BY <2>2, <3>1, <3>2, <4>1
    <3>5. q = k - 1 BY <2>1, <3>1, <3>3, <3>4
    <3>6. t = 0 BY <2>2, <3>1, <3>5
    <3> QED BY <3>6 DEF t
  <2> QED BY <2>2, <2>3, <2>4
<1>6. ASSUME NEW a \in 0..(len - 1), a % line = 0
      PROVE  \E k \in 1..n : a = (k - 1) * line
  <2> DEFINE q == a \div line
  <2>1. q \in Nat /\ a = q * line
    <3>1. a \in Nat OBVIOUS
    <3>2. q \in Nat /\ a = q * line + (a % line) BY <3>1, Divided
    <3>3. q * line \in Nat BY <3>2, Multiples
    <3> HIDE DEF q
    <3> QED BY <1>6, <3>2, <3>3
  <2> HIDE DEF q
  <2>2. ~ (n <= q)
    <3>1. SUFFICES ASSUME n <= q PROVE FALSE OBVIOUS
    <3>2. n * line <= q * line
      <4>1. CASE n = q BY <1>4, <4>1
      <4>2. CASE n # q
        <5>1. n < q BY <1>2, <2>1, <3>1, <4>2
        <5>2. n * line + line <= q * line BY <1>2, <2>1, <5>1, Multiples
        <5> QED BY <1>4, <2>1, <5>2
      <4> QED BY <4>1, <4>2
    <3> QED BY <1>4, <2>1, <3>2
  <2>3. q + 1 \in 1..n /\ (q + 1) - 1 = q BY <1>2, <2>1, <2>2
  <2>4. a = ((q + 1) - 1) * line BY <2>1, <2>3
  <2> QED BY <2>3, <2>4
<1>7. n <= 2 * (len \div (line * 2) + 1)
  <2> DEFINE dd == line * 2
             q == len \div dd
             t == len % dd
  <2>1. dd \in Nat \ {0} OBVIOUS
  <2>2. q \in Nat /\ t \in 0..(dd - 1) /\ len = q * dd + t
    <3> HIDE DEF dd
    <3> QED BY <2>1, Divided
  <2>3. dd = line * 2 OBVIOUS
  <2> HIDE DEF dd, q, t
  <2>4. q * dd = (2 * q) * line BY <2>2, <2>3
  <2>5. (2 * q) * line \in Nat /\ 2 * q \in Nat BY <2>2, Multiples
  <2>6. SUFFICES ASSUME 2 * q + 2 < n PROVE FALSE BY <1>2, <2>2 DEF q, dd
  <2>7. (2 * q + 2) * line + line <= n * line BY <1>2, <2>5, <2>6, Multiples
  <2>8. (2 * q + 2) * line = (2 * q) * line + 2 * line BY <2>5
  <2> QED BY <1>4, <2>2, <2>3, <2>4, <2>5, <2>7, <2>8
<1>8. {(k - 1) * line : k \in 1..n} = {a \in 0..(len - 1) : a % line = 0} BY <1>5, <1>6
<1> QED BY <1>2, <1>3, <1>7, <1>8 DEF n

LEMMA StrideChain ==
  ASSUME NEW s, s.len \in Nat \ {0}, s.line \in Nat \ {0}
  PROVE  Ring(stride_initialize(s).chain, [k \in 1..Hops(s.len, s.line) |-> (k - 1) * s.line],
              Hops(s.len, s.line))
<1> DEFINE n == Hops(s.len, s.line)
           place == [k \in 1..n |-> (k - 1) * s.line]
           value == [k \in 1..n |-> IF k = n THEN 0 ELSE k * s.line]
           x == Stores(place, value, n)
<1>1. n \in Nat \ {0} BY HopsRight
<1>2. stride_initialize(s).chain = Stored(FlattenSeq(
          [i \in 1..n |-> <<Store((i - 1) * s.line,
                                  IF i - 1 = n - 1 THEN 0 ELSE ((i - 1) + 1) * s.line)>>]))
  BY DEF stride_initialize, ForEach, Hops
<1> HIDE DEF n
<1>3. \A i \in 1..n : Store((i - 1) * s.line,
                            IF i - 1 = n - 1 THEN 0 ELSE ((i - 1) + 1) * s.line) = x[i]
  <2>1. SUFFICES ASSUME NEW i \in 1..n
                 PROVE  Store((i - 1) * s.line,
                              IF i - 1 = n - 1 THEN 0 ELSE ((i - 1) + 1) * s.line) = x[i]
    OBVIOUS
  <2>2. (i - 1 = n - 1 <=> i = n) /\ (i - 1) + 1 = i BY <1>1
  <2> QED BY <2>2 DEF Store, Stores
<1>4. x = [k \in 1..n |-> x[k]] BY DEF Stores
<1> HIDE DEF x
<1>5. [i \in 1..n |-> <<Store((i - 1) * s.line,
                              IF i - 1 = n - 1 THEN 0 ELSE ((i - 1) + 1) * s.line)>>] = Ones(x, n)
  BY <1>3 DEF Ones
<1>6. stride_initialize(s).chain = Stored(x)
  <2>1. FlattenSeq(Ones(x, n)) = [k \in 1..n |-> x[k]] BY <1>1, FlattenOnes
  <2>2. FlattenSeq(Ones(x, n)) = x BY <1>4, <2>1
  <2> QED BY <1>2, <1>5, <2>2
<1>7. \A i, j \in 1..n : place[i] = place[j] => i = j
  <2>1. SUFFICES ASSUME NEW i \in 1..n, NEW j \in 1..n, place[i] = place[j] PROVE i = j OBVIOUS
  <2>2. i - 1 \in Nat /\ j - 1 \in Nat /\ (i - 1) * s.line = (j - 1) * s.line BY <2>1
  <2>3. i - 1 = j - 1 BY <2>2, Multiples
  <2> QED BY <2>3
<1>8. DOMAIN Stored(x) = Places(place, n) /\ \A i \in 1..n : Stored(x)[place[i]] = value[i]
  <2> HIDE DEF place, value
  <2> QED BY <1>1, <1>7, StoredOnce DEF x
<1>9. \A i \in 1..n : value[i] = IF i = n THEN place[1] ELSE place[i + 1]
  <2>1. SUFFICES ASSUME NEW i \in 1..n
                 PROVE  value[i] = IF i = n THEN place[1] ELSE place[i + 1]
    OBVIOUS
  <2>2. CASE i = n
    <3>1. 1 \in 1..n /\ place[1] = (1 - 1) * s.line BY <1>1
    <3>2. (1 - 1) * s.line = 0 OBVIOUS
    <3> QED BY <2>2, <3>1, <3>2
  <2>3. CASE i # n
    <3>1. i + 1 \in 1..n /\ (i + 1) - 1 = i BY <1>1, <2>3
    <3> QED BY <2>3, <3>1
  <2> QED BY <2>2, <2>3
<1> HIDE DEF place, value
<1>10. Ring(Stored(x), place, n) BY <1>7, <1>8, <1>9 DEF Ring
<1> QED BY <1>6, <1>10 DEF place, n

(* stride_initialize() makes one lap through the multiples of the stride, and   *)
(* an iteration loads each of them.                                            *)
LEMMA StrideLap ==
  ASSUME NEW s, s.len \in Nat \ {0}, s.line \in Nat \ {0}
  PROVE  LET c == stride_initialize(s).chain IN
         /\ Lap(c, 0) /\ Tour(c, 0) = {a \in 0..(s.len - 1) : a % s.line = 0}
         /\ Cardinality(Tour(c, 0)) <= Loads(s)
<1> DEFINE n == Hops(s.len, s.line)
           place == [k \in 1..n |-> (k - 1) * s.line]
           c == stride_initialize(s).chain
<1>1. /\ n \in Nat \ {0} /\ n <= 2 * (s.len \div (s.line * 2) + 1)
      /\ {(k - 1) * s.line : k \in 1..n} = {a \in 0..(s.len - 1) : a % s.line = 0}
  BY HopsRight
<1>2. Ring(c, place, n) BY StrideChain
<1> HIDE DEF n, c
<1>3. Places(place, n) = {(k - 1) * s.line : k \in 1..n} BY DEF Places
<1>4. place[1] = 0
  <2>1. place[1] = (1 - 1) * s.line BY <1>1
  <2> QED BY <2>1
<1> HIDE DEF place
<1>5. /\ Tour(c, 0) = Places(place, n) /\ Cardinality(Tour(c, 0)) = n /\ Lap(c, 0)
  <2>1. /\ Tour(c, place[1]) = Places(place, n) /\ Cardinality(Tour(c, place[1])) = n
        /\ Lap(c, place[1])
    BY <1>1, <1>2, RingTour
  <2> QED BY <1>4, <2>1
<1>6. n <= Loads(s) BY <1>1 DEF Loads, Unroll
<1> QED BY <1>1, <1>3, <1>5, <1>6 DEF c

(* What the programs of memory keep of a chain that stride_initialize() made.   *)
MemoryState ==
  /\ program \in MemoryNames
  /\ "bench" \in DOMAIN pc /\ {"kind", "s"} \subseteq DOMAIN mem
  /\ pc["bench"] = "main" => chan = <<>>
  /\ mem.kind = "stride" =>
       /\ program = "lat_mem_rd" /\ pc["bench"] # "cut"
       /\ {"len", "line"} \subseteq DOMAIN mem.s
       /\ mem.s.len \in Nat \ {0} /\ mem.s.line \in {1, 2}
       /\ chan = <<>> \/ chan = stride_initialize(mem.s).chain
MemoryInv == program \in MemoryNames => MemoryState

LEMMA BlankFields ==
  {"kind", "s"} \subseteq DOMAIN Blank /\ Blank.kind = "none"
BY DEF Blank, With, ChildInit

LEMMA MemoryStart == MemoryInit => MemoryInv
<1> SUFFICES ASSUME MemoryInit PROVE MemoryState BY DEF MemoryInv
<1>1. /\ program \in MemoryNames /\ mem = Blank /\ chan = <<>>
      /\ pc = [p \in {"bench"} |-> "main"]
  BY DEF MemoryInit
<1>2. "bench" \in DOMAIN pc BY <1>1
<1> QED BY <1>1, <1>2, BlankFields DEF MemoryState

(* A program whose chains have other kinds.                                    *)
LEMMA OtherKind ==
  ASSUME MemoryState, program' = program, DOMAIN pc' = DOMAIN pc,
         {"kind", "s"} \subseteq DOMAIN mem', mem'.kind # "stride",
         pc'["bench"] = "main" => chan' = <<>>
  PROVE  MemoryState'
BY DEF MemoryState

(* A step that leaves the array as it is, and its chain or nothing of it.      *)
LEMMA SameChain ==
  ASSUME MemoryState, program' = program, DOMAIN pc' = DOMAIN pc,
         DOMAIN mem' = DOMAIN mem, mem'.kind = mem.kind, mem'.s = mem.s,
         chan' = chan \/ chan' = <<>>, pc'["bench"] \notin {"main", "cut"}
  PROVE  MemoryState'
<1>1. "bench" \in DOMAIN pc' /\ {"kind", "s"} \subseteq DOMAIN mem' BY DEF MemoryState
<1>2. mem'.kind = "stride" =>
       /\ program' = "lat_mem_rd" /\ pc'["bench"] # "cut"
       /\ {"len", "line"} \subseteq DOMAIN mem'.s
       /\ mem'.s.len \in Nat \ {0} /\ mem'.s.line \in {1, 2}
       /\ chan' = <<>> \/ chan' = stride_initialize(mem'.s).chain
  BY DEF MemoryState
<1> QED BY <1>1, <1>2 DEF MemoryState

LEMMA ReaderMainStep == MemoryState /\ LatMemRdMain => MemoryState'
<1> SUFFICES ASSUME MemoryState, LatMemRdMain PROVE MemoryState' OBVIOUS
<1>1. PICK kind \in {"stride", "thrash"}, len \in Lengths, line \in {1, 2} :
        /\ len >= line
        /\ Call("lat_mem_rd",
                [Blank EXCEPT !.kind = kind, !.s = Array(len, MaxPages * PageSize, line)])
  BY DEF LatMemRdMain
<1> DEFINE m == [Blank EXCEPT !.kind = kind, !.s = Array(len, MaxPages * PageSize, line)]
<1>2. /\ program = "lat_mem_rd" /\ program' = program /\ pc["bench"] = "main" /\ chan' = chan
      /\ \/ pc' = [pc EXCEPT !["bench"] = "usage"] /\ mem' = mem
         \/ pc' = [pc EXCEPT !["bench"] = "init"] /\ mem' \in {m, [m EXCEPT !.first = FALSE]}
  BY <1>1 DEF Call, At
<1>3. chan = <<>> /\ "bench" \in DOMAIN pc BY <1>2 DEF MemoryState
<1>4. CASE pc' = [pc EXCEPT !["bench"] = "usage"] /\ mem' = mem
  <2>1. DOMAIN pc' = DOMAIN pc /\ pc'["bench"] = "usage" BY <1>3, <1>4
  <2> QED BY <1>2, <1>4, <2>1, SameChain
<1>5. CASE pc' = [pc EXCEPT !["bench"] = "init"] /\ mem' \in {m, [m EXCEPT !.first = FALSE]}
  <2>1. DOMAIN pc' = DOMAIN pc /\ pc'["bench"] = "init" BY <1>3, <1>5
  <2>2. /\ DOMAIN m = DOMAIN Blank /\ {"kind", "s"} \subseteq DOMAIN m
        /\ m.s = Array(len, MaxPages * PageSize, line)
    BY BlankFields
  <2> HIDE DEF m
  <2>3. {"kind", "s"} \subseteq DOMAIN mem' /\ mem'.s = Array(len, MaxPages * PageSize, line)
    BY <1>5, <2>2
  <2>4. /\ {"len", "line"} \subseteq DOMAIN mem'.s /\ mem'.s.len = len /\ mem'.s.line = line
    BY <2>3 DEF Array
  <2>5. len \in Nat \ {0} BY DEF Lengths
  <2> QED BY <1>2, <1>3, <2>1, <2>3, <2>4, <2>5 DEF MemoryState
<1> QED BY <1>2, <1>4, <1>5

LEMMA ChainStep == MemoryState /\ ChainInitialize => MemoryState'
<1> SUFFICES ASSUME MemoryState, ChainInitialize PROVE MemoryState' OBVIOUS
<1>1. /\ program' = program /\ pc' = [pc EXCEPT !["bench"] = AfterInitialize]
      /\ "bench" \in DOMAIN pc /\ {"kind", "s"} \subseteq DOMAIN mem
  BY DEF ChainInitialize, MemoryState
<1>2. AfterInitialize \in {"cleanup", "interval"} BY DEF AfterInitialize
<1>3. DOMAIN pc' = DOMAIN pc /\ pc'["bench"] \notin {"main", "cut"} BY <1>1, <1>2
<1>4. CASE mem' = [mem EXCEPT !.faults = @ - 1, !.cookie = Cookie] /\ UNCHANGED chan
  <2>1. DOMAIN mem' = DOMAIN mem /\ mem'.kind = mem.kind /\ mem'.s = mem.s BY <1>1, <1>4
  <2> QED BY <1>1, <1>3, <1>4, <2>1, SameChain
<1>5. CASE \E s \in base_initialize(mem.s) :
             /\ chan' = Made(mem.kind, s).chain
             /\ mem' = [mem EXCEPT !.s = s, !.p = Made(mem.kind, s).p, !.cookie = Cookie]
  <2>1. PICK s \in base_initialize(mem.s) :
             /\ chan' = Made(mem.kind, s).chain
             /\ mem' = [mem EXCEPT !.s = s, !.p = Made(mem.kind, s).p, !.cookie = Cookie]
    BY <1>5
  <2>2. DOMAIN mem' = DOMAIN mem /\ mem'.kind = mem.kind /\ mem'.s = s BY <1>1, <2>1
  <2>3. CASE mem.kind # "stride" BY <1>1, <1>3, <2>2, <2>3, OtherKind
  <2>4. CASE mem.kind = "stride"
    <3>1. chan' = stride_initialize(s).chain BY <2>1, <2>4 DEF Made
    <3>2. PICK f : s = [mem.s EXCEPT !.pages = f] BY DEF base_initialize
    <3>3. {"len", "line"} \subseteq DOMAIN s /\ s.len = mem.s.len /\ s.line = mem.s.line
      BY <2>4, <3>2 DEF MemoryState
    <3> QED BY <1>1, <1>3, <2>2, <2>4, <3>1, <3>3 DEF MemoryState
  <2> QED BY <2>3, <2>4
<1> QED BY <1>4, <1>5 DEF ChainInitialize

LEMMA ReaderStep ==
  MemoryState /\ (BenchmarkLoads \/ MemCleanup \/ Interval \/ Sigterm) => MemoryState'
<1> SUFFICES ASSUME MemoryState, BenchmarkLoads \/ MemCleanup \/ Interval \/ Sigterm
             PROVE  MemoryState'
  OBVIOUS
<1>1. "bench" \in DOMAIN pc /\ {"kind", "s"} \subseteq DOMAIN mem BY DEF MemoryState
<1>2. DOMAIN BenchEnds(pc) = DOMAIN pc /\ BenchEnds(pc)["bench"] = "ended" BY <1>1 DEF BenchEnds
<1>3. CASE BenchmarkLoads
  <2>1. program' = program /\ chan' = chan /\ pc["bench"] = "run" BY <1>3 DEF BenchmarkLoads
  <2>2. mem' = mem \/ \E p : mem' = [mem EXCEPT !.left = 0, !.p = p] BY <1>3 DEF BenchmarkLoads
  <2>3. DOMAIN mem' = DOMAIN mem /\ mem'.kind = mem.kind /\ mem'.s = mem.s BY <1>1, <2>2
  <2>4. pc' = pc \/ pc' = BenchEnds(pc) \/ pc' = [pc EXCEPT !["bench"] = "interval"]
    BY <1>3 DEF BenchmarkLoads
  <2>5. DOMAIN pc' = DOMAIN pc /\ pc'["bench"] \notin {"main", "cut"} BY <1>1, <1>2, <2>1, <2>4
  <2> QED BY <2>1, <2>3, <2>5, SameChain
<1>4. CASE MemCleanup BY <1>2, <1>4, SameChain DEF MemCleanup
<1>5. CASE Interval
  <2>1. program' = program /\ chan' = chan BY <1>5 DEF Interval
  <2>2. \/ \E n, g : mem' = [mem EXCEPT !.left = n, !.rounds = @ + 1, !.sigchld = g]
        \/ \E g : mem' = [mem EXCEPT !.sigchld = g]
    BY <1>5 DEF Interval
  <2>3. DOMAIN mem' = DOMAIN mem /\ mem'.kind = mem.kind /\ mem'.s = mem.s BY <1>1, <2>2
  <2>4. pc' = [pc EXCEPT !["bench"] = "run"] \/ pc' = [pc EXCEPT !["bench"] = "cleanup"]
    BY <1>5 DEF Interval
  <2>5. DOMAIN pc' = DOMAIN pc /\ pc'["bench"] \notin {"main", "cut"} BY <1>1, <2>4
  <2> QED BY <2>1, <2>3, <2>5, SameChain
<1>6. CASE Sigterm
  <2>1. program' = program /\ chan' = chan BY <1>6 DEF Sigterm
  <2>2. CASE pc["bench"] \in Initializing
    <3>1. mem' = [mem EXCEPT !.flag = TRUE, !.faults = @ - 1] /\ pc' = pc
      BY <1>6, <2>2 DEF Sigterm
    <3>2. DOMAIN mem' = DOMAIN mem /\ mem'.kind = mem.kind /\ mem'.s = mem.s BY <1>1, <3>1
    <3>3. pc["bench"] \notin {"main", "cut"} BY <2>2 DEF Initializing
    <3> QED BY <2>1, <3>1, <3>2, <3>3, SameChain
  <2>3. CASE pc["bench"] \notin Initializing
    <3>1. /\ mem' = [mem EXCEPT !.cookie = "other", !.sigchld = "default", !.faults = @ - 1]
          /\ pc' = [pc EXCEPT !["bench"] = "cleanup"]
      BY <1>6, <2>3 DEF Sigterm
    <3>2. DOMAIN mem' = DOMAIN mem /\ mem'.kind = mem.kind /\ mem'.s = mem.s BY <1>1, <3>1
    <3>3. DOMAIN pc' = DOMAIN pc /\ pc'["bench"] = "cleanup" BY <1>1, <3>1
    <3> QED BY <2>1, <3>2, <3>3, SameChain
  <2> QED BY <2>2, <2>3
<1> QED BY <1>3, <1>4, <1>5, <1>6

LEMMA DramPageStep == MemoryState /\ LatDramPageMain => MemoryState'
<1> SUFFICES ASSUME MemoryState, LatDramPageMain PROVE MemoryState' OBVIOUS
<1>1. "bench" \in DOMAIN pc /\ {"kind", "s"} \subseteq DOMAIN mem BY DEF MemoryState
<1>2. CASE \E len \in Lengths, line \in {1, 2} :
             Call("lat_dram_page", [Blank EXCEPT !.kind = "hit", !.s = Array(len, len, line)])
  <2>1. PICK len \in Lengths, line \in {1, 2} :
             Call("lat_dram_page", [Blank EXCEPT !.kind = "hit", !.s = Array(len, len, line)])
    BY <1>2
  <2> DEFINE m == [Blank EXCEPT !.kind = "hit", !.s = Array(len, len, line)]
  <2>2. DOMAIN m = DOMAIN Blank /\ {"kind", "s"} \subseteq DOMAIN m /\ m.kind = "hit"
    BY BlankFields
  <2>3. /\ program = "lat_dram_page" /\ program' = program /\ chan' = chan
        /\ \/ pc' = [pc EXCEPT !["bench"] = "usage"] /\ mem' = mem
           \/ pc' = [pc EXCEPT !["bench"] = "init"] /\ mem' \in {m, [m EXCEPT !.first = FALSE]}
    BY <2>1 DEF Call, At
  <2> HIDE DEF m
  <2>4. mem.kind # "stride" BY <2>3 DEF MemoryState
  <2>5. {"kind", "s"} \subseteq DOMAIN mem' /\ mem'.kind # "stride" BY <1>1, <2>2, <2>3, <2>4
  <2>6. DOMAIN pc' = DOMAIN pc /\ pc'["bench"] \in {"usage", "init"} BY <1>1, <2>3
  <2> QED BY <2>3, <2>5, <2>6, OtherKind
<1>3. CASE /\ pc' = [pc EXCEPT !["bench"] = "init"] /\ program' = program
           /\ mem' = [Blank EXCEPT !.kind = "miss", !.faults = mem.faults, !.first = FALSE,
                        !.s = Array(mem.s.len, mem.s.len, mem.s.line)]
  <2>1. {"kind", "s"} \subseteq DOMAIN mem' /\ mem'.kind = "miss" BY <1>3, BlankFields
  <2>2. DOMAIN pc' = DOMAIN pc /\ pc'["bench"] = "init" BY <1>1, <1>3
  <2> QED BY <1>3, <2>1, <2>2, OtherKind
<1> QED BY <1>2, <1>3 DEF LatDramPageMain

(* tlb, line and par_mem never make a chain of this kind.                       *)
LEMMA SearchStep ==
  MemoryState /\ (ComputeTimes \/ FindTlb \/ LineFind \/ LineTest \/ ParMem) => MemoryState'
<1> SUFFICES ASSUME MemoryState, ComputeTimes \/ FindTlb \/ LineFind \/ LineTest \/ ParMem
             PROVE  MemoryState'
  OBVIOUS
<1>1. "bench" \in DOMAIN pc /\ {"kind", "s"} \subseteq DOMAIN mem BY DEF MemoryState
<1>2. program \in {"tlb", "line", "par_mem"} /\ program' = program
  BY DEF ComputeTimes, FindTlb, LineFind, LineTest, ParMem
<1>3. mem.kind # "stride" BY <1>2 DEF MemoryState
<1>4. \A label : To(label) => DOMAIN pc' = DOMAIN pc /\ pc'["bench"] = label BY <1>1 DEF To
<1>5. CASE ComputeTimes
  <2>1. \E s, kind : kind \in {"tlb", "hit"} /\ mem' = [mem EXCEPT !.s = s, !.kind = kind]
    BY <1>5 DEF ComputeTimes
  <2>2. {"kind", "s"} \subseteq DOMAIN mem' /\ mem'.kind # "stride" BY <1>1, <2>1
  <2>3. To("cache") \/ To("judge") BY <1>5 DEF ComputeTimes
  <2>4. DOMAIN pc' = DOMAIN pc /\ pc'["bench"] # "main" BY <1>4, <2>3
  <2> QED BY <1>2, <2>2, <2>4, OtherKind
<1>6. CASE FindTlb
  <2>1. chan' = <<>> BY <1>6 DEF FindTlb
  <2>2. \/ mem' = mem
        \/ \E a, b, p : mem' = [mem EXCEPT !.lower = a, !.upper = b, !.p = p]
        \/ \E a, p : mem' = [mem EXCEPT !.lower = a, !.p = p]
        \/ \E b, p : mem' = [mem EXCEPT !.upper = b, !.p = p]
        \/ \E p : mem' = [mem EXCEPT !.p = p]
    BY <1>6 DEF FindTlb
  <2>3. {"kind", "s"} \subseteq DOMAIN mem' /\ mem'.kind # "stride" BY <1>1, <1>3, <2>2
  <2>4. \E label : To(label) BY <1>6 DEF FindTlb
  <2>5. DOMAIN pc' = DOMAIN pc BY <1>4, <2>4
  <2> QED BY <1>2, <2>1, <2>3, <2>5, OtherKind
<1>7. CASE LineFind
  <2>1. \/ \E s : mem' = [mem EXCEPT !.s = s]
        \/ \E s : mem' = [mem EXCEPT !.s = s, !.kind = "line", !.p = 1]
        \/ \E s : mem' = [mem EXCEPT !.faults = @ - 1, !.s = s]
        \/ mem' = mem
    BY <1>7 DEF LineFind
  <2>2. {"kind", "s"} \subseteq DOMAIN mem' /\ mem'.kind # "stride" BY <1>1, <1>3, <2>1
  <2>3. To("init") \/ To("test") \/ To("ended") \/ (pc' = pc /\ pc["bench"] = "init")
    BY <1>7 DEF LineFind
  <2>4. DOMAIN pc' = DOMAIN pc /\ pc'["bench"] # "main" BY <1>4, <2>3
  <2> QED BY <1>2, <2>2, <2>4, OtherKind
<1>8. CASE LineTest
  <2>1. mem' = mem \/ \E p : mem' = [mem EXCEPT !.p = p] BY <1>8 DEF LineTest
  <2>2. {"kind", "s"} \subseteq DOMAIN mem' /\ mem'.kind # "stride" BY <1>1, <1>3, <2>1
  <2>3. To("cut") \/ To("test") BY <1>8 DEF LineTest
  <2>4. DOMAIN pc' = DOMAIN pc /\ pc'["bench"] # "main" BY <1>4, <2>3
  <2> QED BY <1>2, <2>2, <2>4, OtherKind
<1>9. CASE ParMem
  <2>1. \/ \E s : mem' = [mem EXCEPT !.s = s, !.kind = "hit", !.p = 1]
        \/ mem' = [mem EXCEPT !.p = @ + 1] \/ mem' = mem
    BY <1>9 DEF ParMem
  <2>2. {"kind", "s"} \subseteq DOMAIN mem' /\ mem'.kind # "stride" BY <1>1, <1>3, <2>1
  <2>3. To("chase") \/ To("ended") \/ (pc' = pc /\ pc["bench"] = "chase") BY <1>9 DEF ParMem
  <2>4. DOMAIN pc' = DOMAIN pc /\ pc'["bench"] # "main" BY <1>4, <2>3
  <2> QED BY <1>2, <2>2, <2>4, OtherKind
<1> QED BY <1>5, <1>6, <1>7, <1>8, <1>9

LEMMA MemoryStep == MemoryState /\ MemoryNext => MemoryState'
BY ReaderMainStep, ChainStep, ReaderStep, DramPageStep, SearchStep DEF MemoryNext, MemoryBench

(* A chain that stride_initialize() made is complete.                          *)
StrideComplete == mem.kind = "stride" => ChainsComplete

LEMMA StrideRight == MemoryInv => (program \in MemoryNames => StrideComplete)
<1> SUFFICES ASSUME MemoryState, mem.kind = "stride", chan # <<>> PROVE ChainsComplete
  BY DEF MemoryInv, StrideComplete, ChainsComplete
<1>1. /\ program = "lat_mem_rd" /\ pc["bench"] # "cut"
      /\ mem.s.len \in Nat \ {0} /\ mem.s.line \in Nat \ {0}
      /\ chan = stride_initialize(mem.s).chain
  BY DEF MemoryState
<1>2. /\ Lap(chan, 0) /\ Tour(chan, 0) = {a \in 0..(mem.s.len - 1) : a % mem.s.line = 0}
      /\ Cardinality(Tour(chan, 0)) <= Loads(mem.s)
  BY <1>1, StrideLap
<1>3. Visits("stride", mem.s, Tour(chan, 0)) BY <1>2 DEF Visits
<1>4. ChainHead(mem.kind, mem.s) = 0 BY DEF ChainHead
<1> QED BY <1>1, <1>2, <1>3, <1>4 DEF ChainsComplete

-----------------------------------------------------------------------------
(* The suite.                                                                 *)
RingPart == program = "lat_ctx" => RingInv
SuiteInv == EchoInv /\ UnixInv /\ FcntlInv /\ RingPart /\ UdpInv /\ ForkingInv /\ HttpInv
            /\ LmddInv /\ MemoryInv

(* Whose a step is.                                                           *)
LEMMA StepOwner ==
  /\ EchoNext => program \in EchoNames
  /\ TransferNext => program \in TransferNames
  /\ RingNext => program = "lat_ctx"
  /\ ForkNext => program \in ForkNames
  /\ ForkingNext => program \in ForkingNames
  /\ SequentialNext => program \in SequentialNames
  /\ DatagramNext => program \in DatagramNames
  /\ MemoryNext => program \in MemoryNames
  /\ LockNext => program \in LockNames
  /\ LmddNext => program = "lmdd"
BY DEF EchoNext, TransferNext, RingNext, ForkNext, ForkingNext, SequentialNext, DatagramNext,
       MemoryNext, LockNext, LmddNext

LEMMA StepsOfOne ==
  ASSUME [Next]_childvars
  PROVE  /\ program \in EchoNames => [EchoNext]_childvars
         /\ program = "bw_unix" => [TransferNext]_childvars
         /\ program = "lat_ctx" => [RingNext]_childvars
         /\ program \in ForkingNames => [ForkingNext]_childvars
         /\ program = "lat_http" => [SequentialNext]_childvars
         /\ program = "lat_udp" => [DatagramNext]_childvars
         /\ program = "lat_fcntl" => [LockNext]_childvars
         /\ program = "lmdd" => [LmddNext]_childvars
         /\ program \in MemoryNames => [MemoryNext]_childvars
BY StepOwner
   DEF Next, EchoNames, TransferNames, ForkNames, ForkingNames, SequentialNames, DatagramNames,
       MemoryNames, LockNames

LEMMA StartOwner ==
  /\ EchoInit => program \in EchoNames
  /\ TransferInit => program \in TransferNames
  /\ RingInit => program = "lat_ctx"
  /\ ForkInit => program \in ForkNames
  /\ ForkingInit => program \in ForkingNames
  /\ SequentialInit => program \in SequentialNames
  /\ DatagramInit => program \in DatagramNames
  /\ MemoryInit => program \in MemoryNames
  /\ LockInit => program \in LockNames
  /\ LmddInit => program = "lmdd"
<1>1. EchoInit => program \in EchoNames BY DEF EchoInit
<1>2. TransferInit => program \in TransferNames BY DEF TransferInit
<1>3. RingInit => program = "lat_ctx" BY DEF RingInit
<1>4. ForkInit => program \in ForkNames BY DEF ForkInit
<1>5. ForkingInit => program \in ForkingNames BY DEF ForkingInit, SocketInit
<1>6. SequentialInit => program \in SequentialNames BY DEF SequentialInit, SocketInit
<1>7. DatagramInit => program \in DatagramNames BY DEF DatagramInit
<1>8. MemoryInit => program \in MemoryNames BY DEF MemoryInit
<1>9. (LockInit => program \in LockNames) /\ (LmddInit => program = "lmdd")
  BY DEF LockInit, LmddInit
<1> QED BY <1>1, <1>2, <1>3, <1>4, <1>5, <1>6, <1>7, <1>8, <1>9

LEMMA SuiteStart == Init => SuiteInv
<1> SUFFICES ASSUME Init PROVE SuiteInv OBVIOUS
<1>1. /\ program \in EchoNames => EchoInit
      /\ program = "bw_unix" => TransferInit
      /\ program = "lat_ctx" => RingInit
      /\ program \in ForkingNames => ForkingInit
      /\ program = "lat_http" => SequentialInit
      /\ program = "lat_udp" => DatagramInit
      /\ program = "lat_fcntl" => LockInit
      /\ program = "lmdd" => LmddInit
      /\ program \in MemoryNames => MemoryInit
  BY StartOwner
     DEF Init, EchoNames, TransferNames, ForkNames, ForkingNames, SequentialNames, DatagramNames,
         MemoryNames, LockNames
<1>2. EchoInv BY <1>1, EchoStart DEF EchoInv
<1>3. UnixInv BY <1>1, UnixStart DEF UnixInv
<1>4. FcntlInv BY <1>1, FcntlStart DEF FcntlInv
<1>5. RingPart BY <1>1, InitInv DEF RingPart
<1>6. UdpInv BY <1>1, UdpInit DEF UdpInv
<1>7. ForkingInv BY <1>1, ForkingStart DEF ForkingInv
<1>8. HttpInv BY <1>1, HttpStart DEF HttpInv
<1>9. LmddInv BY <1>1, LmddStart DEF LmddInv
<1>10. MemoryInv BY <1>1, MemoryStart DEF MemoryInv
<1> QED BY <1>2, <1>3, <1>4, <1>5, <1>6, <1>7, <1>8, <1>9, <1>10 DEF SuiteInv

LEMMA SuiteStep == SuiteInv /\ [Next]_childvars => SuiteInv'
<1> SUFFICES ASSUME SuiteInv, [Next]_childvars PROVE SuiteInv' OBVIOUS
<1>0. program' = program BY NextOwn
<1>1. EchoInv'
  <2>1. CASE program \notin EchoNames BY <1>0, <2>1 DEF EchoInv
  <2>2. CASE program \in EchoNames /\ EchoNext BY <1>0, <2>2, EchoStep DEF SuiteInv, EchoInv
  <2>3. CASE UNCHANGED childvars
    BY <2>3 DEF childvars, SuiteInv, EchoInv, EchoState, EchoShape, EchoFlight, SemUnit
  <2> QED BY <2>1, <2>2, <2>3, StepsOfOne
<1>2. UnixInv'
  <2>1. CASE program # "bw_unix" BY <1>0, <2>1 DEF UnixInv
  <2>2. CASE program = "bw_unix" /\ TransferNext BY <1>0, <2>2, UnixStep DEF SuiteInv, UnixInv
  <2>3. CASE UNCHANGED childvars
    BY <2>3 DEF childvars, SuiteInv, UnixInv, UnixState, UnixShape, UnixFlow, Whole, Nothing, Reading
  <2> QED BY <2>1, <2>2, <2>3, StepsOfOne
<1>3. FcntlInv'
  <2>1. CASE program # "lat_fcntl" BY <1>0, <2>1 DEF FcntlInv
  <2>2. CASE program = "lat_fcntl" /\ LockNext BY <1>0, <2>2, FcntlStep DEF SuiteInv, FcntlInv
  <2>3. CASE UNCHANGED childvars
    BY <2>3 DEF childvars, SuiteInv, FcntlInv, FcntlState, FcntlShape, FcntlTurn, Mine
  <2> QED BY <2>1, <2>2, <2>3, StepsOfOne
<1>4. RingPart'
  <2>1. CASE program # "lat_ctx" BY <1>0, <2>1 DEF RingPart
  <2>2. CASE program = "lat_ctx" BY <2>2, StepsOfOne, RingStep DEF SuiteInv, RingPart
  <2> QED BY <2>1, <2>2
<1>5. UdpInv'
  <2>1. CASE program # "lat_udp" BY <1>0, <2>1 DEF UdpInv
  <2>2. CASE program = "lat_udp" BY <2>2, StepsOfOne, UdpStep DEF SuiteInv
  <2> QED BY <2>1, <2>2
<1>6. ForkingInv'
  <2>1. CASE program \notin ForkingNames BY <1>0, <2>1 DEF ForkingInv
  <2>2. CASE program \in ForkingNames BY <2>2, StepsOfOne, ForkingStep DEF SuiteInv
  <2> QED BY <2>1, <2>2
<1>7. HttpInv'
  <2>1. CASE program # "lat_http" BY <1>0, <2>1 DEF HttpInv
  <2>2. CASE program = "lat_http" BY <2>2, StepsOfOne, HttpStep DEF SuiteInv
  <2> QED BY <2>1, <2>2
<1>8. LmddInv'
  <2>1. CASE program # "lmdd" BY <1>0, <2>1 DEF LmddInv
  <2>2. CASE program = "lmdd" /\ LmddNext BY <1>0, <2>2, LmddStep DEF SuiteInv, LmddInv
  <2>3. CASE UNCHANGED childvars
    <3>1. program' = program /\ pc' = pc /\ mem' = mem /\ chan' = chan BY <2>3 DEF childvars
    <3>2. LmddShape => LmddShape' BY <3>1 DEF LmddShape
    <3>3. (Kinds => Kinds') /\ (AtFirst => AtFirst') /\ (AtRandom => AtRandom')
      BY <3>1 DEF Kinds, AtFirst, AtRandom
    <3>4. First' = First /\ Behind' = Behind /\ (Faultless' <=> Faultless)
      BY <3>1 DEF First, Behind, Faultless
    <3>5. (InOrder => InOrder') /\ (Placed => Placed') BY <3>1, <3>4 DEF InOrder, Following, Placed
    <3>6. Counted => Counted' BY <3>1, <3>4 DEF Counted, Synced
    <3>7. Remembers => Remembers'
      <4>1. Log' = Log /\ Extra' = Extra BY <3>1 DEF Log, Extra
      <4>2. Draws' = Draws BY <3>1, <4>1 DEF Draws
      <4>3. (Apart => Apart') /\ (NewDraw => NewDraw') BY <3>1, <4>1 DEF Apart, NewDraw, OneList
      <4>4. (Room => Room') /\ (Numbered => Numbered') BY <3>1, <4>1, <4>2 DEF Room, Numbered
      <4>5. Listed => Listed' BY <3>1, <4>1, <4>2 DEF Listed, Drew, OneList
      <4> QED BY <3>1, <4>3, <4>4, <4>5 DEF Remembers, Drawn
    <3> QED BY <3>1, <3>2, <3>3, <3>5, <3>6, <3>7 DEF SuiteInv, LmddInv, LmddState
  <2> QED BY <2>1, <2>2, <2>3, StepsOfOne
<1>9. MemoryInv'
  <2>1. CASE program \notin MemoryNames BY <1>0, <2>1 DEF MemoryInv
  <2>2. CASE program \in MemoryNames /\ MemoryNext BY <1>0, <2>2, MemoryStep DEF SuiteInv, MemoryInv
  <2>3. CASE UNCHANGED childvars BY <2>3 DEF childvars, SuiteInv, MemoryInv, MemoryState
  <2> QED BY <2>1, <2>2, <2>3, StepsOfOne
<1> QED BY <1>1, <1>2, <1>3, <1>4, <1>5, <1>6, <1>7, <1>8, <1>9 DEF SuiteInv

(* Whichever program of the suite runs: what its proof needs of it holds      *)
(* throughout.                                                                *)
THEOREM SuiteInvariant == Spec => []SuiteInv
<1> QED BY SuiteStart, SuiteStep, PTL DEF Spec

(* An interval of lat_pipe, lat_fifo, lat_unix, lat_sem, bw_unix and          *)
(* lat_fcntl leaves nothing to the next one: no message, no unit of a         *)
(* semaphore too many, no byte of a transfer, and the locks as the first      *)
(* interval found them, whatever dies and whenever SIGTERM comes.             *)
THEOREM SuiteIntervals == Spec => []IntervalsSeparate
<1>1. SuiteInv => IntervalsSeparate
  <2> SUFFICES ASSUME SuiteInv PROVE IntervalsSeparate OBVIOUS
  <2>1. WholeRoundTrips BY EchoSeparate DEF SuiteInv
  <2>2. TransfersSeparate BY UnixSeparate DEF SuiteInv
  <2>3. program = "lat_fcntl" /\ pc["bench"] = "interval" =>
          /\ chan.owner[2] = "bench"
          /\ mem.rounds = 0 <=> chan.owner[1] = "bench"
    BY DEF SuiteInv, FcntlInv, FcntlState, FcntlShape, FcntlTurn, Mine
  <2> QED BY <2>1, <2>2, <2>3 DEF IntervalsSeparate
<1> QED BY <1>1, SuiteInvariant, PTL

(* lat_ctx: one token goes round the ring, in the suite as in the program.    *)
THEOREM SuiteOneToken == Spec => []OneToken
<1>1. SuiteInv => OneToken
  <2>1. CASE program = "lat_ctx" BY <2>1, RingTokens DEF SuiteInv, RingPart
  <2>2. CASE program # "lat_ctx" BY <2>2 DEF OneToken
  <2> QED BY <2>1, <2>2
<1> QED BY <1>1, SuiteInvariant, PTL

(* No wait() of the forking servers' handler of SIGCHLD blocks them, and only   *)
(* the alarm, a -S run that connected or, with lat_tcp, a client killed         *)
(* between connect() and the write of its size ends the server.                *)
THEOREM SuiteServers == Spec => [](WaitNeverBlocks /\ ServerSurvives)
<1>1. ForkingInv => WaitNeverBlocks BY DEF ForkingInv, ForkState, WaitNeverBlocks
<1>2. ForkingInv => ServerSurvives
  BY DEF ForkingInv, ForkState, Survives, ServerSurvives, Stands
<1>3. SuiteInv => WaitNeverBlocks /\ ServerSurvives BY <1>1, <1>2 DEF SuiteInv
<1> QED BY <1>3, SuiteInvariant, PTL

(* lat_http gets the whole file or nothing, whichever clients are killed.      *)
THEOREM SuiteHttp == Spec => []HttpWhole
<1>1. HttpInv => HttpWhole
  BY DEF HttpInv, HttpState, HttpGood, Parts, Part, HttpWhole, Stands
<1>2. SuiteInv => HttpWhole BY <1>1 DEF SuiteInv
<1> QED BY <1>2, SuiteInvariant, PTL

(* lat_udp's client takes the answer to what it sent last.                    *)
THEOREM SuiteUdp == Spec => []UdpReplies
<1>1. UdpInv => UdpReplies BY DEF UdpInv, UdpFlight, UdpReplies, Stands
<1>2. SuiteInv => UdpReplies BY <1>1 DEF SuiteInv
<1> QED BY <1>2, SuiteInvariant, PTL

(* lmdd, for files of every size and wherever a signal or a failing write or    *)
(* fork strikes: a copy in order, and one at random without fork=, has every     *)
(* block where it belongs, and a run without a fault reports once, after it      *)
(* wrote and synced what it counted.  For the blocks of fork= with rand= this     *)
(* is false (RandomInPlace), and the theorem does not speak of them.              *)
THEOREM SuiteCopies == Spec => []CopiesInPlace
<1>1. SuiteInv => CopiesInPlace BY LmddPlaced DEF SuiteInv
<1> QED BY <1>1, SuiteInvariant, PTL

(* lmdd with norepeat=, with any count= or none, any size of the list, with       *)
(* fork= and padin= too: no offset is drawn again while the list lasts.  The       *)
(* first draw is in no list and may come again (NeverTwice).                       *)
THEOREM SuiteDraws == Spec => []DrawsRemembered
<1>1. SuiteInv => DrawsRemembered BY LmddDistinct DEF SuiteInv
<1> QED BY <1>1, SuiteInvariant, PTL

(* lat_mem_rd: for every length and stride, the chain of stride_initialize()   *)
(* is one lap through the multiples of the stride, and an iteration of         *)
(* benchmark_loads() is at least that lap (lib_mem.c:182-200, lat_mem_rd.c:95-110).   *)
THEOREM SuiteStride == Spec => [](program \in MemoryNames => StrideComplete)
<1>1. SuiteInv => (program \in MemoryNames => StrideComplete) BY StrideRight DEF SuiteInv
<1> QED BY <1>1, SuiteInvariant, PTL
=============================================================================
