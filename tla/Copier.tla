-------------------------------- MODULE Copier --------------------------------
(***************************************************************************)
(* lmdd: copy the input to the output block by block, in order or at random    *)
(* offsets, the writes in a process of their own when fork= is given.  Places   *)
(* and offsets are counted in blocks; block i of the input holds i.  The        *)
(* positions of the open files are shared by all the processes.                  *)
(***************************************************************************)
EXTENDS BenchChild, FiniteSets, Sequences

CONSTANTS FileBlocks,  \* bound: blocks of the input; count= and rand= go up to it
          Remember     \* bound: the offsets that norepeat= has room for without count= (10 << 10)

ASSUME CopierAssumption == FileBlocks \in Nat /\ FileBlocks >= 3 /\ Remember \in Nat \ {0}

NoCount == FileBlocks + 1   \* count= is not given
Endless == 4                \* bound: the blocks of a run at random that has no count=

(* past[i] is norepeat[i - 1]; norepeats counts from -1, here from 0.                    *)
LmddMemory(fork, seek, norepeat, padin, count) ==
  [fork |-> fork, seek |-> seek, norepeat |-> norepeat, pad |-> padin, padded |-> padin,
   gotcnt |-> count # NoCount, count |-> count, start |-> 0, off |-> 0, buf |-> 0, blocks |-> 0,
   past |-> [i \in 1..(IF count = NoCount THEN Remember ELSE count) |-> 0], norepeats |-> 0, pid |-> "none",
   faults |-> MaxFaults, cookie |-> "own", killed |-> {}]

(* file: what was written, by position; log: the offsets read from; toWrite: the      *)
(* block the child has; synced: the positions fsync() found; reports: the lines of       *)
(* timing statistics.                                                                    *)
LmddInit ==
  /\ program = "lmdd"
  /\ pc = [p \in {"bench", "helper"} |-> IF p = "bench" THEN "main" ELSE "none"]
  /\ mem = LmddMemory(FALSE, "none", FALSE, FALSE, 0)
  /\ chan = [in |-> 0, out |-> 0, file |-> <<>>, log |-> <<>>, toWrite |-> 0,
             synced |-> {}, reports |-> 0]

LmddTo(label) == [pc EXCEPT !["bench"] = label]

(* seek: "none", "rand" for rand=, "end" for rand= with end=1.                          *)
LmddMain ==
  /\ At("lmdd", "bench", "main") /\ UNCHANGED <<program, chan>>
  /\ \/ pc' = LmddTo("usage") /\ UNCHANGED mem
     \/ /\ pc' = LmddTo("loop")
        /\ \E fork, padin \in BOOLEAN, count \in (1..FileBlocks) \cup {NoCount} :
             \/ mem' = LmddMemory(fork, "none", FALSE, padin, count)
             \/ \E seek \in {"rand", "end"}, norepeat \in BOOLEAN :
                  mem' = LmddMemory(fork, seek, norepeat, padin, count)

(* been_there(): norepeat[norepeats] has not been stored yet and holds a 0.              *)
been_thereLate(off) == \E i \in 2..mem.norepeats : mem.past[i] = off   \* MUTANT
been_there(off) == \E i \in 1..mem.norepeats : mem.past[i] = off

(* norepeat[norepeats++] = off: the first store goes to norepeat[-1].                     *)
Remembered(m, off) ==
  LET next == m.norepeats + 1 IN
  IF ~m.norepeat THEN m
  ELSE [m EXCEPT !.past = IF m.norepeats = 0 THEN @ ELSE [m.past EXCEPT ![m.norepeats] = off],
                 !.norepeats = IF ~m.gotcnt /\ next = Remember + 1 THEN 1 ELSE next]

(* drand48() times the size, rounded up to a block.  With end= the draws alternate         *)
(* between the two ends of rand, the far one first, and may go one block beyond it.         *)
RandomOffsets == 0..(FileBlocks - 2)
NextStart == IF mem.start # 0 THEN 0 ELSE FileBlocks - 1
EndOffsets == {NextStart + i : i \in 0..1}

(* MUTANT: only the input is moved.                                                         *)
SeekInput(off) == [chan EXCEPT !.in = off]
Seek(off) == [chan EXCEPT !.in = off, !.out = off]

(* The top of the loop: count-- on an unsigned count, then the seek of both files, done     *)
(* before the last child was waited for.                                                     *)
LmddSeek ==
  /\ At("lmdd", "bench", "loop") /\ UNCHANGED program
  /\ IF mem.gotcnt /\ mem.count = 0 THEN pc' = LmddTo("done") /\ UNCHANGED <<mem, chan>>
     ELSE LET m == [mem EXCEPT !.count = IF mem.gotcnt THEN @ - 1 ELSE @] IN
          /\ pc' = LmddTo("read")
          /\ mem.seek # "none" /\ ~mem.gotcnt => mem.blocks < Endless
          /\ \/ mem.seek = "none" /\ mem' = m /\ UNCHANGED chan
             \/ \E off \in CASE mem.seek = "rand" -> RandomOffsets
                             [] mem.seek = "end" -> EndOffsets
                             [] OTHER -> {} :
                  /\ mem.norepeat => ~been_there(off)
                  /\ mem' = Remembered([m EXCEPT !.off = off,
                              !.start = IF mem.seek = "end" THEN NextStart ELSE @], off)
                  /\ chan' = Seek(off)

(* The block read for padin= is thrown away: the count goes back, the offset of the          *)
(* pattern stays.                                                                              *)
LmddRead ==
  /\ At("lmdd", "bench", "read") /\ UNCHANGED program
  /\ IF chan.in >= FileBlocks /\ ~mem.pad
     THEN pc' = LmddTo("done") /\ UNCHANGED <<mem, chan>>
     ELSE /\ chan' = [chan EXCEPT !.in = IF @ >= FileBlocks THEN @ ELSE @ + 1,
                                  !.log = IF mem.norepeat THEN Append(@, mem.off) ELSE @]
          /\ IF mem.pad
             THEN /\ mem' = [mem EXCEPT !.pad = FALSE, !.count = IF mem.gotcnt THEN @ + 1 ELSE @]
                  /\ pc' = LmddTo("loop")
             ELSE mem' = [mem EXCEPT !.buf = chan.in]
                  /\ pc' = LmddTo(IF mem.fork THEN "fork" ELSE "write")

Moved(m) == [m EXCEPT !.off = @ + 1, !.blocks = @ + 1]
Written(block) ==
  [chan EXCEPT !.file = With([p \in {chan.out} |-> block], @), !.out = @ + 1]

(* A short write ends the program with a report.                                                *)
LmddWrite ==
  /\ At("lmdd", "bench", "write") /\ UNCHANGED program
  /\ \/ chan' = Written(mem.buf) /\ mem' = Moved(mem) /\ pc' = LmddTo("loop")
     \/ /\ mem.faults > 0 /\ mem' = [mem EXCEPT !.faults = @ - 1]
        /\ pc' = LmddTo("done") /\ UNCHANGED chan

(* Wait for the last child and fork the next.  When fork() fails its -1 is taken for the         *)
(* pid of a child: the block counts as moved.                                                     *)
LmddFork ==
  /\ At("lmdd", "bench", "fork") /\ UNCHANGED program
  /\ mem.pid = "helper" => pc["helper"] \in Dead
  /\ \/ /\ chan' = [chan EXCEPT !.toWrite = mem.buf]
        /\ mem' = [Moved(mem) EXCEPT !.pid = "helper"]
        /\ pc' = [LmddTo("loop") EXCEPT !["helper"] = "write"]
     \/ /\ mem.faults > 0
        /\ mem' = [Moved(mem) EXCEPT !.pid = "failed", !.faults = @ - 1]
        /\ pc' = [LmddTo("loop") EXCEPT !["helper"] = "none"] /\ UNCHANGED chan

(* The child writes and exits; after a short write it reports as if it were the parent.           *)
LmddChild ==
  /\ At("lmdd", "helper", "write") /\ UNCHANGED program
  /\ pc' = [pc EXCEPT !["helper"] = IF pc["bench"] = "ended" THEN "gone" ELSE "zombie"]
  /\ \/ chan' = Written(chan.toWrite) /\ UNCHANGED mem
     \/ /\ mem.faults > 0 /\ mem' = [mem EXCEPT !.faults = @ - 1]
        /\ chan' = [chan EXCEPT !.reports = @ + 1]

(* done(): fsync() and the report do not wait for the last child.                                   *)
LmddDone ==
  /\ At("lmdd", "bench", "done") /\ UNCHANGED <<program, mem>>
  /\ chan' = [chan EXCEPT !.synced = DOMAIN chan.file, !.reports = @ + 1]
  /\ pc' = BenchEnds(pc)

(* SIGINT, or the SIGALRM of time=, calls done() wherever the program is.                          *)
LmddSignal ==
  /\ program = "lmdd" /\ pc["bench"] \in {"loop", "read", "write", "fork"}
  /\ mem.faults > 0 /\ mem' = [mem EXCEPT !.faults = @ - 1]
  /\ pc' = LmddTo("done") /\ UNCHANGED <<program, chan>>

LmddBench ==
  \/ LmddMain \/ LmddSeek \/ LmddRead \/ LmddWrite \/ LmddFork \/ LmddDone

LmddNext == program = "lmdd" /\ (LmddBench \/ LmddChild \/ LmddSignal)

(* Every block is written at the place it was read from, after the padded block for the copies   *)
(* in order.  That is not said of a forked child that writes at random (RandomInPlace says it),   *)
(* nor of fork= once a fork or a write has failed, where a block is missing.  In the end what      *)
(* was counted was written, and synced but for the last child's block.                              *)
CopiesInPlace ==
  program = "lmdd" =>
    LET first == IF mem.padded /\ mem.seek = "none" THEN 1 ELSE 0
        faultless == mem.faults = MaxFaults
    IN /\ (mem.seek = "none" \/ ~mem.fork) /\ (mem.fork => faultless) =>
            \A p \in DOMAIN chan.file : chan.file[p] = p + first
       /\ faultless /\ pc["bench"] = "ended" =>
            /\ chan.reports = 1
            /\ pc["helper"] # "write" /\ mem.seek = "none" =>
                 Cardinality(DOMAIN chan.file) = mem.blocks
            /\ mem.seek = "none" => Cardinality(chan.synced) >= mem.blocks - (IF mem.fork THEN 1 ELSE 0)

(* What norepeat= keeps of its word, which is less than the word (NeverTwice): no offset is        *)
(* drawn again while the list that it is in lasts.  The first draw is in no list; with count= one   *)
(* list has all the others, without it a new list begins after every Remember of them.               *)
Draw(i) == chan.log[i]
OneList(i, j) == mem.gotcnt \/ (i - 2) \div Remember = (j - 2) \div Remember
DrawsRemembered ==
  program = "lmdd" /\ mem.norepeat =>
    \A i, j \in DOMAIN chan.log : 1 < i /\ i < j /\ OneList(i, j) => Draw(i) # Draw(j)

(* lmdd.c:145: norepeat= is "don't ever do the same I/O twice".                                       *)
NeverTwice ==
  program = "lmdd" /\ mem.norepeat /\ mem.gotcnt =>
    \A i, j \in DOMAIN chan.log : i < j => Draw(i) # Draw(j)

(* lmdd.8: lmdd "copies a specified input file to a specified output"; with rand= the block that     *)
(* was read at an offset is to stand there in the output.                                             *)
RandomInPlace ==
  program = "lmdd" /\ mem.seek # "none" /\ mem.faults = MaxFaults =>
    \A p \in DOMAIN chan.file : chan.file[p] = p
=============================================================================
