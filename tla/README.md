# A verification of numafac

numafac measures the NUMA factor of a machine: how much slower memory of
another node is than local memory. Two scripts run STREAM and lmbench3's
`lat_mem_rd` for every pair of nodes and turn the outputs into matrices; a C
library and a small program read them back. The numbers come from lmbench3's
measurement harness, `benchmp()`, which forks the processes that measure and
holds them together with pipes and signals. This directory holds TLA+
models of that code, what TLC checks about them, and proofs for TLAPS.

Paths without a directory are in `src/lmbench3/src/`.

## The system

| part | state it keeps | operations | what makes it correct |
|---|---|---|---|
| `benchmp()` in `lib_timing.c` | child pids, four pipes, dispositions and flags of SIGTERM, SIGCHLD, SIGALRM; per child a `benchmp_child_state` | `benchmp`, `benchmp_parent`, `benchmp_child`, `benchmp_interval`, the handlers | children measure only together, reports are never mixed, a time means that every child reported, a call ends and leaves no process behind |
| results in `lib_timing.c`, `lib_stats.c` | a sorted `result_t` per process, the last time and count | `insertsort`, `get_results`, `set_results`, `save_median`, `save_minimum` | the list stays sorted and within its capacity; the median and the minimum are of the samples |
| clock and iterations in `lib_timing.c` | `start_tv`, `stop_tv`, cached overheads, `enough` | `start`, `stop`, `t_overhead`, `l_overhead`, `compute_enough`, `benchmp_interval` | the iteration count converges, the overhead is not measured with itself |
| memory chains in `lib_mem.c` | a `mem_state`: a region linked into a ring of pointers | `stride_`, `thrash_`, `mem_`, `line_`, `tlb_initialize`, `mem_cleanup` | every chain is one cycle through exactly the lines it should touch |
| scheduling in `lib_sched.c` | none | `handle_scheduler`, `sched_pin` | distinct children get distinct processors while there are enough |
| `lat_mem_rd.c` | none | `main`, `loads`, `step` | sizes grow strictly, the last line is the largest size |
| pipeline: `calc_numafactor.sh`, `topology.sh` | files in `output/` and in the build directories, shell variables `tabela_i_j` | the loops over node pairs, the tables, the factors | cell (i, j) of each matrix is the measurement of processor node i and memory node j of this run |
| `src/src/archTopology.c` | `HashCpuNode`, constants generated into `archTopo.h`, files in `/tmp/output` | `na_*` | answers agree with sysfs and with the files |
| `latencies/compute-latencies.c` | cache latencies, node matrix, core matrix | `main`, `coreFactor` | a core pair gets the latency of what it shares |
| exchange and transfer programs: `lat_pipe.c`, `lat_fifo.c`, `lat_unix.c`, `lat_sem.c`, `bw_pipe.c`, `bw_unix.c` | a helper process, two channels | `initialize`, `doit`, `cleanup`, the helper's loop | an interval times whole exchanges; helper and benchmark end together |
| `lat_ctx.c` | a ring of pipes and daemons | `create_daemons`, `benchmark`, `doit`, `cleanup` | one message in the ring |
| `lat_proc.c`, `lat_cmd.c`, `lat_pmake.c`, `lat_sig.c` | the processes forked in an iteration, counters of caught signals | the `do_` and `bench_` routines | each child is waited for, nothing blocks for ever |
| `lat_fcntl.c`, `lat_select.c` | two locks; copies of a descriptor and a server | `procA`, `procB`; `server`, `doit` | no process waits for ever, the server ends |
| servers and clients: `lat_tcp.c`, `bw_tcp.c`, `lat_connect.c`, `lat_unix_connect.c`, `lmhttp.c`, `lat_http.c`, `lat_udp.c`, `bw_udp.c`, `lat_rpc.c`, `lib_tcp.c`, `lib_unix.c`, `lib_udp.c` | listening sockets, connections, handlers, sequence numbers | accept, serve, `-S` | one client cannot end the server for the others; `-S` ends it |
| `lmdd.c` | two file positions, a child, the remembered offsets | the loop, `done` | each block is written where it belongs |
| `topo/topo.c`, `stream/`, the remaining lmbench programs, scripts and documents | | | not part of the computation, or one process that computes |

The parts interact as follows. The scripts call `lat_mem_rd` (through
`numactl`) once per node pair and read its last line of output;
`lat_mem_rd` and `compute-latencies` call `benchmp()` with routines that
build and walk a memory chain; `benchmp()` forks children, and talks to them
with one response pipe (children to parent) and three signal pipes (parent to
children) whose bytes the children race for. `compute-latencies` and the
library read the matrices from `/tmp/output`.

What is hard: the harness. Its children share pipes without any lock, test
them with `select()` and read them later, die at any time, and are killed by
signals whose handlers are inherited, saved and never restored. The scripts
are sequential, but any of their commands may fail or print something else,
and they can be interrupted and started again over the files left behind.
The programs of the suite have processes of their own, which see each other
only through pipes, sockets, locks and signals, and which the harness kills
without knowing them.
The library is sequential, but its queries call each other and leave
streams open, and what it answers depends on the shape of the machine.

## Modules

| module | what it is |
|---|---|
| `Benchmp` | the harness: parent, children, signals, failing system calls |
| `Harness` | the promise of `doc/lmbench3.ms`: three barriers and one reporter |
| `BenchmpSafety` | the safety properties, the inductive invariant, and the mapping that makes `Benchmp` an implementation of `Harness` |
| `MCBenchmp` | liveness, and the instances TLC runs |
| `BenchmpBarrierProof` | proof of the type invariant, and of the barrier invariant and what follows from it |
| `BenchmpGroupProof` | proof that no child is left behind, no measurement given up without a fault, siblings are under load, and the bytes of a signal suffice |
| `BenchmpRefinement` | proof that `Benchmp` implements `Harness` |
| `Results` | the ordered lists of samples: insertion, size, minimum, median |
| `Sweep` | `lat_mem_rd`: a `benchmp()` for every array size, seen as what it does to those lists |
| `SweepSafety`, `MCSweep` | properties of the lists; of the printed lines, and the instances |
| `SweepProof` | proof that lists stay ordered, fit their arrays and hold what was taken, of what is read from them, and of the array sizes |
| `NumaFactor` | `calc_numafactor.sh` from the first pair of nodes to the last matrix |
| `MCNumaFactor` | what may be said of the matrices, and the instances |
| `MatrixReaders` | how the library reads the matrices back |
| `ArchTopology` | the library's queries of nodes, sockets and shared caches |
| `CoreLatency` | `compute-latencies`: a latency for every two cores |
| `MCTopology` | fourteen machines, and what the answers about them must say |
| `TopologyProof` | proof of what the answers and the matrix of the cores say, on any machine |
| `NumaFactorProof` | proof of what may be said of the four matrices |
| `BenchChild` | what a program of the suite sees of `benchmp()` |
| `EchoPrograms` | `lat_pipe`, `lat_fifo`, `lat_unix`, `lat_sem` |
| `TransferPrograms` | `bw_pipe`, `bw_unix` |
| `TokenRing` | `lat_ctx` |
| `ForkPrograms` | `lat_proc`, `lat_cmd`, `lat_pmake`, `lat_sig` |
| `LockPrograms` | `lat_fcntl`, `lat_select` |
| `StreamSockets` | `lib_tcp.c`, `lib_unix.c`: listening, connecting, accepting |
| `ForkingServers` | `lat_tcp`, `bw_tcp` |
| `SequentialServers` | `lat_connect`, `lat_unix_connect`, `lmhttp` and `lat_http` |
| `DatagramServers` | `lat_udp`, `bw_udp`, `lat_rpc` |
| `ServersProof` | proofs about `lat_tcp` and `bw_tcp`, `lat_udp`, and `lmhttp` with `lat_http` |
| `MemoryChains` | the chains of pointers of `lib_mem.c` and `lat_dram_page.c`, as functions |
| `MemoryPrograms` | `lat_mem_rd` and `lat_dram_page` on their chains, `tlb`, `line`, `par_mem` |
| `Copier` | `lmdd` |
| `Suite`, `MCSuite` | all of these, one at a time; fairness, and what holds of several |
| `SuiteProof` | proofs about `lat_ctx`, the exchange programs, `bw_unix`, `lat_fcntl`, `lmdd` and `lat_mem_rd`'s chain; of the suite, from these and those of `ServersProof` |

The groups stand on top of each other as the programs do, each with an
abstraction of the one below. What `Sweep` knows of `benchmp()` is what
`Benchmp` shows: a group's list is published only when every child has
reported once (`TimeIsComplete`), reports do not mix (`SoleReporter`), and a
call may give up at any time, without telling its caller. What `NumaFactor`
knows of `lat_mem_rd` is what `Sweep` shows: it prints lines also when it
fails, and they may be zero or the latency of something else.

### `Benchmp`

The parent's `pc` names the loop of `benchmp()` or `benchmp_parent()` it is in:

| `pc` | code |
|---|---|
| `idle` | in the benchmark program, between calls |
| `prologue` | `lib_timing.c:208-226` |
| `fork`, `forking` | the fork loop, 228-266; the flag test and the `fork()` are two steps |
| `ready`, `start` | 361-404 |
| `done` | 406-437 |
| `askResult`, `result` | 441-484, for each child a byte and a report |
| `exit` | 486-493 |
| `killAll`, `waitAll` | `benchmp_parent:error_exit`, 496-504 |
| `killForked`, `waitForked` | `benchmp:error_exit`, 284-290 |
| `reap` | `benchmp:cleanup_exit`, 305-319 |
| `return` | back in the caller: the program, or the outer `benchmp()` |
| `dead` | the process is gone |

A child's `kid[c]` names where it is: `initialize` (up to line 649),
`interval` (in `benchmp_interval()`), `benchmark`, and the three `read()`s in
which it can block. `st[c]` is its `state->state`, `need[c]` its
`need_warmup`, `n[c]` its `state->i`.

One action is the code between two points where another process can
interfere. In particular `select()` and the `read()` after it are two steps,
so a sibling can take the byte in between.

How the data is abstracted, and why that is sound:

- The response pipe is a bag of messages rather than a queue of bytes. The
  parent never looks at a byte's value, only at how many there are; that no
  two kinds of message are ever in the pipe of a reading parent is an
  invariant (`ResponseInPhase`), and that a report is never mixed with
  another one is `SoleReporter`. A `read()` that returns k bytes is k reads.
- A signal pipe is a number of bytes.
- A time is `zero` or `measured`: the callers of `benchmp()` and `benchmp()`
  itself only ask whether it is zero. A report may consist of rejected samples
  only, so both values are possible.
- Delivery of SIGTERM to a child is part of `kill()`: a signal that is
  delivered later is a `kill()` that was called later.
- A lone child rejects an interval for its length at most `MaxRescale` times.
- The processes that some benchmarks start of their own, and
  `benchmp_child_sigchld()`, which watches them, are not modelled.

`faults`, `faulted`, `calls`, `rescaled` and `ran` are bookkeeping: they bound
the instances or record history for the properties, and no step of the code
depends on them.

### `Results` and `Sweep`

A sample is a time and an iteration count, both numbers: the order of the
list is that of their quotients, compared by cross-multiplication as exact
integers where the code divides doubles. `Slot` is the index where the loop
of `insertsort()` stops. `median` and `minimum` are `save_median()` and
`save_minimum()`, with their integer divisions.

`pc` is `size` at the head of `lat_mem_rd`'s loop (`Skip` passes over an array
that is smaller than the stride), `measure` while children
take samples, `report` while the parent merges, `print` in `loads()` after
`benchmp()` returned. With `Parallel > 1` a baseline with one child comes
first and publishes its own list through the same global `results`. A lone
child adjusts its iteration count between samples, a group does not. `GiveUp`
stands for every way in which `benchmp()` returns without a result.

`taken` and `success` record history for the properties; `line` is the last
line of output.

### `NumaFactor`

`pc` names the part of the script, `row` and `col` are its loop variables
(`j` and `i` of the measuring loops, `i` and `j` of the others). Each file of
`output/` and each working file that outlives a command is a sequence of
lines. A line is a measurement, with the tool, the attempt and the two nodes
it belongs to, or a word that is none. A factor is kept as the pair that `bc`
divides, so that a property can tell where both come from. What `bc` makes of
a word that is not a number is left symbolic.

| step | code |
|---|---|
| `Start` | 9-13, a new shell and an empty `output/` |
| `RunStream`, `CollectStream`, `StreamFactor`, `PublishStream` | 29-38, 48-83, 84-97, 104-105 |
| `RunLatency`, `CollectLatency` | 144-158, 160-175 |
| `LatencyFactor`, `PublishFactor`, `PublishLatency` | 177-194, 200-201, 203-204 |
| `Interrupt` | the script is killed between two commands |

A run fails if the nodes do not exist for `numactl` (a node without
processors, or without memory), or for any other reason at most `MaxFailures`
times; the script tests no exit status and goes on. A failed STREAM leaves no
Triad line, a failed `lat_mem_rd` between none and two that mean something
else. The loops over a table are one step, since nothing else runs; an
interruption within such a step leaves what one before it or after it leaves,
as far as a later start can see.

Bookkeeping: `attempt`, `failed`, `leftover`, `failures`.

### `MatrixReaders` and `ArchTopology`

`MatrixReaders` has the functions that read a matrix. A cell that is blank is
skipped by `fscanf()`, so that word k of a file (`WordAt`) may be a later cell; a
missing word leaves the variable alone. `MCNumaFactor`
applies it to the files `NumaFactor` has published; `topology.sh` copies them
to `/tmp/output`, where the library looks for them.

In `ArchTopology` one process asks queries one after another. `machine` is
what sysfs says, constant during a behaviour and chosen in `Init`; the header
`archTopo.h` is computed from it as `topology.sh` does (41-71, 303-334). A
query is a frame on `stack`, since `na_get_cpusidnode()` and
`na_get_socketsId_node()` call each other. `streams` counts what
`na_get_shared_cacheLevel()` and `na_get_cache_cores()` do not close; `alive`
is false once `popen()` failed and its NULL was read, the stack is exhausted,
or `strtok()` found fewer names than were counted. An entry of an array that
nothing was written to is `Garbage`. A write beyond an array is noticed or not.

| action | code |
|---|---|
| `na_init` | `load_hash()`, 432-437, with `get_nodeidcpu()` |
| `CpusOfNode`, `CpusAskSockets` | `na_get_cpusidnode()`, 577-652 |
| `SocketsAskCpus`, `SocketsOfNode` | `na_get_socketsId_node()`, 328-352 |
| `SiblingsOfCore` | `na_get_cacheShare_cores()`, 657-695 |
| `Ask` | an application calls one of them |

What follows the call in the else branch of `na_get_cpusidnode()` (641-647)
is not modelled: the call does not return.

### `CoreLatency`

The hwloc tree is built from the same `machine` as sysfs: the groups a
processor is in (node, package, the caches that share it) order the leaves and
give the logical numbers. `cores_matrix` follows `main()` and `coreFactor()`
with both numberings, the kernel's for nodes and hwloc's for cores. A value is
the name of the measurement it was taken from, or `NoLatency`.

### The suite

`Suite` is the disjunction of the modules of the programs; `program`, chosen
in `Init`, says which one runs, as `scripts/lmbench` runs one after the other.
They share four variables: `program`, `pc` (where each process stands), `mem`
(the variables of the benchmark, with the signal state it has from
`benchmp_child()`) and `chan` (pipes, sockets, locks, memory or files, with
the fields that the program needs).

`BenchChild` is `benchmp()` as its child sees it:

| action or field | code |
|---|---|
| `Call` | `main()` up to `benchmp()`, or a usage error |
| `AfterInitialize` | `benchmp_child()`, 648-656: a SIGTERM that came during `initialize()` is obeyed now |
| `Interval` | `benchmp_interval()`: another interval, or `cleanup(0)` and `exit` |
| `Sigterm` | `benchmp_sigterm()` or `benchmp_child_sigterm()`, at any moment |
| `ChildEnded`, `Notices` | `benchmp_child_sigchld()`, while it is installed |
| `mem.cookie` | `own`, or `other` where a handler passes `&_benchmp_child_state` to the program's `cleanup()` (557, 571) |
| `mem.first` | whether SIGTERM still has its own handler, see `hang` below |

The servers and their clients (`StreamSockets` and the two modules above it,
`DatagramServers`) have no harness between them: a client connects, iterates
and closes. Two clients run side by side (`-P 2`), and then the `-S` run comes.

How the data is abstracted:

- A message or a byte is a number in a counter. In `DatagramServers` a
  datagram is its sequence number, and what is on its way is a set, so that it
  may be overtaken; `Lose` removes one.
- An iteration count is at most `BatchSize`, an interval's end is any moment:
  the harness decides by the clock.
- An address in `MemoryChains` is a number of words, a chain the function that
  the stores leave in memory. `permutation()` is every permutation.
- A block of `lmdd` is its number in the input. A file position belongs to the
  open file, so that parent and child move the same one.
- What a program does with an uninitialised variable (the byte count of
  `bw_unix`'s helper, 113; a foreign cookie) is a choice between the outcomes.

### Fairness

`Suite` asks that each process of a program runs when it can (`Fairness`), and
nothing of signals, deaths, failing forks or lost datagrams. A time limit is
fair where the code sets an alarm for it and nowhere else.

`Sweep`, `NumaFactor` and `ArchTopology` are about safety only and assume none. In `Benchmp`,
`FairSpec` asks that the parent and each child, whenever they can take a step
without interruption, eventually do: the kernel schedules every runnable
process. `alarm()` does go off (`WF_vars(Alarm)`). Nothing is asked of
faults. A child that blocks in a `read()` is not enabled, so no liveness
property gets a free wake-up. Weak fairness of a child whose loop goes on
(warm up, benchmark, warm up, ...) gives it turns, but never the byte it
races for: it follows from the number of bytes.

## Runs

| run | instance | question |
|---|---|---|
| `group` | 4 children, 2 samples each, 2 calls with their baselines, a cleanup routine; the parent may be killed | is the protocol itself right, and does every call return? |
| `faults` | 2 calls, each a baseline and 3 children, -N not given (-1), no cleanup routine, 2 faults of any kind | what do deaths, signals and failing calls do to it; does it implement `Harness`; what survives a call; do orphans end? |
| `hang` | 2 children, one dies | expected violation, see below |
| `early` | 2 children, no fault | expected violation, see below |
| `sweep` | 2 children, 2 samples each with 3 durations and 2 iteration counts, 10 sizes of which the stride excludes one, one call gives up | are the lists ordered, complete and within bounds, and the lines the best samples? |
| `stale` | 1 child, 1 sample, 2 sizes, one call gives up | expected violation, see below |
| `pairs` | 2 nodes, the script started twice, 2 runs fail | which cells of which matrix can be trusted? |
| `mixed` | 2 nodes, 1 run fails | expected violation, see below |
| `machines` | 14 machines, 16 streams, calls nested 6 deep | on which machines are the library's answers right, and which end? |
| `recursion` | 2 machines, 40 streams | expected violation, see below |
| `scattered` | `suite`'s instance | expected violation, see below |
| `suite` | each of 27 programs with its helpers, servers and clients; 2 intervals of at most 2 iterations, one signal, death or failing call, 3 lost datagrams, rings of at most 3 processes, arrays of at most 3 pages of 8 words, files of 4 blocks, lists of 2 remembered offsets where `count=` is not given | does each program time what it means to time, end, and leave nothing behind? |

Beside the runs, `MCSuite_points.cfg`, `MCSuite_norepeat.cfg` and
`MCSuite_multiple.cfg` check one formula each on `suite`'s instance, and TLC
finds it violated: `tlc -config MCSuite_points.cfg MCSuite`. What they show is
told with the other disagreements below.

What the properties say:

- `ResponseInPhase`, `BarrierBytes`, `LoadWhileTiming`, `CallsReturn` (run
  `group`): messages of different phases never meet; a child that still has
  to pass a barrier always finds a byte, although the children race for
  them; while one child measures all the others keep the load up; every call
  returns unless its caller is killed.
- `TypeInv`, `SoleReporter`, `BarrierInv`, `TimeIsComplete`,
  `NoSpuriousError`, `NoStrayChildren`, `Implements`, `FirstGivesUp` (run
  `faults`): types and loop indices; the response pipe has one owner; a time
  means that each child reported once; the parent gives up only after a failure
  in this activation, flags left over from an earlier one do not count; no child or zombie is
  left; the barriers are those of the document; a first activation that gives
  up comes to an end.
- `OrphansDie` (run `faults`): children whose parent died end, even without the
  `getppid()` test, which does nothing for a child with no cleanup routine (684),
  and though their siblings hold the same pipes.
- `ListsSorted`, `WithinCapacity`, `NothingLost`, `LineIsBest`,
  `MedianIsMiddle`, `PowersVisited` (run `sweep`): every list is ordered and
  fits its array; a published list has each sample as often as it was taken;
  after a success the line is the fastest sample of this size; the median of
  a group has at most half of its samples on either side; no power of two is
  passed over by `step()`.
- `MatricesRight`, `FactorsRight`, `ReadersRight`, `FreshBandwidth`,
  `CompleteIsRight` (run `pairs`): up to the first run that failed, every cell is the measurement of
  its own pair; likewise the factors, which also need the row's local value;
  the library's functions read them back, although some number nodes from one
  and some from zero;
  the bandwidth matrix is of one attempt; and if it has all its cells it is
  right. The last two hold whatever was interrupted or failed, because a
  failed STREAM leaves no line and `output/` is emptied. For the latencies
  nothing of the kind holds: a failed `lat_mem_rd` may leave as many lines as
  a good one, and `tlatencies.minas` survives an interruption. A start that
  finds such leftovers (`leftover`) is therefore excluded from the first two.
- `NodeCpusRight`, `SiblingsRight`, `RegularSurvives`,
  `CoresRight` (run `machines`): the processors of a node are those that `na_get_nodeidcpu()`
  places there, in order, and never those of another node, though some are
  missing of a node larger than node 0; siblings are right for the first and
  the last processor of a list as long as that of processor 0; on a machine with
  even nodes and no shared cache but the last a query fails only when earlier
  ones have used up the streams. Each names the machines it needs: with a gap
  in the node numbers `get_nodeidcpu()` places what comes after it on node 0,
  and a middle processor of three loses a sibling; as many siblings are read
  as share the cache of processor 0 (661-665), whatever the list of the
  processor asked about holds. `CoresRight`: on a machine
  that `compute-latencies` is made for, two cores get the latency of the
  smallest cache above both, or that of their nodes. Such a machine has three
  levels of data caches, none of them across two nodes, nodes and processors
  without gaps, one processor to a core, and the same numbers in hwloc and in
  the kernel; several of the fourteen are not of that kind.
- `IntervalsSeparate` (run `suite`): an interval of an exchange program ends
  with nothing on its way; of `bw_unix`, if the size of a piece divides the
  total, with no byte and no question left over (that it always divides is
  refuted, see `multiple` below); of `lat_fcntl`, with lock 2 in the hands of the
  benchmark.
- `OneToken`: the ring of `lat_ctx` has one message while the benchmark waits
  for it and none otherwise.
- `WaitNeverBlocks`, `ServerSurvives`: `wait()` in the servers' signal handler
  finds a dead child whenever it is called; a server ends by its alarm
  (`GO_AWAY`), by a `-S` run that reached it, or, `lat_tcp`'s, when a client was
  killed after it had connected and before it wrote its size (`mem.silent`), and
  by nothing else: a client killed while it is served, a failing fork or a
  signal does not end it.
- `HttpWhole`: a client of `lmhttp` that reads to the end of file has the whole
  file or nothing, also where another client is killed in the middle of its
  own file and takes the process that serves it away.
- `UdpReplies`: the datagram that `lat_udp` takes for its answer is its answer.
- `ChainsComplete`: every chain is one lap, an iteration is at least a lap, and
  the lap goes through all the words; of the words of two chains it says
  nothing, `dram_page_initialize()`'s on a part of a page and
  `thrash_initialize()`'s on a part of a page whose number of lines is no power
  of two (see `points` below). `line_test()` restores what it cuts; parallel
  chases start at different places of the lap.
- `CopiesInPlace`: in a copy in order, and in one at random without `fork=`,
  blocks are written where they were read; without a fault what is counted was
  written, and one report is printed. `fork=` with `rand=` is for the run
  `scattered`.
- `DrawsRemembered`: with `norepeat=`, whatever it is combined with, no offset is
  drawn again while the list lasts that has it: with `count=` to the end, without
  it for `10 << 10` draws (`Remember`). The first draw is in no list: see
  `norepeat` below.
- `BenchmarksEnd`, `HelpersEnd`, `ServerStops`: without a fault every benchmark
  ends; helpers end after it, also where the wrong cookie kept `cleanup()` from
  killing them, with the exceptions named in `HelperMayStay`; a request to stop
  that arrives ends the server.

Why the bounds are enough. Children differ only in what they have already
done, so the races need two that compete and one that is done or late: three,
and four where nothing fails. The protocol of a group is the same in every
call; the only state that survives a call is the signal state, which has two
values, so it repeats after two activations: a baseline and a group. Two calls
are four activations. Two faults let one hit the recovery from another. In `sweep`, `TRIES` is 3 instead of 11,
so that the group's four samples exceed it; sizes go beyond 8192, the first
power of two that a wrong comparison in `step()` misses; `Exponents`
are those of the powers of two from 512 to a megabyte; two sizes suffice for
what one call leaves to the next. In `pairs`, two nodes distinguish rows from
columns and the first row from another; the attempt before this one is the
only one that can be seen. In `machines` there is a machine for each
distinction the library makes or forgets to make: one node or several, gaps,
nodes of different sizes, several sockets in a node, an offline processor,
caches private, shared by ranges, by pairs or triples, last or not, and names
of two digits, which `ls` puts first. Sixteen streams allow several queries
before they run out; real processes have about a thousand. In `suite`, two
intervals of two iterations have a first and a later one of each; one fault
hits any state, and what a second one could add is a second handler of a
process that is ending already. Two clients are what a sequential server, or
two handlers, can confuse. Three lost datagrams are one less than `-S` of
`lat_udp` sends. A ring of three has a daemon whose neighbours are both
daemons, and one of one has none. Two remembered offsets are fewer than the draws of a
run without `count=` (`Endless`), so that the list begins again. An alarm of a
server (`GoAway`, `UdpGoAway`) is not a fault and is not counted as one: it may
go off in any state. Three pages of eight words with lines of one
and two words have numbers of lines and pages that are powers of two and that
are not. Four blocks give `rand=` three places.

### Where code and documentation disagree

`hang`, `early`, `stale`, `mixed`, `recursion` and `scattered` are runs;
`points`, `norepeat` and `multiple` are the configurations beside them.

`hang` (`GivingUpEnds`). `benchmp()` installs `benchmp_sigterm()` and no line
ever restores SIGTERM. The second activation therefore finds
`benchmp_sigterm` as the "previous" handler (222), and each of its children
reinstalls that one instead of `benchmp_child_sigterm()` (643-646): they only
set a flag. With `parallel > 1` the measurement is always at least the second
activation, after its baseline. If one child of the group dies, the parent
signals the others and waits for each without a timeout (501-504), while they
run the benchmark for ever. The comment at 293-303 promises that children
that do not die of their own accord are killed. The first activation is free
of this, which is `FirstGivesUp`.

`early` (`AllStartedBeforeTiming`). `doc/lmbench3.ms:680-683` says that all
children have started executing the benchmarked operation before any child
takes measurements. A child says `ready` on its first entry of
`benchmp_interval()`, before it has run the benchmark at all, and with warmup
0 (the default of most programs) the start signal can follow at once.

`stale` (`LineOfThisArray`). `benchmp()` returns nothing. When it gives up,
`gettime()` is zero (185) but the global list of results is still that of the
last success. `lat_mem_rd` calls `save_minimum()` (148), which replaces the
zero by the fastest sample of the old list: the line has the new size and the
latency of another array, or, with `-P` above one, of the baseline.
`doc/lat_mem_rd.8:60-62` describes a data point as an array size and "the load
latency over all points in that array".

`mixed` (`LmbenchOnly`). The lmbench half of `calc_numafactor.sh` fills the
same shell variables `tabela_i_j` as the STREAM half (79-80, 172-173) and
clears none. If a run of `lat_mem_rd` yields no line, the last variable still
has a time measured by STREAM, which is published as a latency and divided
into a NUMA factor that line 196 announces as "calculated using lmbench3
(latency)".

`recursion` (`NodeAnswered`). If the first cache that processor 0 shares is
not the last level, `na_get_cpusidnode()` in `archTopology.c` asks
`na_get_socketsId_node()` (640), which begins by asking `na_get_cpusidnode()`
about the same node (337): the calls nest until the process fails. A shared
last level is not recognised either when the cache directory has an entry
besides its indexes, since `na_get_numcaches()` counts entries (981-987). The
comment at 574-575 promises the processors or -1.

`points` (`EveryPoint`). `words_initialize()` reverses the bits of an index over
the bits of half the count (`lib_mem.c:514-523`). For a count that is no power
of two the top indexes get the images of the bottom ones, and the chain that
`thrash_initialize()` makes of them on a part of a page leaves out the lines
between the two visits of a word: of three lines it goes through one. With `-t`,
`lat_mem_rd` times that. `doc/lat_mem_rd.8:60-62` says: "the load latency over
all points in that array".

`norepeat` (`NeverTwice`). `norepeats` starts at -1 (`lmdd.c:82`), so that the
first offset is stored in front of the array (388), where `been_there()` does not
look. It may be drawn again. `lmdd.c:145` says: "don't ever do the same I/O
twice".

`scattered` (`RandomInPlace`). With `fork=` a child writes the block, at a
position that it shares with its parent; with `rand=` the parent moves that
position to its next offset (`lmdd.c:396-398`) before the child has written.
Blocks end up at the offsets of others, without any fault.
`doc/lmdd.8:12` says that `lmdd` "copies a specified input file to a specified
output".

`multiple` (`WholePieces`). "round up total byte count to a multiple of xfer" say
`bw_pipe.c:173` and `bw_unix.c:174`. The statement below adds
`bytes - bytes % xfer`, which keeps the remainder: a total that is no multiple is
none afterwards, and in `bw_unix` bytes of one iteration may be read by the next.

One more has no run, because no property depends on it: `doc/lat_mem_rd.8:36`
says that the pointers of the ring "point backward one stride"; those of
`stride_initialize()` point forward (`lib_mem.c:194-197`).

A limit that is not a disagreement: with `-N` not given, `benchmp_parent()`
allocates `TRIES` = 11 slots for the merged list, but every child reports one
sample. More than 11 children overflow it. `RoomAssumption` excludes this,
and `CapacityCorrect` shows that nothing else can.

## Proofs

`BenchmpBarrierProof` proves, for every number of children, samples, calls,
faults and rejected intervals (the named assumptions in `Benchmp` are all they
use):

- `TypeCorrect`: `Spec => []TypeInv`, types and loop ranges.
- `BarrierCorrect`: `Spec => []BarrierInv`.
- `SoleReporterCorrect`, `TimeIsCompleteCorrect`, `ResponseInPhaseCorrect`,
  which follow.

The argument. None of the three properties is inductive: the parent counts
bytes, and a count says nothing about who sent them. `BarrierInv` ties the
counts to sets. `GotReady` is the set of children that have sent `ready` and
whose message is no longer in the pipe, likewise `GotDone`, and `GotResults`
is the set of children whose report was merged. While the parent is running
normally, the loop index is the cardinality of the set (`PhaseInv`), each
child sends each message at most once (`KidInv`), and so index `par` means
the whole group (lemma `CountOne`). A child leaves its warmup only if the
start pipe is readable, which it is not before `GotReady` is everybody; and so
on for the other barriers. Once the parent leaves its normal course (it gives
up, or is dead) only `SoleReporter` is kept, which needs no phase: no new
byte is ever written to the result pipe.

Each step lemma treats one action or a few that disturb the same conjuncts;
`ChildRunning` is about the children, the `...Step` lemmas about the parent,
`FaultStep` and `CrashStep` about the environment.

`BenchmpGroupProof` adds what the counts do not say:

- `GroupCorrect`: `Spec => []GroupInv`, and from it `NoStrayChildrenCorrect`,
  `NoSpuriousErrorCorrect`, `LoadWhileTimingCorrect`, `BarrierBytesCorrect`.

`GroupInv` has four parts, proved one after the other on top of `BarrierInv`.
`StrayInv` gives for each loop of the parent the children that exist, by its
index; the loops of the error path have one of their own each, because they
start before the group is complete. `QuietInv`: a child that is gone was
noticed by the handler, and flags and pending SIGTERMs are set by faults only.
It needs `OrderInv`, for a child ends of its own accord only after the exit
byte: no child is further than the bytes written let it, and there is no exit
byte while the parent has the pipes open. `LeavingInv` is the end of it: with
the pipes closed only children on their way out are left, so that waiting for
them is no error. `BarrierBytes` counts children that owe a read against bytes
in a pipe; a child that takes a byte leaves the set it is counted in
(`OwedTaken`), nobody enters it before the parent has written (`OwedKept`).

`BenchmpRefinement`: `ImplementsCorrect`, `Spec => Implements`. The abstract
group, mood and stage of a child are state functions; `StageCases` says what
the stage is at each place of parent and child. The abstract actions are
reduced to four kinds of lemma, by what a step does to the abstract state:
nothing (`Stutters`), a failure (`Fails`), a child lost (`Loses`), one child's
stage moved on under the guard of its barrier (`Moves`). Then there is one
lemma per action of `Benchmp`. The guards of the abstract barriers are where
`BarrierInv` and `OrderInv` are used: that a child that moves past a barrier
was let past by everybody.

`SweepProof`, for every number of children, repetitions, sizes and every set
of durations:

- `SortedCorrect`: `Spec => []ListsSorted`. That the slot `insertsort()` stops
  at exists (`SlotExists`) needs the least element of a set of naturals, taken
  from the library's well-foundedness of `<`. Inserting there keeps neighbours
  in order (`InsertSorted`) without transitivity of the comparison.
- `CapacityCorrect`: `Spec => []WithinCapacity`. `CountsInv`: a child's list is
  no longer than the samples it counted, which stops at `Wanted`; the merged
  list and the report being merged are together no longer than the number of
  children that reported times `Wanted`. `RoomAssumption` is used when
  repetitions are not positive, and only there.
- `SamplesCorrect`: `Spec => []SamplesInv`, and from it `NothingLostCorrect`,
  `LineIsBestCorrect`, `MedianCorrect`. `TakenInv`: the sorted list of a child
  holds each duration as often as the child took it; `MergedInv`: the merged
  list with the rest of the report being merged hold it as often as the
  children that reported took it. A multiplicity is the cardinality of a set of
  positions, so that each step is a bijection between such sets
  (`SameCount`): insertion shifts positions (`InsertCount`), taking the head
  shifts them back (`TailCount`). `PhaseInv` keeps a list that was published
  apart from one that is being merged. That the minimum is the fastest and the
  median in the middle needs pairs, not neighbours, in order (`SortedPairs`),
  hence the transitivity of the comparison of two quotients without division
  (`NotSlowerTransitive`), and the least position where an order breaks
  (`Least`) in place of an induction.

- `PowersCorrect`: `Spec => PowersVisited`, with `SizesCorrect`: a size is twice
  or three times a power of two. The powers are a recursive function (`TwoTo`);
  `TwoToDefined` shows that there is one, put together from those on the first n
  numbers. `OctaveRight`: the loop of `step()` stops at the power above the size,
  so that the next size lies within the same octave or begins the next
  (`StepRight`).

`NumaFactorProof`, for every number of nodes, attempts and failures, and every
placement of processors and memory:

- `FreshCorrect`: `Spec => []FreshBandwidth`.
- `CompleteCorrect`: `Spec => []CompleteIsRight`. `RightUpTo`: at position m of
  the loops the file has at most m lines, and if it has m, each is right.
  `NextCell` and `NextPosition` are the arithmetic of rows and columns.
- `PipelineCorrect`: `Spec => []PipelineInv`, and from it `MatricesCorrect` and
  `FactorsCorrect`. The cells are not addressed but counted: a line lands in its
  place because as many lines were written as the loops have turned. So the
  invariant of a file being filled (`Filling`) is that it has `Turn` lines as
  long as no run of its tool failed, and the lines before the first failure are
  those of their own pairs. `WorkInv` says which files are empty at which part
  of the script unless an earlier attempt left some, `StreamInv` and
  `LatencyInv` follow the data of the two tools from their runs through the
  table to the quotients and the published matrices. `NotAWord` is why a sound
  cell is none of the words the script itself writes.
- `ReadersCorrect`: `Spec => []ReadersRight`. The readers count words, the files
  are made of cells; `WordIsCell` says that the two agree up to the first blank
  cell. That no cell before the pair's own is blank is `EarlierUndisturbed` for
  a measurement, and `EarlierSound` for a quotient, which also needs the local
  pairs of the rows above. `PairOfCell`, that every position belongs to a pair,
  is by the least position that does not (`LeastNatural`).

`TopologyProof`, for every set of machines (any numbers of nodes, processors,
packages and caches that satisfy `MachineAssumption`), any order and number of
queries, every number of streams and every depth of calls above one (a query
that calls another needs two; with less, every such query would fail):

- `TopologyCorrect`: `Spec => []TopologyInv`, and from it `NodeCpusCorrect`,
  `SiblingsCorrect`, `SocketsCorrect` and `RegularCorrect`. An answer is
  computed in one step from `machine`, but by a query that another one may have
  called. `FrameInv` therefore says of each frame what its caller and its
  arguments are: below a query for processors there is another frame only on a
  machine where processors are sought through sockets, and there a query for
  sockets never gets an array back, which is why the nesting does not disturb
  the answers but only ends the process. `Regular` excludes such machines
  (`RegularLevel`), so that two frames are enough and only streams can run out.
- `CoresCorrect`: `Spec => []CoresRight`. The table of nodes is needed
  (`CoreNodes`), and that the k-th core of hwloc is processor k (`CoreNumbers`).

Most of the proof is about data. Lists in order are defined by ranks, the
k-th member being the one with k - 1 members before it, so that no recursion is
needed: there is a member of every rank (`RankTaken`), and the list has each
member once and in order (`SortedRight`). `NamesRight`: `ls` orders different
processors differently. The loop over sockets is a recursive function;
`SocketsDefined` shows that there is one, as the union of those for shorter
lists, the least length without one being absurd, and `SocketsRight` that it
has each socket once. `SiblingsAnswer`: the loop over a list of siblings skips
one entry, and reads none beyond the list, if the processor comes first or last.
`NodeFound`: on a machine without gaps in the nodes, the search for a
processor's node ends at the right one.

`SuiteProof` begins with the ring of `lat_ctx` alone, for every number of
processes, intervals, iterations and faults (`RingSpec`, without fairness):

- `RingHasOneToken`: `RingSpec => []OneToken`. Counting is not inductive, so
  `RingInv` says the same without a count: no two daemons carry the message, no
  two pipes hold it, and never a daemon and a pipe at once (`Single`). A new
  message is written only where there is none (`Quiet`), which needs the rest:
  which process stands where in which of the two calls (`Stages`), the pipes of
  the overhead call stay empty (`Idle`), and the arrays have `procs` members
  (`Shaped`). A step moves nothing (`NothingMoves`), brings the message in
  (`TokenIn`), takes it out (`TokenOut`), passes it on (`DaemonPasses`) or loses
  it (`DaemonDies`). A lost one is not replaced: the benchmark waits for it for
  ever, or is in `cleanup()`, which does not return to the loop (`Stages`).

`ServersProof`, for any number of faults, lost datagrams and iterations. Each
theorem is about one group of programs alone and without fairness
(`ForkingSpec`, `DatagramSpec`, `SequentialSpec`); `SuiteProof` lifts it.

- `UdpCorrect`: `DatagramSpec => []UdpReplies`. `UdpFlight`: a client that waits
  has one datagram on its way, to the server or back, unless it was lost; one
  that does not wait has none. Hence no answer can be an old one, though nothing
  but the sequence number tells them apart.
- `ForkingCorrect`: `ForkingSpec => []ForkingInv`, and from it `WaitCorrect` and
  `SurvivalCorrect`. Connections are a sequence that only grows, and what the
  proof needs is who owns them: each is one client's (`OneOwner`), a handler is
  forked once for each and after it was accepted (`OneFork`), and the first
  message of a client is unread until that handler takes it (`SizeSent`,
  `StopSent`), so a handler that finds nothing has a client that was killed.
  `ServerSurvives` follows: to stop the server, a handler must have read a stop
  or found no size, and it finds none only if its client was killed between
  `connect()` and the write of the size (`mem.silent`; `GoAway` sets
  `mem.alarm`, no other action sets either).
- `HttpCorrect`: `SequentialSpec => []HttpWhole`. The two processes of `lmhttp`
  share one listening socket and, after `EXIT`, one of them goes on alone.
  `HttpInv` holds whatever clients were killed: a connection is one client's, and
  one that a process serves is open and served by no other (`Present`); `EXIT` is asked for on the last connection only, after
  all clients ended (`LastComes`); a process sends only what was asked for
  (`Requested`); and what a client has, what is on the wire and what the process
  still has to send add up to the file, or to nothing before it began and
  after it closed early (`Part`), for as long as that client has its connection.
  A client that is killed disturbs only its own sum: nobody is left to read it,
  and the process that fails to write to it closes that connection and no other. One lemma per action; those that change one
  connection go through `Replaced` and the `...Kept` lemmas, which say what of
  the invariant survives a change that leaves owners and messages alone.

The rest of `SuiteProof` is, for any number of intervals, iterations and faults,
about `Spec` of `Suite`, the specification the run `suite` checks:

- `SuiteInvariant`: `Spec => []SuiteInv`. `SuiteInv` is the conjunction of the
  invariants of the programs, each under the condition that it is the one that
  runs. A step belongs to one program and leaves the program what it is
  (`StepsOfOne`, `NextOwn`), so each invariant needs the steps of its own
  program alone, and the theorems about `RingSpec` and of `ServersProof` hold of
  the suite: `SuiteOneToken`, `SuiteServers`, `SuiteHttp`, `SuiteUdp`.
- `SuiteIntervals`: `Spec => []IntervalsSeparate`. Its three parts have one
  invariant each. `EchoState`: one message at most between the two processes,
  and none when the benchmark waits for none; for `lat_sem`, whose message is a
  unit of a semaphore, one unit in the two from the helper's first `semop()` on,
  unless the helper died before, which is noticed because SIGCHLD still has its
  handler then. `UnixState`: with a size the transfer divides, the bytes asked
  for are those in the socket, those read and those the helper still has to
  write (`Reading`), and nothing at the turn of an interval (`Nothing`).
  `FcntlState`: at each line of `procA` which locks are the benchmark's; of the
  other lock it need not be said who has it, so the helper's steps cannot
  disturb this.
- `SuiteCopies`: `Spec => []CopiesInPlace`. `Following`: when blocks are copied in
  order, the input is ahead of the output by what was padded and by what the
  child has not written. That a second child would break it is excluded by the
  wait before each fork. `Placed` and `Counted` follow from it; a fault ends the
  count but not the places, unless a fork failed.
- `SuiteDraws`: `Spec => []DrawsRemembered`, for every size of the list. `Numbered`:
  the place in the list is that of the draw, counted from where the list began
  (`ListOf`: a remainder by `Remember`); `Room`: with `count=` there is a place for
  every draw to come, the one of `padin=` included; `Listed`: the places below
  that of the last draw have every draw since the list began, except the first
  of all; `NewDraw`: the offset just drawn is therefore none of those read since
  then, and `Apart`, which is the property, is kept when its block is read.
- `SuiteStride`: `Spec => [](program \in MemoryNames => StrideComplete)`, which is
  `ChainsComplete` for the chain `lat_mem_rd` makes unless `-t` is given. Stores to
  different places that each name the next are one lap (`Ring`, `RingTour`);
  `HopsRight` counts the multiples of a stride below a length, for any stride and
  length; `MemoryState` says that only `lat_mem_rd` makes such a chain and that
  nothing changes it before it is freed.

Model-checked only:

- all liveness, which needs fairness, and `ENABLED`, which the proof system does
  not have;
- `ChainsComplete` but for the chain of `stride_initialize()`: the other chains
  are nested loops over random permutations and over words and lines in an order
  that reverses the bits of an index.

### What else the models show of the suite

The properties name these as exceptions. No sentence of the documents, comments
or tests was found that promises otherwise; those for which there is one have a
run of their own, above.

- `lat_fcntl`: nothing makes the two processes take turns. The benchmark may
  have both locks back before the helper gets either.
- The handlers of the harness pass the address of its own state to the
  program's `cleanup()`. `lat_ctx` then crashes, and the helpers of `lat_pipe`,
  `lat_unix`, `lat_sem` and `lat_fcntl` are left alone and stay.
- `lat_fifo` ends its helper with SIGTERM, for which the helper has inherited
  a handler that sets a flag: `waitpid()` waits until the harness's alarm.
- `lat_cmd` tests `case '0'` where `fork()` returns 0: the command is never
  executed, and each iteration leaves a process that waits for the next.
- `lat_pmake` passes no cleanup routine, so that the end of its first job runs
  the harness's SIGCHLD handler, which ends the benchmark.
- A server whose `fork()` fails keeps the connection, unserved. `-S` of
  `lat_rpc` is one datagram, which may be lost; `EXIT` ends one of `lmhttp`'s
  two processes; `bw_udp` swaps the bytes of its sizes and never stops.
- `lat_select`'s server waits in `accept()` for ever when `main()` was killed.
- `lmdd norepeat=` stores the first offset before the array, and the place for
  the next one holds a 0 until it is stored: offset 0 never comes after the
  first draw. `done()` does not wait for the last child, and a child whose write
  fails prints a second report.
- A client of `lat_tcp` that dies between `connect()` and the write of its size
  ends the server for all: its handler takes the end of file for a request to
  stop (`lat_tcp.c:165`).
- `compute-latencies` writes beyond `cache_sizes[]` with four levels of caches.

## Not modelled

The choice of iteration counts in `benchmp_interval()`, the clock and the
overheads (`t_overhead()`, `l_overhead()`, `compute_enough()`) are arithmetic
on measured times, without another process to disturb it; here an interval has
any count. `lib_sched.c` places children on processors by what the system says
of them, and no later step depends on the place. Of the library,
`na_get_cpusidsocket()` writes every sibling into an array for the cores alone
(1033, 1062-1067), or asks for siblings at index -1 where no cache is shared,
so that nothing can be said of what it returns; `na_get_nneighbors()` reads a
file nothing in the repository writes; the rest returns single numbers. The
local runs, the averages in `numacost.minas` and the compilation in the
scripts are plain text processing. `topology.sh` repeats the pipeline of
`calc_numafactor.sh` (90-281) with other paths. `topo/topo.c` calls functions
that are not in the repository.

Of the suite: the programs with a single process between two calls of
`benchmp()` (`bw_mem`, `bw_file_rd`, `bw_mmap_rd`, `lat_mmap`, `lat_pagefault`,
`lat_fs`, `lat_syscall`, `lat_ops`, `lat_usleep`, `lat_rand`, `stream`,
`par_ops`), and those that compute from times (`mhz`, `cache`, `memsize`,
`lib_stats.c`); `disk` and `flushdisk`, which are I/O on a device; `rhttp`,
which reports what `lat_http` does. Within the modelled ones: the portmapper
and the RPC library but for what the programs rely on, `lmhttp`'s directories
and log, the patterns and histograms of `lmdd`, and the processes of `-P`
above one, which `Benchmp` shows to be independent but for its barriers.
STREAM's arithmetic, configuration scripts and documents are text or third
party.

## Plan

1. `IterControl`: the choice of the iteration count in `benchmp_interval()`
   against a clock with a fixed cost per iteration. Theorem: an accepted
   interval is long enough.
2. Proofs that the other chains are laps: that reversing bits is one to one, and
   `RingTour` applied to pages and lines.
3. `Sched`: the placements of `lib_sched.c`, if the order of the children
   comes to matter to a model.
