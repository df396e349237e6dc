----------------------------- MODULE NumaFactor -----------------------------
(***************************************************************************)
(* calc_numafactor.sh: STREAM and lat_mem_rd run once for every pair of a  *)
(* processor node and a memory node; their lines are collected in files,   *)
(* numbered into shell variables tabela_i_j, divided by the local value of *)
(* the row, and published as matrices in output/.                          *)
(*                                                                         *)
(* The script tests no exit status.  A command that fails leaves no line,  *)
(* or lines that mean something else.  The script can be interrupted       *)
(* between any two commands and started again: output/ is removed then,    *)
(* the working files in stream/ and lmbench3/bin/ are not.                 *)
(***************************************************************************)
EXTENDS Integers, Sequences

CONSTANTS
    N,            \* NODE_POSSIBLE_COUNT
    HasCpu,       \* the nodes that have processors
    HasMem,       \* the nodes that have memory
    MaxAttempts,  \* bound: how often the script is started
    MaxFailures   \* bound: how many commands fail that need not

Nodes == 0 .. N - 1

ASSUME NAssumption == N \in Nat \ {0}
ASSUME MachineAssumption == HasCpu \subseteq Nodes /\ HasMem \subseteq Nodes
ASSUME AttemptAssumption == MaxAttempts \in Nat /\ MaxFailures \in Nat

VARIABLES
    pc,        \* the part of the script that runs next
    row, col,  \* the loop variables
    attempt,   \* which start of the script this is
    tabela,    \* the shell variables tabela_i_j
    stream,      \* output/stream.minas, the Triad lines
    tnumafactor, \* stream/tnumafactor.minas
    tlatencies,  \* bin/tlatencies.minas
    tlmbench,    \* bin/tnumafactor.minas
    tlatency,    \* bin/tlatency.minas
    bandwidth, numafactor_stream, numafactor_lmbench, latency_lmbench, \* output/
    failed,    \* the runs of this attempt that failed (history variable)
    leftover,  \* working files of an earlier attempt were there (history variable)
    failures   \* avoidable failures so far

loopVars == <<row, col>>
workVars == <<tnumafactor, tlatencies, tlmbench, tlatency>>
outVars  == <<stream, bandwidth, numafactor_stream, numafactor_lmbench, latency_lmbench>>
pastVars == <<attempt, leftover>>
failVars == <<failed, failures>>
vars == <<pc, loopVars, tabela, workVars, outVars, pastVars, failVars>>

Tools == {"stream", "lat_mem_rd"}
Pairs == Nodes \X Nodes
(* What a line says: a time measured in some attempt, by some tool, between *)
(* two nodes; or a word: the zero of a lat_mem_rd whose benchmp() failed,   *)
(* junk from an error message or a smaller size.  A shell variable may be   *)
(* unset, a cell blank.                                                    *)
Times == [tool : Tools, run : 1 .. MaxAttempts, cpu : Nodes, mem : Nodes]
Time(t, c, m) == [tool |-> t, run |-> attempt, cpu |-> c, mem |-> m]
Word(w) == [word |-> w]

(* numactl runs a program on processor node c with memory of node m.       *)
Possible(c, m) == c \in HasCpu /\ m \in HasMem

(* The next turn of two nested loops over the nodes, or what follows them. *)
NextPair(next) ==
    IF col + 1 < N
    THEN col' = col + 1 /\ UNCHANGED <<row, pc>>
    ELSE /\ col' = 0
         /\ IF row + 1 < N THEN row' = row + 1 /\ UNCHANGED pc
                           ELSE row' = 0 /\ pc' = next

(* A run of tool t for the current pair fails.                             *)
Fails(t) ==
    /\ IF Possible(row, col) THEN failures < MaxFailures /\ failures' = failures + 1
                             ELSE UNCHANGED failures
    /\ failed' = failed \cup {<<t, row, col>>}

-----------------------------------------------------------------------------
(* MUTANT: output/ is kept.                                                *)
StartKeep ==
    /\ pc \in {"off", "done"} /\ attempt < MaxAttempts
    /\ pc' = "stream" /\ attempt' = attempt + 1
    /\ row' = 0 /\ col' = 0
    /\ tabela' = [p \in Pairs |-> Word("unset")] /\ failed' = {}
    /\ leftover' = (workVars # <<<<>>, <<>>, <<>>, <<>>>>)
    /\ UNCHANGED <<workVars, outVars, failures>>

(* The script starts in a new shell; output/ is emptied.                   *)
Start ==
    /\ pc \in {"off", "done"} /\ attempt < MaxAttempts
    /\ pc' = "stream" /\ attempt' = attempt + 1
    /\ row' = 0 /\ col' = 0
    /\ stream' = <<>> /\ bandwidth' = <<>> /\ numafactor_stream' = <<>>
    /\ numafactor_lmbench' = <<>> /\ latency_lmbench' = <<>>
    /\ tabela' = [p \in Pairs |-> Word("unset")] /\ failed' = {}
    /\ leftover' = (workVars # <<<<>>, <<>>, <<>>, <<>>>>)
    /\ UNCHANGED <<workVars, failures>>

Interrupt ==
    /\ pc \notin {"off", "done"} /\ pc' = "off"
    /\ UNCHANGED <<loopVars, tabela, workVars, outVars, pastVars, failVars>>

(* MUTANT: memory node and processor node of the loop nest are swapped.    *)
RunStreamSwapped ==
    /\ pc = "stream" /\ NextPair("collect")
    /\ \/ /\ Possible(col, row) /\ stream' = Append(stream, Time("stream", col, row))
          /\ UNCHANGED failVars
       \/ Fails("stream") /\ UNCHANGED stream
    /\ UNCHANGED <<tabela, workVars, bandwidth, numafactor_stream, numafactor_lmbench,
                   latency_lmbench, pastVars>>

(* One run of STREAM on processor node `row' with memory of node `col'.    *)
RunStream ==
    /\ pc = "stream" /\ NextPair("collect")
    /\ \/ /\ Possible(row, col) /\ stream' = Append(stream, Time("stream", row, col))
          /\ UNCHANGED failVars
       \/ Fails("stream") /\ UNCHANGED stream
    /\ UNCHANGED <<tabela, workVars, bandwidth, numafactor_stream, numafactor_lmbench,
                   latency_lmbench, pastVars>>

(* MUTANT: the counter is one ahead.                                       *)
TabelaAhead(lines) ==
    [p \in Pairs |-> LET k == p[1] * N + p[2] IN IF k \in DOMAIN lines THEN lines[k] ELSE tabela[p]]

(* `while read n': line k goes into tabela_i_j with i = k / N, j = k % N;   *)
(* variables that get no line keep what they had.                          *)
Tabela(lines) ==
    [p \in Pairs |-> LET k == p[1] * N + p[2] + 1
                     IN  IF k \in DOMAIN lines THEN lines[k] ELSE tabela[p]]

CollectStream ==
    /\ pc = "collect" /\ pc' = "factor"
    /\ bandwidth' = stream /\ tabela' = Tabela(stream) /\ stream' = <<>>
    /\ UNCHANGED <<loopVars, workVars, numafactor_stream, numafactor_lmbench,
                   latency_lmbench, pastVars, failVars>>

(* MUTANT: every row is divided by the first node's local value.           *)
FatorFirst(p) == LET num == tabela[p]  div == tabela[<<0, 0>>] IN
    IF num = Word("unset") \/ div \in {Word("unset"), Word("zero")} THEN Word("blank")
    ELSE [num |-> num, div |-> div]

(* bc divides by the value of the row's own node; it prints nothing for a  *)
(* missing operand or a zero divisor.                                      *)
Fator(p) == LET num == tabela[p]  div == tabela[<<p[1], p[1]>>] IN
    IF num = Word("unset") \/ div \in {Word("unset"), Word("zero")} THEN Word("blank")
    ELSE [num |-> num, div |-> div]

StreamFactor ==
    /\ pc = "factor" /\ NextPair("publish")
    /\ tnumafactor' = Append(tnumafactor, Fator(<<row, col>>))
    /\ UNCHANGED <<tabela, tlatencies, tlmbench, tlatency, outVars, pastVars, failVars>>

PublishStream ==
    /\ pc = "publish" /\ pc' = "latency"
    /\ numafactor_stream' = tnumafactor /\ tnumafactor' = <<>>
    /\ UNCHANGED <<loopVars, tabela, tlatencies, tlmbench, tlatency, stream, bandwidth,
                   numafactor_lmbench, latency_lmbench, pastVars, failVars>>

-----------------------------------------------------------------------------
(* One run of lat_mem_rd; the script takes the second word of each of the  *)
(* last two lines, and drops blank ones.                                   *)
RunLatency ==
    /\ pc = "latency" /\ NextPair("lcollect")
    /\ \/ /\ Possible(row, col)
          /\ tlatencies' = Append(tlatencies, Time("lat_mem_rd", row, col))
          /\ UNCHANGED failVars
       \/ /\ Fails("lat_mem_rd")
          /\ \E lines \in {<<>>, <<Word("zero")>>, <<Word("junk")>>,
                          <<Word("junk"), Word("junk")>>} :
                tlatencies' = tlatencies \o lines
    /\ UNCHANGED <<tabela, tnumafactor, tlmbench, tlatency, outVars, pastVars>>

CollectLatency ==
    /\ pc = "lcollect" /\ pc' = "lfactor"
    /\ tabela' = Tabela(tlatencies) /\ tlatencies' = <<>>
    /\ UNCHANGED <<loopVars, tnumafactor, tlmbench, tlatency, outVars, pastVars, failVars>>

LatencyFactor ==
    /\ pc = "lfactor" /\ NextPair("lpublish")
    /\ tlmbench' = Append(tlmbench, Fator(<<row, col>>))
    /\ tlatency' = Append(tlatency, IF tabela[<<row, col>>] = Word("unset") THEN Word("blank")
                                    ELSE tabela[<<row, col>>])
    /\ UNCHANGED <<tabela, tnumafactor, tlatencies, outVars, pastVars, failVars>>

PublishFactor ==
    /\ pc = "lpublish" /\ pc' = "last"
    /\ numafactor_lmbench' = tlmbench /\ tlmbench' = <<>>
    /\ UNCHANGED <<loopVars, tabela, tnumafactor, tlatencies, tlatency, stream, bandwidth,
                   numafactor_stream, latency_lmbench, pastVars, failVars>>

PublishLatency ==
    /\ pc = "last" /\ pc' = "done"
    /\ latency_lmbench' = tlatency /\ tlatency' = <<>>
    /\ UNCHANGED <<loopVars, tabela, tnumafactor, tlatencies, tlmbench, stream, bandwidth,
                   numafactor_stream, numafactor_lmbench, pastVars, failVars>>

Init ==
    /\ pc = "off" /\ row = 0 /\ col = 0 /\ attempt = 0
    /\ tabela = [p \in Pairs |-> Word("unset")]
    /\ stream = <<>> /\ bandwidth = <<>> /\ numafactor_stream = <<>>
    /\ numafactor_lmbench = <<>> /\ latency_lmbench = <<>>
    /\ tnumafactor = <<>> /\ tlatencies = <<>> /\ tlmbench = <<>> /\ tlatency = <<>>
    /\ failed = {} /\ leftover = FALSE /\ failures = 0

Next ==
    \/ Start \/ Interrupt \/ RunStream \/ CollectStream \/ StreamFactor \/ PublishStream
    \/ RunLatency \/ CollectLatency \/ LatencyFactor \/ PublishFactor \/ PublishLatency

Spec == Init /\ [][Next]_vars
=============================================================================
