-------------------------- MODULE NumaFactorProof ---------------------------
(* Proofs about the matrices that the scripts publish and the library      *)
(* reads, for every number of nodes, and any number of interruptions, new  *)
(* starts and failures.                                                    *)
EXTENDS MCNumaFactor, FiniteSetTheorems, WellFoundedInduction, TLAPS

(* As long as no run has failed, the lines before position m are right; if *)
(* one has, there are fewer than m.                                        *)
RightUpTo(lines, m) ==
    /\ Len(lines) <= m
    /\ Len(lines) = m => \A p \in Pairs : Cell(p) <= m => lines[Cell(p)] = Own("stream", p)

FileInv ==
    /\ row \in Nodes /\ col \in Nodes
    /\ attempt \in 0 .. MaxAttempts /\ (pc # "off" => attempt >= 1)
    /\ stream \in Seq(Times) /\ bandwidth \in Seq(Times)
    /\ \A k \in DOMAIN stream : stream[k].run = attempt
    /\ \A k \in DOMAIN bandwidth : bandwidth[k].run = attempt

CountInv ==
    /\ pc = "stream" => RightUpTo(stream, row * N + col)
    /\ pc = "collect" => RightUpTo(stream, N * N)
    /\ CompleteIsRight

MatrixInv == FileInv /\ CountInv

-----------------------------------------------------------------------------
(* Every non-empty set of naturals has a least element.                    *)
LEMMA LeastNatural ==
    ASSUME NEW T \in SUBSET Nat, T # {}
    PROVE  \E x \in T : \A y \in T : x <= y
<1> DEFINE Less == {ss \in Nat \X Nat : ss[1] < ss[2]}
<1>1. IsWellFoundedOn(Less, Nat) BY NatLessThanWellFounded DEF OpToRel
<1>2. PICK x \in T : \A y \in T : ~ (<<y, x>> \in Less)
  <2> HIDE DEF Less
  <2> QED BY <1>1, WFMin
<1>3. ASSUME NEW y \in T PROVE x <= y
  <2>1. x \in Nat /\ y \in Nat OBVIOUS
  <2>2. ~ (y < x) BY <1>2, <2>1
  <2> QED BY <2>1, <2>2
<1> QED BY <1>3

(* Cells are numbered row by row, and no two pairs share one.              *)
LEMMA CellRange == ASSUME NEW p \in Pairs PROVE Cell(p) \in 1 .. N * N
<1>1. p[1] \in 0 .. N - 1 /\ p[2] \in 0 .. N - 1 /\ N \in Nat \ {0}
  BY NAssumption DEF Pairs, Nodes
<1> DEFINE a == p[1]
           b == p[2]
<1>2. a * N <= (N - 1) * N /\ a * N \in Nat /\ (N - 1) * N + N = N * N /\ N * N \in Nat
  BY <1>1
<1> HIDE DEF a, b
<1>3. a * N + b + 1 \in 1 .. N * N BY <1>1, <1>2 DEF b
<1> QED BY <1>3 DEF Cell, a, b

LEMMA NextCell ==
    ASSUME NEW r \in Nodes, NEW c \in Nodes, NEW p \in Pairs, Cell(p) <= r * N + c + 1
    PROVE  Cell(p) <= r * N + c \/ p = <<r, c>>
<1> DEFINE a == p[1]
           b == p[2]
<1>1. /\ a \in 0 .. N - 1 /\ b \in 0 .. N - 1 /\ N \in Nat \ {0}
      /\ r \in 0 .. N - 1 /\ c \in 0 .. N - 1 /\ p = <<a, b>>
  BY NAssumption DEF Pairs, Nodes
<1> HIDE DEF a, b
<1>2. a * N + b <= r * N + c BY <1>1 DEF Cell, a, b
<1>3. CASE a * N + b < r * N + c
  <2>1. a * N \in Nat /\ r * N \in Nat BY <1>1
  <2>2. a * N + b + 1 <= r * N + c BY <1>1, <1>3, <2>1
  <2> QED BY <2>2 DEF Cell, a, b
<1>4. CASE a * N + b = r * N + c
  <2>1. ASSUME a < r PROVE FALSE
    <3>1. (a + 1) * N <= r * N /\ (a + 1) * N = a * N + N BY <1>1, <2>1
    <3>2. a * N \in Nat /\ r * N \in Nat BY <1>1
    <3> QED BY <1>1, <1>4, <3>1, <3>2
  <2>2. ASSUME r < a PROVE FALSE
    <3>1. (r + 1) * N <= a * N /\ (r + 1) * N = r * N + N BY <1>1, <2>2
    <3>2. a * N \in Nat /\ r * N \in Nat BY <1>1
    <3> QED BY <1>1, <1>4, <3>1, <3>2
  <2>3. a = r BY <1>1, <2>1, <2>2
  <2>4. r * N \in Nat BY <1>1
  <2>5. b = c BY <1>1, <1>4, <2>3, <2>4
  <2> QED BY <1>1, <2>3, <2>5
<1>5. a * N \in Nat /\ r * N \in Nat BY <1>1
<1> QED BY <1>1, <1>2, <1>3, <1>4, <1>5

(* A turn of the loops moves the position by one.                          *)
LEMMA NextPosition ==
    ASSUME row \in Nodes, col \in Nodes, pc = "stream", NextPair("collect")
    PROVE  /\ row' \in Nodes /\ col' \in Nodes /\ pc' \in {"stream", "collect"}
           /\ pc' = "stream" => row' * N + col' = row * N + col + 1
           /\ pc' = "collect" => N * N = row * N + col + 1
<1> USE NAssumption DEF Nodes, NextPair
<1>1. CASE col + 1 < N BY <1>1
<1>2. CASE ~ (col + 1 < N) /\ row + 1 < N
  <2>1. (row + 1) * N = row * N + N /\ col = N - 1 /\ row * N \in Nat BY <1>2
  <2>2. row' = row + 1 /\ col' = 0 /\ pc' = "stream" BY <1>2
  <2>3. (row + 1) * N + 0 = row * N + col + 1 BY <2>1
  <2> QED BY <1>2, <2>2, <2>3
<1>3. CASE ~ (col + 1 < N) /\ ~ (row + 1 < N)
  <2>1. row = N - 1 /\ col = N - 1 BY <1>3
  <2>2. (N - 1) * N + (N - 1) + 1 = N * N BY <2>1
  <2>3. row' = 0 /\ col' = 0 /\ pc' = "collect" BY <1>3
  <2> QED BY <2>1, <2>2, <2>3
<1> QED BY <1>1, <1>2, <1>3

LEMMA InitCorrect == Init => MatrixInv
<1> SUFFICES ASSUME Init PROVE MatrixInv OBVIOUS
<1>1. FileInv BY NAssumption, AttemptAssumption DEF Init, FileInv, Nodes
<1>2. N * N # 0 BY NAssumption
<1>3. CountInv BY <1>2 DEF Init, CountInv, CompleteIsRight
<1> QED BY <1>1, <1>3 DEF MatrixInv

LEMMA StartStep == ASSUME MatrixInv, Start PROVE MatrixInv'
<1> USE DEF Start
<1>1. FileInv' BY NAssumption, AttemptAssumption DEF MatrixInv, FileInv, Nodes
<1>2. N * N # 0 BY NAssumption
<1>3. RightUpTo(stream, row * N + col)'
  <2>1. Len(stream') = 0 /\ row' * N + col' = 0 BY NAssumption
  <2>2. \A p \in Pairs : Cell(p) \in 1 .. N * N BY CellRange
  <2>3. N * N \in Nat BY NAssumption
  <2>4. \A p \in Pairs : ~ (Cell(p) <= 0) BY <2>2, <2>3
  <2>5. \A p \in Pairs : Cell(p)' = Cell(p) BY DEF Cell
  <2> QED BY <2>1, <2>4, <2>5 DEF RightUpTo
<1>4. CountInv' BY <1>2, <1>3 DEF CountInv, CompleteIsRight
<1> QED BY <1>1, <1>4 DEF MatrixInv

LEMMA RunStreamStep == ASSUME MatrixInv, RunStream PROVE MatrixInv'
<1> USE DEF RunStream
<1> DEFINE x == Time("stream", row, col)
<1>1. row \in Nodes /\ col \in Nodes /\ attempt \in 1 .. MaxAttempts /\ stream \in Seq(Times)
  BY AttemptAssumption DEF MatrixInv, FileInv
<1>2. PICK m \in Nat : m = row * N + col
  <2>1. row * N + col \in Nat BY <1>1, NAssumption DEF Nodes
  <2> QED BY <2>1
<1>3. RightUpTo(stream, m) BY <1>2 DEF MatrixInv, CountInv
<1>4. x \in Times /\ x.run = attempt BY <1>1 DEF Times, Time, Tools
<1>5. stream' = Append(stream, x) \/ stream' = stream OBVIOUS
<1>6. attempt' = attempt /\ bandwidth' = bandwidth BY DEF pastVars
<1> HIDE DEF x
<1>7. FileInv'
  <2>1. stream' \in Seq(Times) /\ \A k \in DOMAIN stream' : stream'[k].run = attempt
    <3>1. CASE stream' = stream BY <1>1, <3>1 DEF MatrixInv, FileInv
    <3>2. CASE stream' = Append(stream, x)
      <4>1. \A k \in DOMAIN stream : stream[k].run = attempt BY DEF MatrixInv, FileInv
      <4> QED BY <1>1, <1>4, <3>2, <4>1
    <3> QED BY <1>5, <3>1, <3>2
  <2> QED BY <1>1, <1>6, <2>1, NextPosition DEF MatrixInv, FileInv
<1>8. RightUpTo(stream, m + 1)'
  <2>1. \A p \in Pairs : Own("stream", p)' = Own("stream", p) /\ Cell(p)' = Cell(p)
    BY <1>6 DEF Own, Time, Cell
  <2>2. Len(stream) \in Nat /\ Len(stream) <= m BY <1>1, <1>3 DEF RightUpTo
  <2>3. CASE stream' = stream
    <3>1. Len(stream') <= m + 1 /\ Len(stream') # m + 1 BY <1>2, <2>2, <2>3
    <3> QED BY <3>1, <2>1 DEF RightUpTo
  <2>4. CASE stream' = Append(stream, x)
    <3>1. Len(stream') = Len(stream) + 1 BY <1>1, <1>4, <2>4
    <3>2. ASSUME Len(stream') = m + 1, NEW p \in Pairs, Cell(p) <= m + 1
          PROVE  stream'[Cell(p)] = Own("stream", p)
      <4>1. Len(stream) = m BY <1>2, <2>2, <3>1, <3>2
      <4>2. Cell(p) \in 1 .. N * N /\ N * N \in Nat BY CellRange, NAssumption
      <4>3. CASE Cell(p) <= m
        <5>1. stream[Cell(p)] = Own("stream", p) BY <1>3, <4>1, <4>3 DEF RightUpTo
        <5>2. stream'[Cell(p)] = stream[Cell(p)] BY <1>1, <1>4, <2>4, <4>1, <4>2, <4>3
        <5> QED BY <5>1, <5>2
      <4>4. CASE ~ (Cell(p) <= m)
        <5>1. p = <<row, col>> BY <1>1, <1>2, <3>2, <4>4, NextCell
        <5>2. Cell(p) = m + 1 BY <1>2, <3>2, <4>2, <4>4
        <5>3. stream'[m + 1] = x BY <1>1, <1>4, <2>4, <4>1
        <5>4. x = Own("stream", p) BY <5>1 DEF x, Own, Time
        <5> QED BY <5>2, <5>3, <5>4
      <4> QED BY <4>3, <4>4
    <3>3. Len(stream') <= m + 1 BY <1>2, <2>2, <3>1
    <3> QED BY <2>1, <3>2, <3>3 DEF RightUpTo
  <2> QED BY <1>5, <2>3, <2>4
<1>9. CountInv'
  <2>1. pc' = "stream" => row' * N + col' = m + 1 BY <1>1, <1>2, NextPosition
  <2>2. pc' = "collect" => N * N = m + 1 BY <1>1, <1>2, NextPosition
  <2>3. (pc = "stream" => RightUpTo(stream, row * N + col))' BY <1>8, <2>1 DEF RightUpTo
  <2>4. (pc = "collect" => RightUpTo(stream, N * N))' BY <1>8, <2>2 DEF RightUpTo
  <2>5. CompleteIsRight'
    BY <1>6 DEF MatrixInv, CountInv, CompleteIsRight, Holds, Own, Time, Cell
  <2> QED BY <2>3, <2>4, <2>5 DEF CountInv
<1> QED BY <1>7, <1>9 DEF MatrixInv

LEMMA CollectStep == ASSUME MatrixInv, CollectStream PROVE MatrixInv'
<1> USE DEF CollectStream
<1>1. FileInv'
  BY DEF MatrixInv, FileInv, loopVars, pastVars
<1>2. CompleteIsRight'
  <2> SUFFICES ASSUME Len(bandwidth') = N * N, NEW p \in Pairs
               PROVE  Holds(bandwidth, p, Own("stream", p))'
    BY DEF CompleteIsRight
  <2>1. Len(stream) = N * N /\ RightUpTo(stream, N * N) BY DEF MatrixInv, CountInv
  <2>2. Cell(p) \in 1 .. N * N /\ N * N \in Nat BY CellRange, NAssumption
  <2>3. stream[Cell(p)] = Own("stream", p) BY <2>1, <2>2 DEF RightUpTo
  <2>4. Cell(p) \in DOMAIN stream BY <2>1, <2>2 DEF MatrixInv, FileInv
  <2> QED BY <2>3, <2>4 DEF Holds, Own, Time, Cell, pastVars
<1>3. CountInv' BY <1>2 DEF CountInv
<1> QED BY <1>1, <1>3 DEF MatrixInv

LEMMA NextPairRange ==
    ASSUME row \in Nodes, col \in Nodes, NEW next, NextPair(next)
    PROVE  row' \in Nodes /\ col' \in Nodes /\ pc' \in {pc, next}
BY NAssumption DEF Nodes, NextPair

(* The rest of the script does not touch what STREAM left.                 *)
LEMMA OtherStep ==
    ASSUME MatrixInv, UNCHANGED <<stream, bandwidth, attempt>>,
           row' \in Nodes, col' \in Nodes, pc' \notin {"stream", "collect"},
           pc' # "off" => pc # "off"
    PROVE  MatrixInv'
<1>1. FileInv' BY DEF MatrixInv, FileInv
<1>2. CompleteIsRight'
  BY DEF MatrixInv, CountInv, CompleteIsRight, Holds, Own, Time, Cell
<1>3. CountInv' BY <1>2 DEF CountInv
<1> QED BY <1>1, <1>3 DEF MatrixInv

LEMMA StepCorrect == MatrixInv /\ [Next]_vars => MatrixInv'
<1> SUFFICES ASSUME MatrixInv, [Next]_vars PROVE MatrixInv' OBVIOUS
<1> USE DEF outVars, pastVars, loopVars
<1>0. row \in Nodes /\ col \in Nodes BY DEF MatrixInv, FileInv
<1>1. CASE Start BY <1>1, StartStep
<1>2. CASE RunStream BY <1>2, RunStreamStep
<1>3. CASE CollectStream BY <1>3, CollectStep
<1>4. CASE Interrupt BY <1>0, <1>4, OtherStep DEF Interrupt
<1>5. CASE StreamFactor
  <2>1. row' \in Nodes /\ col' \in Nodes /\ pc' \in {"factor", "publish"}
    BY <1>0, <1>5, NextPairRange DEF StreamFactor
  <2> QED BY <1>5, <2>1, OtherStep DEF StreamFactor
<1>6. CASE RunLatency
  <2>1. row' \in Nodes /\ col' \in Nodes /\ pc' \in {"latency", "lcollect"}
    BY <1>0, <1>6, NextPairRange DEF RunLatency
  <2> QED BY <1>6, <2>1, OtherStep DEF RunLatency
<1>7. CASE LatencyFactor
  <2>1. row' \in Nodes /\ col' \in Nodes /\ pc' \in {"lfactor", "lpublish"}
    BY <1>0, <1>7, NextPairRange DEF LatencyFactor
  <2> QED BY <1>7, <2>1, OtherStep DEF LatencyFactor
<1>8. CASE PublishStream \/ CollectLatency \/ PublishFactor \/ PublishLatency
  BY <1>0, <1>8, OtherStep DEF PublishStream, CollectLatency, PublishFactor, PublishLatency
<1>9. CASE UNCHANGED vars
  <2> USE <1>9 DEF vars, workVars, failVars
  <2>1. FileInv' BY DEF MatrixInv, FileInv
  <2>2. CountInv'
    BY DEF MatrixInv, CountInv, CompleteIsRight, RightUpTo, Holds, Own, Time, Cell
  <2> QED BY <2>1, <2>2 DEF MatrixInv
<1> QED BY <1>1, <1>2, <1>3, <1>4, <1>5, <1>6, <1>7, <1>8, <1>9 DEF Next

THEOREM MatrixCorrect == Spec => []MatrixInv
<1>1. Init => MatrixInv BY InitCorrect
<1>2. MatrixInv /\ [Next]_vars => MatrixInv' BY StepCorrect
<1> QED BY <1>1, <1>2, PTL DEF Spec

(* All lines of the bandwidth matrix are of the attempt that published it, *)
(* however often the script was interrupted before.                        *)
THEOREM FreshCorrect == Spec => []FreshBandwidth
<1>1. MatrixInv => FreshBandwidth BY DEF MatrixInv, FileInv, FreshBandwidth
<1> QED BY <1>1, MatrixCorrect, PTL

(* A bandwidth matrix with all its cells is right, for any number of nodes *)
(* and whatever runs failed.                                               *)
THEOREM CompleteCorrect == Spec => []CompleteIsRight
<1>1. MatrixInv => CompleteIsRight BY DEF MatrixInv, CountInv
<1> QED BY <1>1, MatrixCorrect, PTL

-----------------------------------------------------------------------------
(* The matrices of a run of the whole script.  Up to the first run of tool *)
(* t that fails, the lines of a file are those of their own pairs, as far  *)
(* as the loop has come; the next line lands in its place because there    *)
(* are as many lines as turns.                                             *)
Turn == row * N + col

Sound(t, p) == Undisturbed(t, p) /\ Undisturbed(t, <<p[1], p[1]>>)

LinesRight(t, lines, m) ==
    \A p \in Pairs : Cell(p) <= m /\ Undisturbed(t, p) => Holds(lines, p, Own(t, p))

QuotientsRight(t, lines, m) ==
    \A p \in Pairs : Cell(p) <= m /\ Sound(t, p) => Holds(lines, p, OwnFactor(t, p))

TableRight(t) == \A p \in Pairs : Undisturbed(t, p) => tabela[p] = Own(t, p)

NoFailure(t) == \A f \in failed : f[1] # t

(* The file that the runs of tool t fill.                                  *)
Filling(t, lines) ==
    /\ LinesRight(t, lines, Turn)
    /\ ~ leftover /\ NoFailure(t) => Len(lines) = Turn
    /\ \A f \in failed : f[1] = t => Cell(<<f[2], f[3]>>) <= Turn

ScriptWords == {"unset", "zero", "junk", "blank"}
Operand == Times \cup [word : ScriptWords]
Entry == Operand \cup [num : Operand, div : Operand]

(* The parts of the script, in order.                                      *)
AtLatency == {"latency", "lcollect", "lfactor", "lpublish", "last", "done"}
AtFactor == {"factor", "publish"} \cup AtLatency
AtStream == {"stream", "collect"} \cup AtFactor
InLoop == {"stream", "factor", "latency", "lfactor"}

WorkInv ==
    /\ pc \in AtStream \cup {"off"}
    /\ pc \notin InLoop \cup {"off"} => row = 0 /\ col = 0
    /\ failed \subseteq Tools \X Nodes \X Nodes
    /\ pc \in AtStream \ AtLatency => NoFailure("lat_mem_rd")
    /\ tabela \in [Pairs -> Operand]
    /\ tnumafactor \in Seq(Entry) /\ tlatencies \in Seq(Operand)
    /\ tlmbench \in Seq(Entry) /\ tlatency \in Seq(Entry)
    /\ numafactor_lmbench \in Seq(Entry) /\ latency_lmbench \in Seq(Entry)
    /\ ~ leftover =>
          /\ pc \in {"stream", "collect"} => tnumafactor = <<>>
          /\ pc \in AtStream \ AtLatency => tlatencies = <<>>
          /\ pc \in AtStream \ {"lfactor", "lpublish", "last", "done"} =>
                tlmbench = <<>> /\ tlatency = <<>>

StreamInv ==
    /\ pc = "stream" => Filling("stream", stream)
    /\ pc = "collect" => LinesRight("stream", stream, N * N)
    /\ pc = "factor" => /\ TableRight("stream")
                        /\ QuotientsRight("stream", tnumafactor, Turn)
                        /\ ~ leftover => Len(tnumafactor) = Turn
    /\ pc = "publish" => QuotientsRight("stream", tnumafactor, N * N)
    /\ pc \in AtFactor => LinesRight("stream", bandwidth, N * N)
    /\ pc \in AtLatency => QuotientsRight("stream", numafactor_stream, N * N)

LatencyInv ==
    /\ pc = "latency" => Filling("lat_mem_rd", tlatencies)
    /\ pc = "lcollect" => LinesRight("lat_mem_rd", tlatencies, N * N)
    /\ pc = "lfactor" => /\ TableRight("lat_mem_rd")
                         /\ QuotientsRight("lat_mem_rd", tlmbench, Turn)
                         /\ LinesRight("lat_mem_rd", tlatency, Turn)
                         /\ ~ leftover => Len(tlmbench) = Turn /\ Len(tlatency) = Turn
    /\ pc = "lpublish" => QuotientsRight("lat_mem_rd", tlmbench, N * N)
    /\ pc \in {"lpublish", "last"} => LinesRight("lat_mem_rd", tlatency, N * N)
    /\ pc \in {"last", "done"} => QuotientsRight("lat_mem_rd", numafactor_lmbench, N * N)
    /\ pc = "done" => LinesRight("lat_mem_rd", latency_lmbench, N * N)

PipelineInv == MatrixInv /\ WorkInv /\ StreamInv /\ LatencyInv

(* A measurement is not a word.                                            *)
LEMMA NotAWord ==
    ASSUME NEW t, NEW p, NEW w PROVE Own(t, p) # Word(w)
<1>1. DOMAIN Own(t, p) = {"tool", "run", "cpu", "mem"} BY DEF Own, Time
<1>2. DOMAIN Word(w) = {"word"} BY DEF Word
<1> QED BY <1>1, <1>2

LEMMA TurnFacts ==
    ASSUME row \in Nodes, col \in Nodes
    PROVE  /\ Turn \in Nat /\ N * N \in Nat \ {0} /\ Turn + 1 <= N * N
           /\ <<row, col>> \in Pairs /\ Cell(<<row, col>>) = Turn + 1
<1>1. <<row, col>> \in Pairs BY DEF Pairs
<1>2. Cell(<<row, col>>) = Turn + 1 BY DEF Cell, Turn
<1>3. Turn \in Nat /\ N * N \in Nat \ {0}
  <2>1. row \in Nat /\ col \in Nat /\ N \in Nat \ {0} BY NAssumption DEF Nodes
  <2>2. row * N \in Nat /\ N * N \in Nat \ {0} BY <2>1
  <2> QED BY <2>1, <2>2 DEF Turn
<1>4. Cell(<<row, col>>) \in 1 .. N * N BY <1>1, CellRange
<1> QED BY <1>1, <1>2, <1>3, <1>4

(* A turn of any of the loops.                                             *)
LEMMA NextTurn ==
    ASSUME row \in Nodes, col \in Nodes, NEW next, next # pc, NextPair(next)
    PROVE  /\ row' \in Nodes /\ col' \in Nodes /\ pc' \in {pc, next}
           /\ pc' = pc => Turn' = Turn + 1
           /\ pc' = next => N * N = Turn + 1 /\ row' = 0 /\ col' = 0
<1> USE NAssumption DEF Nodes, NextPair, Turn
<1>1. CASE col + 1 < N
  <2>1. row' = row /\ col' = col + 1 /\ pc' = pc BY <1>1
  <2>2. row * N \in Nat OBVIOUS
  <2>3. row' * N + col' = row * N + col + 1 BY <2>1, <2>2
  <2> QED BY <1>1, <2>1, <2>3
<1>2. CASE ~ (col + 1 < N) /\ row + 1 < N
  <2>1. (row + 1) * N = row * N + N /\ col = N - 1 /\ row * N \in Nat BY <1>2
  <2>2. row' = row + 1 /\ col' = 0 /\ pc' = pc BY <1>2
  <2>3. (row + 1) * N + 0 = row * N + col + 1 BY <2>1
  <2>4. row' * N + col' = row * N + col + 1 BY <2>2, <2>3
  <2> QED BY <1>2, <2>2, <2>4
<1>3. CASE ~ (col + 1 < N) /\ ~ (row + 1 < N)
  <2>1. row = N - 1 /\ col = N - 1 BY <1>3
  <2>2. (N - 1) * N + (N - 1) + 1 = N * N BY <2>1
  <2>3. row' = 0 /\ col' = 0 /\ pc' = next BY <1>3
  <2> QED BY <2>1, <2>2, <2>3
<1> QED BY <1>1, <1>2, <1>3

(* A file grows by the line of the current pair; what was right stays so.  *)
LEMMA LinesGrow ==
    ASSUME row \in Nodes, col \in Nodes, NEW q, q = <<row, col>>,
           NEW t, NEW old, NEW new, LinesRight(t, old, Turn),
           failed \subseteq failed', leftover' = leftover, attempt' = attempt,
           \A k \in DOMAIN old : k \in DOMAIN new /\ new[k] = old[k],
           Undisturbed(t, q)' => Turn + 1 \in DOMAIN new /\ new[Turn + 1] = Own(t, q)
    PROVE  \A p \in Pairs : Cell(p) <= Turn + 1 /\ Undisturbed(t, p)' =>
                                Holds(new, p, Own(t, p)')
<1> SUFFICES ASSUME NEW p \in Pairs, Cell(p) <= Turn + 1, Undisturbed(t, p)'
             PROVE  Holds(new, p, Own(t, p)')
  OBVIOUS
<1>1. Own(t, p)' = Own(t, p) BY DEF Own, Time
<1>2. Undisturbed(t, p) BY DEF Undisturbed, Cell
<1>3. CASE Cell(p) <= Turn BY <1>1, <1>2, <1>3 DEF LinesRight, Holds
<1>4. CASE ~ (Cell(p) <= Turn)
  <2>1. p = q BY <1>4, NextCell DEF Turn
  <2>2. Cell(p) = Turn + 1 BY <2>1, TurnFacts
  <2> QED BY <1>1, <2>1, <2>2 DEF Holds
<1> QED BY <1>3, <1>4

(* Likewise a file of quotients, to which no run adds failures.            *)
LEMMA QuotientsGrow ==
    ASSUME row \in Nodes, col \in Nodes, NEW q, q = <<row, col>>,
           NEW t, NEW old, NEW new, QuotientsRight(t, old, Turn),
           \A k \in DOMAIN old : k \in DOMAIN new /\ new[k] = old[k],
           Sound(t, q) => Turn + 1 \in DOMAIN new /\ new[Turn + 1] = OwnFactor(t, q)
    PROVE  QuotientsRight(t, new, Turn + 1)
<1> SUFFICES ASSUME NEW p \in Pairs, Cell(p) <= Turn + 1, Sound(t, p)
             PROVE  Holds(new, p, OwnFactor(t, p))
  BY DEF QuotientsRight
<1>1. CASE Cell(p) <= Turn BY <1>1 DEF QuotientsRight, Holds
<1>2. CASE ~ (Cell(p) <= Turn)
  <2>1. p = q BY <1>2, NextCell DEF Turn
  <2>2. Cell(p) = Turn + 1 BY <2>1, TurnFacts
  <2> QED BY <2>1, <2>2 DEF Holds
<1> QED BY <1>1, <1>2

(* What a quotient is, when the table is right.                            *)
LEMMA QuotientRight ==
    ASSUME NEW t, TableRight(t), NEW q \in Pairs, Sound(t, q)
    PROVE  Fator(q) = OwnFactor(t, q)
<1>1. <<q[1], q[1]>> \in Pairs BY DEF Pairs
<1>2. tabela[q] = Own(t, q) /\ tabela[<<q[1], q[1]>>] = Own(t, <<q[1], q[1]>>)
  BY <1>1 DEF TableRight, Sound
<1>3. Own(t, q) # Word("unset") /\ Own(t, <<q[1], q[1]>>) \notin {Word("unset"), Word("zero")}
  BY NotAWord
<1> QED BY <1>2, <1>3 DEF Fator, OwnFactor

(* The table, when the file is right.                                      *)
LEMMA TableFilled ==
    ASSUME NEW t, NEW lines, LinesRight(t, lines, N * N), NEW p \in Pairs, Undisturbed(t, p)
    PROVE  Tabela(lines)[p] = Own(t, p)
<1>1. Cell(p) <= N * N
  <2>1. Cell(p) \in 1 .. N * N /\ N * N \in Nat BY CellRange, NAssumption
  <2> QED BY <2>1
<1>2. Cell(p) \in DOMAIN lines /\ lines[Cell(p)] = Own(t, p) BY <1>1 DEF LinesRight, Holds
<1> QED BY <1>2 DEF Tabela, Cell

LEMMA FactorType ==
    ASSUME tabela \in [Pairs -> Operand], NEW p \in Pairs
    PROVE  Fator(p) \in Entry /\ tabela[p] \in Entry /\ Word("blank") \in Entry
<1>1. <<p[1], p[1]>> \in Pairs BY DEF Pairs
<1>2. tabela[p] \in Operand /\ tabela[<<p[1], p[1]>>] \in Operand BY <1>1
<1>3. Word("blank") \in Operand BY DEF Word, Operand, ScriptWords
<1> QED BY <1>2, <1>3 DEF Fator, Entry

(* How a line is appended.                                                 *)
LEMMA AppendFacts ==
    ASSUME NEW S, NEW old \in Seq(S), NEW x \in S
    PROVE  /\ Append(old, x) \in Seq(S) /\ Len(Append(old, x)) = Len(old) + 1
           /\ Len(old) + 1 \in DOMAIN Append(old, x) /\ Append(old, x)[Len(old) + 1] = x
           /\ \A k \in DOMAIN old : k \in DOMAIN Append(old, x) /\ Append(old, x)[k] = old[k]
OBVIOUS

(* What is right stays right when more runs have failed.                   *)
LEMMA Kept ==
    ASSUME UNCHANGED <<attempt, leftover>>, failed \subseteq failed'
    PROVE  /\ \A t, lines, m : LinesRight(t, lines, m) =>
                  \A p \in Pairs : Cell(p) <= m /\ Undisturbed(t, p)' => Holds(lines, p, Own(t, p)')
           /\ \A t, lines, m : QuotientsRight(t, lines, m) =>
                  \A p \in Pairs : Cell(p) <= m /\ Sound(t, p)' => Holds(lines, p, OwnFactor(t, p)')
BY DEF LinesRight, QuotientsRight, Sound, Undisturbed, Holds, Own, OwnFactor, Time, Cell

(* One run of tool t: its line is appended, or the failure is noted.       *)
LEMMA RunGrows ==
    ASSUME row \in Nodes, col \in Nodes, NEW q, q = <<row, col>>,
           NEW t \in Tools, NEW S, NEW old \in Seq(S), NEW new, Own(t, q) \in S, Filling(t, old),
           attempt' = attempt, leftover' = leftover, failed \subseteq Tools \X Nodes \X Nodes,
           \/ new = Append(old, Own(t, q)) /\ failed' = failed
           \/ /\ failed' = failed \cup {<<t, row, col>>}
              /\ \A k \in DOMAIN old : k \in DOMAIN new /\ new[k] = old[k]
    PROVE  /\ \A p \in Pairs : Cell(p) <= Turn + 1 /\ Undisturbed(t, p)' =>
                                  Holds(new, p, Own(t, p)')
           /\ ~ leftover' /\ (\A f \in failed' : f[1] # t) => Len(new) = Turn + 1
           /\ \A f \in failed' : f[1] = t => Cell(<<f[2], f[3]>>) <= Turn + 1
<1>0. Turn \in Nat /\ q \in Pairs /\ Cell(q) = Turn + 1 BY TurnFacts
<1>1. \A k \in DOMAIN old : k \in DOMAIN new /\ new[k] = old[k] BY AppendFacts
<1>2. \A f \in failed : /\ f[1] = t => Cell(<<f[2], f[3]>>) <= Turn
                         /\ Cell(<<f[2], f[3]>>) \in Nat
  <2> SUFFICES ASSUME NEW f \in failed PROVE Cell(<<f[2], f[3]>>) \in Nat BY DEF Filling
  <2>1. <<f[2], f[3]>> \in Pairs BY DEF Pairs
  <2> QED BY <2>1, CellRange, NAssumption
<1>3. ASSUME Undisturbed(t, q)'
      PROVE  Turn + 1 \in DOMAIN new /\ new[Turn + 1] = Own(t, q)
  <2>1. \A f \in failed' : f[1] = t => Cell(<<f[2], f[3]>>) > Cell(q)
    BY <1>3 DEF Undisturbed, Cell
  <2>2. <<t, row, col>> \notin failed'
    <3>1. ASSUME <<t, row, col>> \in failed' PROVE FALSE
      <4>1. Cell(<<row, col>>) > Cell(q) BY <2>1, <3>1
      <4> QED BY <1>0, <4>1
    <3> QED BY <3>1
  <2>3. new = Append(old, Own(t, q)) /\ failed' = failed BY <2>2
  <2>4. NoFailure(t)
    <3> SUFFICES ASSUME NEW f \in failed, f[1] = t PROVE FALSE BY DEF NoFailure
    <3>1. PICK x \in Nat : x = Cell(<<f[2], f[3]>>) BY <1>2
    <3>2. x <= Turn /\ x > Turn + 1 BY <1>0, <1>2, <2>1, <2>3, <3>1
    <3> QED BY <1>0, <3>2
  <2>5. Len(old) = Turn BY <1>3, <2>4 DEF Filling, Undisturbed
  <2> QED BY <2>3, <2>5, AppendFacts
<1>4. failed \subseteq failed' OBVIOUS
<1>5. LinesRight(t, old, Turn) BY DEF Filling
<1>6. \A p \in Pairs : Cell(p) <= Turn + 1 /\ Undisturbed(t, p)' => Holds(new, p, Own(t, p)')
  BY <1>1, <1>3, <1>4, <1>5, LinesGrow
<1>7. ASSUME ~ leftover', \A f \in failed' : f[1] # t PROVE Len(new) = Turn + 1
  <2>1. <<t, row, col>>[1] = t OBVIOUS
  <2>2. new = Append(old, Own(t, q)) /\ failed' = failed BY <1>7, <2>1
  <2>3. Len(old) = Turn BY <1>7, <2>2 DEF Filling, NoFailure
  <2> QED BY <2>2, <2>3, AppendFacts
<1>8. ASSUME NEW f \in failed', f[1] = t PROVE Cell(<<f[2], f[3]>>) <= Turn + 1
  <2>1. CASE f = <<t, row, col>>
    <3>1. Cell(<<f[2], f[3]>>) = Turn + 1 BY <1>0, <2>1
    <3> QED BY <1>0, <3>1
  <2>2. CASE f # <<t, row, col>>
    <3>1. f \in failed BY <2>2
    <3>2. PICK x \in Nat : x = Cell(<<f[2], f[3]>>) /\ x <= Turn BY <1>2, <1>8, <3>1
    <3>3. x <= Turn + 1 BY <1>0, <3>2
    <3> QED BY <3>2, <3>3
  <2> QED BY <2>1, <2>2
<1> QED BY <1>6, <1>7, <1>8

(* What the loop and the files are when a loop begins.                     *)
AtOrigin == row = 0 /\ col = 0
NoneYet == Turn = 0 /\ \A t, lines : LinesRight(t, lines, Turn) /\ QuotientsRight(t, lines, Turn)

LEMMA LoopBegins == AtOrigin => NoneYet
<1> SUFFICES ASSUME row = 0, col = 0 PROVE NoneYet BY DEF AtOrigin
<1>1. Turn = 0 BY NAssumption DEF Turn
<1>2. \A p \in Pairs : ~ (Cell(p) <= 0)
  <2>1. \A p \in Pairs : Cell(p) \in 1 .. N * N /\ N * N \in Nat BY CellRange, NAssumption
  <2> QED BY <2>1
<1> QED BY <1>1, <1>2 DEF LinesRight, QuotientsRight, NoneYet

LEMMA LoopBeginsNext ==
    ASSUME row' = 0, col' = 0
    PROVE  /\ Turn' = 0 /\ \A t : \A lines : LinesRight(t, lines, Turn)'
           /\ \A t : \A lines : QuotientsRight(t, lines, Turn)'
<1>1. AtOrigin' BY DEF AtOrigin
<1>2. NoneYet' BY <1>1, LoopBegins, PTL
<1> QED BY <1>2 DEF NoneYet

LEMMA PipelineInit == Init => PipelineInv
<1> SUFFICES ASSUME Init PROVE PipelineInv OBVIOUS
<1> USE DEF Init, InLoop, AtStream, AtFactor, AtLatency
<1>1. MatrixInv BY InitCorrect
<1>2. WorkInv
  <2>1. Word("unset") \in Operand BY DEF Word, Operand, ScriptWords
  <2> QED BY <2>1 DEF WorkInv, NoFailure
<1>3. StreamInv /\ LatencyInv BY DEF StreamInv, LatencyInv
<1> QED BY <1>1, <1>2, <1>3 DEF PipelineInv

LEMMA StartPipeline ==
    ASSUME PipelineInv, Start PROVE WorkInv' /\ StreamInv' /\ LatencyInv'
<1> USE DEF Start, InLoop, AtStream, AtFactor, AtLatency
<1>1. WorkInv'
  <2>1. Word("unset") \in Operand BY DEF Word, Operand, ScriptWords
  <2>2. ~ leftover' => tnumafactor' = <<>> /\ tlatencies' = <<>> /\ tlmbench' = <<>> /\ tlatency' = <<>>
    BY DEF workVars
  <2>3. tnumafactor' \in Seq(Entry) /\ tlatencies' \in Seq(Operand)
        /\ tlmbench' \in Seq(Entry) /\ tlatency' \in Seq(Entry)
    BY DEF PipelineInv, WorkInv, workVars
  <2> QED BY <2>1, <2>2, <2>3 DEF WorkInv, NoFailure
<1>2. StreamInv'
  <2>1. Turn' = 0 /\ LinesRight("stream", stream, Turn)' BY LoopBeginsNext
  <2>2. Filling("stream", stream)' BY <2>1 DEF Filling
  <2> QED BY <2>2 DEF StreamInv
<1>3. LatencyInv' BY DEF LatencyInv
<1> QED BY <1>1, <1>2, <1>3

LEMMA InterruptPipeline ==
    ASSUME PipelineInv, Interrupt PROVE WorkInv' /\ StreamInv' /\ LatencyInv'
<1> USE DEF Interrupt, InLoop, AtStream, AtFactor, AtLatency, loopVars, workVars, outVars,
            pastVars, failVars
<1>1. WorkInv' BY DEF PipelineInv, WorkInv
<1>2. StreamInv' /\ LatencyInv' BY DEF StreamInv, LatencyInv
<1> QED BY <1>1, <1>2

LEMMA RunStreamPipeline ==
    ASSUME PipelineInv, RunStream PROVE WorkInv' /\ StreamInv' /\ LatencyInv'
<1> USE DEF RunStream, InLoop, AtStream, AtFactor, AtLatency
<1>1. /\ row \in Nodes /\ col \in Nodes /\ stream \in Seq(Times) /\ attempt \in 1 .. MaxAttempts
      /\ failed \subseteq Tools \X Nodes \X Nodes /\ Filling("stream", stream)
      /\ NoFailure("lat_mem_rd")
  BY AttemptAssumption DEF PipelineInv, MatrixInv, FileInv, WorkInv, StreamInv
<1>2. /\ row' \in Nodes /\ col' \in Nodes /\ pc' \in {"stream", "collect"}
      /\ pc' = "stream" => Turn' = Turn + 1
      /\ pc' = "collect" => N * N = Turn + 1 /\ row' = 0 /\ col' = 0
  BY <1>1, NextTurn
<1>3. PICK q : q = <<row, col>> OBVIOUS
<1>4. Own("stream", q) \in Times /\ Own("stream", q) = Time("stream", row, col)
  BY <1>1, <1>3 DEF Own, Time, Times, Tools
<1>5. \/ stream' = Append(stream, Own("stream", q)) /\ failed' = failed
      \/ failed' = failed \cup {<<"stream", row, col>>} /\ stream' = stream
  BY <1>4 DEF failVars, Fails
<1>6. attempt' = attempt /\ leftover' = leftover BY DEF pastVars
<1>7. /\ \A p \in Pairs : Cell(p) <= Turn + 1 /\ Undisturbed("stream", p)' =>
                              Holds(stream', p, Own("stream", p)')
      /\ ~ leftover' /\ (\A f \in failed' : f[1] # "stream") => Len(stream') = Turn + 1
      /\ \A f \in failed' : f[1] = "stream" => Cell(<<f[2], f[3]>>) <= Turn + 1
  <2>1. \/ stream' = Append(stream, Own("stream", q)) /\ failed' = failed
        \/ /\ failed' = failed \cup {<<"stream", row, col>>}
           /\ \A k \in DOMAIN stream : k \in DOMAIN stream' /\ stream'[k] = stream[k]
    BY <1>5
  <2>2. "stream" \in Tools BY DEF Tools
  <2> QED BY <1>1, <1>3, <1>4, <1>6, <2>1, <2>2, RunGrows
<1>8. WorkInv'
  <2>1. failed' \subseteq Tools \X Nodes \X Nodes BY <1>1, <1>5 DEF Tools
  <2>2. NoFailure("lat_mem_rd")' BY <1>1, <1>5 DEF NoFailure
  <2> QED BY <1>2, <1>6, <2>1, <2>2 DEF PipelineInv, WorkInv, workVars
<1>9. StreamInv'
  <2>1. ASSUME pc' = "stream" PROVE Filling("stream", stream)'
    <3>1. Turn' = Turn + 1 BY <1>2, <2>1
    <3> QED BY <1>7, <3>1 DEF Filling, LinesRight, NoFailure, Cell, Holds
  <2>2. ASSUME pc' = "collect" PROVE LinesRight("stream", stream, N * N)'
    <3>1. N * N = Turn + 1 BY <1>2, <2>2
    <3> QED BY <1>7, <3>1 DEF LinesRight, Cell, Holds
  <2> QED BY <1>2, <2>1, <2>2 DEF StreamInv
<1>10. LatencyInv' BY <1>2 DEF LatencyInv
<1> QED BY <1>8, <1>9, <1>10

LEMMA CollectStreamPipeline ==
    ASSUME PipelineInv, CollectStream PROVE WorkInv' /\ StreamInv' /\ LatencyInv'
<1> USE DEF CollectStream, InLoop, AtStream, AtFactor, AtLatency, loopVars, workVars, pastVars,
            failVars
<1>1. LinesRight("stream", stream, N * N) /\ row = 0 /\ col = 0
  BY DEF PipelineInv, WorkInv, StreamInv
<1>2. tabela' \in [Pairs -> Operand]
  <2>1. stream \in Seq(Times) /\ tabela \in [Pairs -> Operand]
    BY DEF PipelineInv, MatrixInv, FileInv, WorkInv
  <2>2. \A k \in DOMAIN stream : stream[k] \in Operand BY <2>1 DEF Operand
  <2> QED BY <2>1, <2>2 DEF Tabela
<1>3. WorkInv' BY <1>1, <1>2 DEF PipelineInv, WorkInv, NoFailure
<1>4. StreamInv'
  <2>1. TableRight("stream")'
    BY <1>1, TableFilled DEF TableRight, Undisturbed, Own, Time, Cell
  <2>2. LinesRight("stream", bandwidth, N * N)' BY <1>1, Kept DEF LinesRight, Cell, Holds
  <2>3. Turn' = 0 /\ QuotientsRight("stream", tnumafactor, Turn)' BY <1>1, LoopBeginsNext
  <2>4. ~ leftover' => Len(tnumafactor') = Turn' BY <2>3 DEF PipelineInv, WorkInv
  <2> QED BY <2>1, <2>2, <2>3, <2>4 DEF StreamInv
<1>5. LatencyInv' BY DEF LatencyInv
<1> QED BY <1>3, <1>4, <1>5

LEMMA StreamFactorPipeline ==
    ASSUME PipelineInv, StreamFactor PROVE WorkInv' /\ StreamInv' /\ LatencyInv'
<1> USE DEF StreamFactor, InLoop, AtStream, AtFactor, AtLatency
<1>1. /\ row \in Nodes /\ col \in Nodes /\ tabela \in [Pairs -> Operand]
      /\ tnumafactor \in Seq(Entry) /\ TableRight("stream")
      /\ QuotientsRight("stream", tnumafactor, Turn) /\ (~ leftover => Len(tnumafactor) = Turn)
      /\ LinesRight("stream", bandwidth, N * N)
  BY DEF PipelineInv, MatrixInv, FileInv, WorkInv, StreamInv
<1>2. /\ row' \in Nodes /\ col' \in Nodes /\ pc' \in {"factor", "publish"}
      /\ pc' = "factor" => Turn' = Turn + 1
      /\ pc' = "publish" => N * N = Turn + 1 /\ row' = 0 /\ col' = 0
  BY <1>1, NextTurn
<1>3. PICK q \in Pairs : q = <<row, col>> BY <1>1, TurnFacts
<1>4. tnumafactor' = Append(tnumafactor, Fator(q)) /\ Fator(q) \in Entry
  BY <1>1, <1>3, FactorType
<1>5. UNCHANGED <<tabela, attempt, leftover, failed, bandwidth, tlatencies, tlmbench, tlatency>>
  BY DEF outVars, pastVars, failVars
<1>6. QuotientsRight("stream", tnumafactor', Turn + 1)
  <2>1. ASSUME Sound("stream", q)
        PROVE  Turn + 1 \in DOMAIN tnumafactor' /\ tnumafactor'[Turn + 1] = OwnFactor("stream", q)
    <3>1. Len(tnumafactor) = Turn BY <1>1, <2>1 DEF Sound, Undisturbed
    <3>2. Fator(q) = OwnFactor("stream", q) BY <1>1, <2>1, QuotientRight
    <3> QED BY <1>1, <1>4, <3>1, <3>2, AppendFacts
  <2>2. \A k \in DOMAIN tnumafactor : k \in DOMAIN tnumafactor' /\ tnumafactor'[k] = tnumafactor[k]
    BY <1>1, <1>4, AppendFacts
  <2>3. PICK new : new = tnumafactor' OBVIOUS
  <2> QED BY <1>1, <1>3, <2>1, <2>2, <2>3, QuotientsGrow
<1>7. WorkInv'
  <2>1. tnumafactor' \in Seq(Entry) BY <1>1, <1>4, AppendFacts
  <2>2. numafactor_lmbench' \in Seq(Entry) /\ latency_lmbench' \in Seq(Entry)
    BY DEF PipelineInv, WorkInv, outVars
  <2> QED BY <1>2, <1>5, <2>1, <2>2 DEF PipelineInv, WorkInv, NoFailure
<1>8. StreamInv'
  <2>1. TableRight("stream")' BY <1>1, <1>5 DEF TableRight, Undisturbed, Own, Time, Cell
  <2>2. \A p \in Pairs : Cell(p) <= Turn + 1 /\ Sound("stream", p)' =>
                             Holds(tnumafactor', p, OwnFactor("stream", p)')
    BY <1>5, <1>6, Kept
  <2>3. LinesRight("stream", bandwidth, N * N)' BY <1>1, <1>5, Kept DEF LinesRight, Cell, Holds
  <2>4. ~ leftover' => Len(tnumafactor') = Turn + 1 BY <1>1, <1>4, <1>5, AppendFacts
  <2>5. ASSUME pc' = "factor" PROVE QuotientsRight("stream", tnumafactor, Turn)'
    <3>1. Turn' = Turn + 1 BY <1>2, <2>5
    <3> QED BY <2>2, <3>1 DEF QuotientsRight, Cell, Holds
  <2>6. ASSUME pc' = "publish" PROVE QuotientsRight("stream", tnumafactor, N * N)'
    <3>1. N * N = Turn + 1 BY <1>2, <2>6
    <3> QED BY <2>2, <3>1 DEF QuotientsRight, Cell, Holds
  <2> QED BY <1>2, <2>1, <2>3, <2>4, <2>5, <2>6 DEF StreamInv
<1>9. LatencyInv' BY <1>2 DEF LatencyInv
<1> QED BY <1>7, <1>8, <1>9

LEMMA PublishStreamPipeline ==
    ASSUME PipelineInv, PublishStream PROVE WorkInv' /\ StreamInv' /\ LatencyInv'
<1> USE DEF PublishStream, InLoop, AtStream, AtFactor, AtLatency, loopVars, pastVars, failVars
<1>1. /\ QuotientsRight("stream", tnumafactor, N * N) /\ LinesRight("stream", bandwidth, N * N)
      /\ row = 0 /\ col = 0 /\ NoFailure("lat_mem_rd")
  BY DEF PipelineInv, WorkInv, StreamInv
<1>2. WorkInv'
  <2>1. tnumafactor' \in Seq(Entry) OBVIOUS
  <2> QED BY <2>1 DEF PipelineInv, WorkInv
<1>3. StreamInv'
  <2>1. QuotientsRight("stream", numafactor_stream, N * N)'
    BY <1>1, Kept DEF QuotientsRight, Cell, Holds
  <2>2. LinesRight("stream", bandwidth, N * N)' BY <1>1, Kept DEF LinesRight, Cell, Holds
  <2> QED BY <2>1, <2>2 DEF StreamInv
<1>4. LatencyInv'
  <2>1. Turn' = 0 /\ LinesRight("lat_mem_rd", tlatencies, Turn)' BY <1>1, LoopBeginsNext
  <2>2. ~ leftover' => Len(tlatencies') = 0 BY DEF PipelineInv, WorkInv
  <2>3. Filling("lat_mem_rd", tlatencies)' BY <1>1, <2>1, <2>2 DEF Filling, NoFailure
  <2> QED BY <2>3 DEF LatencyInv
<1> QED BY <1>2, <1>3, <1>4

LEMMA RunLatencyPipeline ==
    ASSUME PipelineInv, RunLatency PROVE WorkInv' /\ StreamInv' /\ LatencyInv'
<1> USE DEF RunLatency, InLoop, AtStream, AtFactor, AtLatency
<1>1. /\ row \in Nodes /\ col \in Nodes /\ tlatencies \in Seq(Operand)
      /\ attempt \in 1 .. MaxAttempts /\ failed \subseteq Tools \X Nodes \X Nodes
      /\ Filling("lat_mem_rd", tlatencies) /\ LinesRight("stream", bandwidth, N * N)
      /\ QuotientsRight("stream", numafactor_stream, N * N)
  BY AttemptAssumption DEF PipelineInv, MatrixInv, FileInv, WorkInv, StreamInv, LatencyInv
<1>2. /\ row' \in Nodes /\ col' \in Nodes /\ pc' \in {"latency", "lcollect"}
      /\ pc' = "latency" => Turn' = Turn + 1
      /\ pc' = "lcollect" => N * N = Turn + 1 /\ row' = 0 /\ col' = 0
  BY <1>1, NextTurn
<1>3. PICK q : q = <<row, col>> OBVIOUS
<1>4. Own("lat_mem_rd", q) \in Operand /\ Own("lat_mem_rd", q) = Time("lat_mem_rd", row, col)
  BY <1>1, <1>3 DEF Own, Time, Times, Tools, Operand
<1>5. \/ tlatencies' = Append(tlatencies, Own("lat_mem_rd", q)) /\ failed' = failed
      \/ /\ failed' = failed \cup {<<"lat_mem_rd", row, col>>}
         /\ \E lines \in Seq(Operand) : tlatencies' = tlatencies \o lines
  <2>1. {<<>>, <<Word("zero")>>, <<Word("junk")>>, <<Word("junk"), Word("junk")>>}
            \subseteq Seq(Operand)
    <3>1. Word("zero") \in Operand /\ Word("junk") \in Operand BY DEF Word, Operand, ScriptWords
    <3> QED BY <3>1
  <2> QED BY <1>4, <2>1 DEF failVars, Fails
<1>6. UNCHANGED <<tabela, attempt, leftover, bandwidth, numafactor_stream, tnumafactor, tlmbench,
                  tlatency>>
  BY DEF pastVars, outVars
<1>7. tlatencies' \in Seq(Operand)
      /\ \A k \in DOMAIN tlatencies : k \in DOMAIN tlatencies' /\ tlatencies'[k] = tlatencies[k]
  <2>1. CASE tlatencies' = Append(tlatencies, Own("lat_mem_rd", q))
    BY <1>1, <1>4, <2>1, AppendFacts
  <2>2. CASE \E lines \in Seq(Operand) : tlatencies' = tlatencies \o lines BY <1>1, <2>2
  <2> QED BY <1>5, <2>1, <2>2
<1>8. /\ \A p \in Pairs : Cell(p) <= Turn + 1 /\ Undisturbed("lat_mem_rd", p)' =>
                              Holds(tlatencies', p, Own("lat_mem_rd", p)')
      /\ ~ leftover' /\ (\A f \in failed' : f[1] # "lat_mem_rd") => Len(tlatencies') = Turn + 1
      /\ \A f \in failed' : f[1] = "lat_mem_rd" => Cell(<<f[2], f[3]>>) <= Turn + 1
  <2>1. \/ tlatencies' = Append(tlatencies, Own("lat_mem_rd", q)) /\ failed' = failed
        \/ /\ failed' = failed \cup {<<"lat_mem_rd", row, col>>}
           /\ \A k \in DOMAIN tlatencies : k \in DOMAIN tlatencies' /\ tlatencies'[k] = tlatencies[k]
    BY <1>5, <1>7
  <2>2. "lat_mem_rd" \in Tools BY DEF Tools
  <2> QED BY <1>1, <1>3, <1>4, <1>6, <2>1, <2>2, RunGrows
<1>9. failed \subseteq failed' BY <1>5
<1>10. WorkInv'
  <2>1. failed' \subseteq Tools \X Nodes \X Nodes BY <1>1, <1>5 DEF Tools
  <2>2. numafactor_lmbench' \in Seq(Entry) /\ latency_lmbench' \in Seq(Entry)
    BY DEF PipelineInv, WorkInv, outVars
  <2> QED BY <1>2, <1>6, <1>7, <2>1, <2>2 DEF PipelineInv, WorkInv
<1>11. StreamInv'
  <2>1. LinesRight("stream", bandwidth, N * N)'
    BY <1>1, <1>6, <1>9, Kept DEF LinesRight, Cell, Holds
  <2>2. QuotientsRight("stream", numafactor_stream, N * N)'
    BY <1>1, <1>6, <1>9, Kept DEF QuotientsRight, Cell, Holds
  <2> QED BY <1>2, <2>1, <2>2 DEF StreamInv
<1>12. LatencyInv'
  <2>1. ASSUME pc' = "latency" PROVE Filling("lat_mem_rd", tlatencies)'
    <3>1. Turn' = Turn + 1 BY <1>2, <2>1
    <3> QED BY <1>8, <3>1 DEF Filling, LinesRight, NoFailure, Cell, Holds
  <2>2. ASSUME pc' = "lcollect" PROVE LinesRight("lat_mem_rd", tlatencies, N * N)'
    <3>1. N * N = Turn + 1 BY <1>2, <2>2
    <3> QED BY <1>8, <3>1 DEF LinesRight, Cell, Holds
  <2> QED BY <1>2, <2>1, <2>2 DEF LatencyInv
<1> QED BY <1>10, <1>11, <1>12

(* What STREAM left is not touched by what follows.                        *)
LEMMA StreamKept ==
    ASSUME PipelineInv, pc \in AtLatency, pc' \in AtLatency,
           UNCHANGED <<attempt, leftover, failed, bandwidth, numafactor_stream>>
    PROVE  StreamInv'
<1> USE DEF AtStream, AtFactor, AtLatency
<1>1. LinesRight("stream", bandwidth, N * N) /\ QuotientsRight("stream", numafactor_stream, N * N)
  BY DEF PipelineInv, StreamInv
<1>2. LinesRight("stream", bandwidth, N * N)' BY <1>1, Kept DEF LinesRight, Cell, Holds
<1>3. QuotientsRight("stream", numafactor_stream, N * N)'
  BY <1>1, Kept DEF QuotientsRight, Cell, Holds
<1> QED BY <1>2, <1>3 DEF StreamInv

LEMMA CollectLatencyPipeline ==
    ASSUME PipelineInv, CollectLatency PROVE WorkInv' /\ StreamInv' /\ LatencyInv'
<1> USE DEF CollectLatency, InLoop, AtStream, AtFactor, AtLatency, loopVars, pastVars, failVars,
            outVars
<1>1. LinesRight("lat_mem_rd", tlatencies, N * N) /\ row = 0 /\ col = 0
  BY DEF PipelineInv, WorkInv, LatencyInv
<1>2. tabela' \in [Pairs -> Operand]
  <2>1. tlatencies \in Seq(Operand) /\ tabela \in [Pairs -> Operand] BY DEF PipelineInv, WorkInv
  <2>2. \A k \in DOMAIN tlatencies : tlatencies[k] \in Operand BY <2>1
  <2> QED BY <2>1, <2>2 DEF Tabela
<1>3. WorkInv' BY <1>1, <1>2 DEF PipelineInv, WorkInv
<1>4. StreamInv' BY StreamKept
<1>5. LatencyInv'
  <2>1. TableRight("lat_mem_rd")'
    BY <1>1, TableFilled DEF TableRight, Undisturbed, Own, Time, Cell
  <2>2. Turn' = 0 /\ QuotientsRight("lat_mem_rd", tlmbench, Turn)'
        /\ LinesRight("lat_mem_rd", tlatency, Turn)'
    BY <1>1, LoopBeginsNext
  <2>3. ~ leftover' => Len(tlmbench') = 0 /\ Len(tlatency') = 0 BY DEF PipelineInv, WorkInv
  <2> QED BY <2>1, <2>2, <2>3 DEF LatencyInv
<1> QED BY <1>3, <1>4, <1>5

LEMMA LatencyFactorPipeline ==
    ASSUME PipelineInv, LatencyFactor PROVE WorkInv' /\ StreamInv' /\ LatencyInv'
<1> USE DEF LatencyFactor, InLoop, AtStream, AtFactor, AtLatency
<1> DEFINE T == "lat_mem_rd"
<1>1. /\ row \in Nodes /\ col \in Nodes /\ tabela \in [Pairs -> Operand]
      /\ tlmbench \in Seq(Entry) /\ tlatency \in Seq(Entry) /\ TableRight(T)
      /\ QuotientsRight(T, tlmbench, Turn) /\ LinesRight(T, tlatency, Turn)
      /\ ~ leftover => Len(tlmbench) = Turn /\ Len(tlatency) = Turn
  BY DEF PipelineInv, MatrixInv, FileInv, WorkInv, LatencyInv
<1>2. /\ row' \in Nodes /\ col' \in Nodes /\ pc' \in {"lfactor", "lpublish"}
      /\ pc' = "lfactor" => Turn' = Turn + 1
      /\ pc' = "lpublish" => N * N = Turn + 1 /\ row' = 0 /\ col' = 0
  BY <1>1, NextTurn
<1>3. PICK q \in Pairs : q = <<row, col>> BY <1>1, TurnFacts
<1>4. PICK x \in Entry : /\ tlatency' = Append(tlatency, x)
                         /\ tabela[q] # Word("unset") => x = tabela[q]
  <2>1. tabela[q] \in Entry /\ Word("blank") \in Entry BY <1>1, FactorType
  <2> QED BY <1>3, <2>1
<1>5. tlmbench' = Append(tlmbench, Fator(q)) /\ Fator(q) \in Entry BY <1>1, <1>3, FactorType
<1>6. UNCHANGED <<tabela, tnumafactor, tlatencies, attempt, leftover, failed, bandwidth,
                  numafactor_stream>>
  BY DEF outVars, pastVars, failVars
<1>7. QuotientsRight(T, tlmbench', Turn + 1)
  <2>1. ASSUME Sound(T, q)
        PROVE  Turn + 1 \in DOMAIN tlmbench' /\ tlmbench'[Turn + 1] = OwnFactor(T, q)
    <3>1. Len(tlmbench) = Turn BY <1>1, <2>1 DEF Sound, Undisturbed
    <3>2. Fator(q) = OwnFactor(T, q) BY <1>1, <2>1, QuotientRight
    <3> QED BY <1>1, <1>5, <3>1, <3>2, AppendFacts
  <2>2. \A k \in DOMAIN tlmbench : k \in DOMAIN tlmbench' /\ tlmbench'[k] = tlmbench[k]
    BY <1>1, <1>5, AppendFacts
  <2> QED BY <1>1, <1>3, <2>1, <2>2, QuotientsGrow
<1>8. \A p \in Pairs : Cell(p) <= Turn + 1 /\ Undisturbed(T, p)' => Holds(tlatency', p, Own(T, p)')
  <2>1. ASSUME Undisturbed(T, q)'
        PROVE  Turn + 1 \in DOMAIN tlatency' /\ tlatency'[Turn + 1] = Own(T, q)
    <3>1. Undisturbed(T, q) BY <1>6, <2>1 DEF Undisturbed, Cell
    <3>2. Len(tlatency) = Turn BY <1>1, <3>1 DEF Undisturbed
    <3>3. x = Own(T, q) BY <1>1, <1>4, <3>1, NotAWord DEF TableRight
    <3> QED BY <1>1, <1>4, <3>2, <3>3, AppendFacts
  <2>2. \A k \in DOMAIN tlatency : k \in DOMAIN tlatency' /\ tlatency'[k] = tlatency[k]
    BY <1>1, <1>4, AppendFacts
  <2> QED BY <1>1, <1>3, <1>6, <2>1, <2>2, LinesGrow
<1>9. WorkInv'
  <2>1. tlmbench' \in Seq(Entry) /\ tlatency' \in Seq(Entry) BY <1>1, <1>4, <1>5, AppendFacts
  <2>2. numafactor_lmbench' \in Seq(Entry) /\ latency_lmbench' \in Seq(Entry)
    BY DEF PipelineInv, WorkInv, outVars
  <2> QED BY <1>2, <1>6, <2>1, <2>2 DEF PipelineInv, WorkInv
<1>10. StreamInv' BY <1>2, <1>6, StreamKept
<1>11. LatencyInv'
  <2>1. TableRight(T)' BY <1>1, <1>6 DEF TableRight, Undisturbed, Own, Time, Cell
  <2>2. \A p \in Pairs : Cell(p) <= Turn + 1 /\ Sound(T, p)' =>
                             Holds(tlmbench', p, OwnFactor(T, p)')
    BY <1>6, <1>7, Kept
  <2>3. ~ leftover' => Len(tlmbench') = Turn + 1 /\ Len(tlatency') = Turn + 1
    BY <1>1, <1>4, <1>5, <1>6, AppendFacts
  <2>4. ASSUME pc' = "lfactor"
        PROVE  QuotientsRight(T, tlmbench, Turn)' /\ LinesRight(T, tlatency, Turn)'
    <3>1. Turn' = Turn + 1 BY <1>2, <2>4
    <3> QED BY <1>8, <2>2, <3>1 DEF QuotientsRight, LinesRight, Cell, Holds
  <2>5. ASSUME pc' = "lpublish"
        PROVE  QuotientsRight(T, tlmbench, N * N)' /\ LinesRight(T, tlatency, N * N)'
    <3>1. N * N = Turn + 1 BY <1>2, <2>5
    <3> QED BY <1>8, <2>2, <3>1 DEF QuotientsRight, LinesRight, Cell, Holds
  <2> QED BY <1>2, <2>1, <2>3, <2>4, <2>5 DEF LatencyInv
<1> QED BY <1>9, <1>10, <1>11

LEMMA PublishLatenciesPipeline ==
    ASSUME PipelineInv, PublishFactor \/ PublishLatency
    PROVE  WorkInv' /\ StreamInv' /\ LatencyInv'
<1> USE DEF InLoop, AtStream, AtFactor, AtLatency, loopVars, pastVars, failVars
<1> DEFINE T == "lat_mem_rd"
<1>1. CASE PublishFactor
  <2> USE <1>1 DEF PublishFactor
  <2>1. QuotientsRight(T, tlmbench, N * N) /\ LinesRight(T, tlatency, N * N)
    BY DEF PipelineInv, LatencyInv
  <2>2. QuotientsRight(T, numafactor_lmbench, N * N)'
    BY <2>1, Kept DEF QuotientsRight, Cell, Holds
  <2>3. LinesRight(T, tlatency, N * N)' BY <2>1, Kept DEF LinesRight, Cell, Holds
  <2>4. LatencyInv' BY <2>2, <2>3 DEF LatencyInv
  <2>5. tlmbench' \in Seq(Entry) OBVIOUS
  <2>6. WorkInv' BY <2>5 DEF PipelineInv, WorkInv
  <2> QED BY <2>4, <2>6, StreamKept
<1>2. CASE PublishLatency
  <2> USE <1>2 DEF PublishLatency
  <2>1. QuotientsRight(T, numafactor_lmbench, N * N) /\ LinesRight(T, tlatency, N * N)
    BY DEF PipelineInv, LatencyInv
  <2>2. QuotientsRight(T, numafactor_lmbench, N * N)'
    BY <2>1, Kept DEF QuotientsRight, Cell, Holds
  <2>3. LinesRight(T, latency_lmbench, N * N)' BY <2>1, Kept DEF LinesRight, Cell, Holds
  <2>4. LatencyInv' BY <2>2, <2>3 DEF LatencyInv
  <2>5. tlatency' \in Seq(Entry) OBVIOUS
  <2>6. WorkInv' BY <2>5 DEF PipelineInv, WorkInv
  <2> QED BY <2>4, <2>6, StreamKept
<1> QED BY <1>1, <1>2

LEMMA StutterPipeline ==
    ASSUME PipelineInv, UNCHANGED vars PROVE WorkInv' /\ StreamInv' /\ LatencyInv'
<1> USE DEF vars, loopVars, workVars, outVars, pastVars, failVars
<1>1. WorkInv' BY DEF PipelineInv, WorkInv, NoFailure
<1>2. StreamInv' /\ LatencyInv'
  BY DEF PipelineInv, StreamInv, LatencyInv, Filling, TableRight, LinesRight, QuotientsRight,
         NoFailure, Turn, Sound, Undisturbed, Holds, Own, OwnFactor, Time, Cell
<1> QED BY <1>1, <1>2

LEMMA PipelineStep == PipelineInv /\ [Next]_vars => PipelineInv'
<1> SUFFICES ASSUME PipelineInv, [Next]_vars PROVE PipelineInv' OBVIOUS
<1>1. MatrixInv' BY StepCorrect DEF PipelineInv
<1>2. WorkInv' /\ StreamInv' /\ LatencyInv'
  BY StartPipeline, InterruptPipeline, RunStreamPipeline, CollectStreamPipeline,
     StreamFactorPipeline, PublishStreamPipeline, RunLatencyPipeline, CollectLatencyPipeline,
     LatencyFactorPipeline, PublishLatenciesPipeline, StutterPipeline DEF Next
<1> QED BY <1>1, <1>2 DEF PipelineInv

(* The files between the parts of the script are right as far as the loops *)
(* have come, for every number of nodes, starts and failures.              *)
THEOREM PipelineCorrect == Spec => []PipelineInv
<1>1. Init => PipelineInv BY PipelineInit
<1>2. PipelineInv /\ [Next]_vars => PipelineInv' BY PipelineStep
<1> QED BY <1>1, <1>2, PTL DEF Spec

LEMMA EveryCell == ASSUME NEW p \in Pairs PROVE Cell(p) <= N * N
<1>1. Cell(p) \in 1 .. N * N /\ N * N \in Nat BY CellRange, NAssumption
<1> QED BY <1>1

(* Both published matrices: each cell up to the first failure is the       *)
(* measurement of its own pair in this attempt.                            *)
THEOREM MatricesCorrect == Spec => []MatricesRight
<1>1. PipelineInv => MatricesRight
  BY EveryCell DEF PipelineInv, StreamInv, LatencyInv, MatricesRight, LinesRight, AtFactor, AtLatency
<1> QED BY <1>1, PipelineCorrect, PTL

(* Both matrices of factors: each cell whose measurement and whose row's   *)
(* local measurement no failure precedes is their quotient.                *)
THEOREM FactorsCorrect == Spec => []FactorsRight
<1>1. PipelineInv => FactorsRight
  BY EveryCell DEF PipelineInv, StreamInv, LatencyInv, FactorsRight, QuotientsRight, Sound,
     AtFactor, AtLatency
<1> QED BY <1>1, PipelineCorrect, PTL

-----------------------------------------------------------------------------
(* Reading the matrices back: the words of a file are finitely many.       *)
LEMMA WordsFinite ==
    ASSUME NEW file, Len(file) \in Nat, DOMAIN file = 1 .. Len(file), NEW k
    PROVE  IsFiniteSet(R!Words(file, k))
<1>1. IsFiniteSet(1 .. Len(file)) BY FS_Interval
<1>2. R!Words(file, k) \in SUBSET (1 .. Len(file)) BY DEF R!Words
<1> QED BY <1>1, <1>2, FS_Subset

(* The instance counts with the same cardinality.                          *)
LEMMA SameCardinality == \A S : R!Cardinality(S) = Cardinality(S)
BY DEF R!Cardinality, Cardinality

(* Where no cell up to k is blank, word k is cell k.                       *)
LEMMA WordIsCell ==
    ASSUME NEW file, Len(file) \in Nat, DOMAIN file = 1 .. Len(file),
           NEW k \in DOMAIN file, \A i \in 1 .. k : file[i] # Word("blank")
    PROVE  R!Count(file) \in Nat /\ k <= R!Count(file) /\ R!WordAt(file, k) = file[k]
<1> DEFINE all == R!Words(file, Len(file))
           upto(i) == R!Words(file, i)
<1>1. k \in Nat /\ k >= 1 /\ k <= Len(file) OBVIOUS
<1>2. upto(k) = 1 .. k BY <1>1 DEF R!Words
<1>3. Cardinality(upto(k)) = k
  <2>1. Cardinality(1 .. k) = k BY <1>1, FS_Interval
  <2> QED BY <1>2, <2>1
<1>4. IsFiniteSet(all) /\ \A i : IsFiniteSet(upto(i)) BY WordsFinite
<1>5. Cardinality(all) \in Nat /\ k <= Cardinality(all)
  <2>1. upto(k) \in SUBSET all BY <1>1 DEF R!Words
  <2>2. Cardinality(upto(k)) <= Cardinality(all) BY <1>4, <2>1, FS_Subset
  <2>3. Cardinality(all) \in Nat BY <1>4, FS_CardinalityType
  <2> QED BY <1>3, <2>2, <2>3
<1>6. k \in all BY <1>1 DEF R!Words
<1>7. ASSUME NEW i \in all, Cardinality(upto(i)) = k PROVE i = k
  <2>1. i \in DOMAIN file /\ i \in Nat /\ file[i] # Word("blank") BY DEF R!Words
  <2>2. CASE i < k
    <3>1. k \in upto(k) /\ k \notin upto(i) BY <1>1, <1>6, <2>1, <2>2 DEF R!Words
    <3>2. upto(i) \in SUBSET upto(k) BY <1>1, <2>1, <2>2 DEF R!Words
    <3>3. upto(i) = upto(k) BY <1>3, <1>4, <1>7, <3>2, FS_Subset
    <3> QED BY <3>1, <3>3
  <2>3. CASE k < i
    <3>1. i \in upto(i) /\ i \notin upto(k) BY <1>1, <2>1, <2>3 DEF R!Words
    <3>2. upto(k) \in SUBSET upto(i) BY <1>1, <2>1, <2>3 DEF R!Words
    <3>3. upto(i) = upto(k) BY <1>3, <1>4, <1>7, <3>2, FS_Subset
    <3> QED BY <3>1, <3>3
  <2> QED BY <1>1, <2>1, <2>2, <2>3
<1>8. (CHOOSE i \in all : Cardinality(upto(i)) = k) = k
  <2> HIDE DEF all, upto
  <2> QED BY <1>3, <1>6, <1>7
<1>9. R!WordAt(file, k) = file[k] BY <1>8, SameCardinality DEF R!WordAt
<1> QED BY <1>5, <1>9, SameCardinality DEF R!Count

LEMMA NthIsCell ==
    ASSUME NEW file, Len(file) \in Nat, DOMAIN file = 1 .. Len(file),
           NEW k \in DOMAIN file, \A i \in 1 .. k : file[i] # Word("blank")
    PROVE  R!Nth(file, k) = file[k]
<1>1. R!Count(file) \in Nat /\ k <= R!Count(file) /\ R!WordAt(file, k) = file[k] BY WordIsCell
<1>2. k \in Nat /\ k >= 1 OBVIOUS
<1>3. PICK n \in Nat : n = R!Count(file) BY <1>1
<1>4. n # 0 /\ ~ (k < 1) /\ ~ (k > n) BY <1>1, <1>2, <1>3
<1> QED BY <1>1, <1>3, <1>4 DEF R!Nth

(* Every position of a matrix is the cell of a pair.                       *)
LEMMA PairOfCell ==
    ASSUME NEW k \in 1 .. N * N PROVE \E p \in Pairs : Cell(p) = k
<1> DEFINE odd == {i \in Nat : i \in 1 .. N * N /\ ~ \E p \in Pairs : Cell(p) = i}
<1>1. N \in Nat \ {0} /\ N * N \in Nat BY NAssumption
<1>2. ASSUME odd # {} PROVE FALSE
  <2>1. PICK i \in odd : \A j \in odd : i <= j BY <1>2, LeastNatural
  <2>2. i \in Nat /\ i \in 1 .. N * N /\ ~ \E p \in Pairs : Cell(p) = i OBVIOUS
  <2>3. i # 1
    <3>1. <<0, 0>> \in Pairs BY <1>1 DEF Pairs, Nodes
    <3>2. Cell(<<0, 0>>) = 1 BY <1>1 DEF Cell
    <3> QED BY <2>2, <3>1, <3>2
  <2>4. i - 1 \in Nat /\ i - 1 \in 1 .. N * N /\ i - 1 \notin odd BY <1>1, <2>1, <2>2, <2>3
  <2>5. PICK p \in Pairs : Cell(p) = i - 1 BY <2>4
  <2>6. PICK a \in 0 .. N - 1, b \in 0 .. N - 1 : p = <<a, b>> BY DEF Pairs, Nodes
  <2>7. a * N + b + 1 = i - 1 /\ a * N \in Nat BY <1>1, <2>5, <2>6 DEF Cell
  <2>8. CASE b + 1 < N
    <3>1. <<a, b + 1>> \in Pairs BY <1>1, <2>6, <2>8 DEF Pairs, Nodes
    <3>2. Cell(<<a, b + 1>>) = i BY <2>2, <2>6, <2>7 DEF Cell
    <3> QED BY <2>2, <3>1, <3>2
  <2>9. CASE ~ (b + 1 < N)
    <3>1. b = N - 1 /\ (a + 1) * N = a * N + N BY <1>1, <2>6, <2>9
    <3>2. (a + 1) * N + 1 = i BY <1>1, <2>2, <2>6, <2>7, <3>1
    <3>3. a + 1 < N
      <4>1. ASSUME a = N - 1 PROVE FALSE
        <5>1. (a + 1) * N = N * N BY <1>1, <4>1
        <5> QED BY <1>1, <2>2, <3>2, <5>1
      <4> QED BY <1>1, <2>6, <4>1
    <3>4. <<a + 1, 0>> \in Pairs BY <1>1, <2>6, <3>3 DEF Pairs, Nodes
    <3>5. Cell(<<a + 1, 0>>) = i BY <1>1, <2>2, <3>2 DEF Cell
    <3> QED BY <2>2, <3>4, <3>5
  <2> QED BY <2>8, <2>9
<1>3. k \in Nat BY <1>1
<1> QED BY <1>2, <1>3

(* The pairs before an undisturbed one are undisturbed, and so are the     *)
(* local pairs of their rows.                                              *)
LEMMA EarlierUndisturbed ==
    ASSUME failed \subseteq Tools \X Nodes \X Nodes, NEW t, NEW p \in Pairs, NEW q \in Pairs,
           Cell(q) <= Cell(p), Undisturbed(t, p)
    PROVE  Undisturbed(t, q)
<1>1. \A x \in Pairs : Cell(x) \in Nat
  <2>1. \A x \in Pairs : Cell(x) \in 1 .. N * N BY CellRange
  <2>2. N * N \in Nat BY NAssumption
  <2> QED BY <2>1, <2>2
<1>2. ASSUME NEW f \in failed, f[1] = t PROVE Cell(<<f[2], f[3]>>) > Cell(q)
  <2>1. <<f[2], f[3]>> \in Pairs BY DEF Pairs
  <2>2. Cell(<<f[2], f[3]>>) > Cell(p) BY <1>2 DEF Undisturbed
  <2> QED BY <1>1, <2>1, <2>2
<1> QED BY <1>2 DEF Undisturbed

LEMMA EarlierSound ==
    ASSUME failed \subseteq Tools \X Nodes \X Nodes, NEW t, NEW p \in Pairs, NEW q \in Pairs,
           Cell(q) <= Cell(p), Sound(t, p)
    PROVE  Sound(t, q)
<1>1. Undisturbed(t, q) BY EarlierUndisturbed DEF Sound
<1>2. PICK a \in 0 .. N - 1, b \in 0 .. N - 1 : p = <<a, b>> BY DEF Pairs, Nodes
<1>3. PICK c \in 0 .. N - 1, d \in 0 .. N - 1 : q = <<c, d>> BY DEF Pairs, Nodes
<1>4. N \in Nat \ {0} /\ a * N \in Nat /\ c * N \in Nat BY NAssumption
<1>5. c * N + d <= a * N + b BY <1>2, <1>3, <1>4 DEF Cell
<1>6. <<c, c>> \in Pairs BY DEF Pairs, Nodes
<1>7. CASE c = a BY <1>1, <1>2, <1>3, <1>7 DEF Sound
<1>8. CASE c < a
  <2>1. (c + 1) * N <= a * N /\ (c + 1) * N = c * N + N BY <1>4, <1>8
  <2>2. c * N + c <= a * N + b BY <1>4, <2>1
  <2>3. Cell(<<c, c>>) <= Cell(p) BY <1>2, <1>4, <2>2 DEF Cell
  <2>4. Undisturbed(t, <<c, c>>) BY <1>6, <2>3, EarlierUndisturbed DEF Sound
  <2> QED BY <1>1, <1>3, <2>4 DEF Sound
<1>9. CASE a < c
  <2>1. (a + 1) * N <= c * N /\ (a + 1) * N = a * N + N BY <1>4, <1>9
  <2> QED BY <1>4, <1>5, <2>1
<1> QED BY <1>7, <1>8, <1>9

(* The word that the readers ask for.                                      *)
LEMMA ReaderCounts ==
    ASSUME NEW file, NEW a, NEW b, NEW k, (a - 1) * N + b = k
    PROVE  /\ R!na_latency(file, a, b) = R!Nth(file, k)
           /\ R!na_numafactor(file, a, b) = R!Nth(file, k)
           /\ R!na_bandwidth(file, a, b) = R!Nth(file, k)
BY DEF R!na_latency, R!na_numafactor, R!na_bandwidth

(* A reader finds the pair's own cell, counted from one or from zero.      *)
LEMMA ReaderRight ==
    ASSUME NEW file, Len(file) \in Nat, DOMAIN file = 1 .. Len(file), NEW p \in Pairs,
           \A q \in Pairs : Cell(q) <= Cell(p) =>
               Cell(q) \in DOMAIN file /\ file[Cell(q)] # Word("blank")
    PROVE  /\ R!na_latency(file, p[1] + 1, p[2] + 1) = file[Cell(p)]
           /\ R!na_numafactor(file, p[1] + 1, p[2] + 1) = file[Cell(p)]
           /\ R!na_bandwidth(file, p[1] + 1, p[2] + 1) = file[Cell(p)]
           /\ R!na_fill_latency_matrix(file)[p] = file[Cell(p)]
<1>1. Cell(p) \in 1 .. N * N /\ N * N \in Nat BY CellRange, NAssumption
<1>2. Cell(p) \in DOMAIN file BY <1>1
<1>3. \A i \in 1 .. Cell(p) : file[i] # Word("blank")
  <2>1. SUFFICES ASSUME NEW i \in 1 .. Cell(p) PROVE file[i] # Word("blank") OBVIOUS
  <2>2. i \in 1 .. N * N /\ i <= Cell(p) BY <1>1
  <2>3. PICK q \in Pairs : Cell(q) = i BY <2>2, PairOfCell
  <2> QED BY <2>2, <2>3
<1>4. R!Nth(file, Cell(p)) = file[Cell(p)] BY <1>2, <1>3, NthIsCell
<1>5. Cell(p) <= R!Count(file) /\ R!WordAt(file, Cell(p)) = file[Cell(p)]
  BY <1>2, <1>3, WordIsCell
<1>6. PICK a \in 0 .. N - 1, b \in 0 .. N - 1 : p = <<a, b>> BY DEF Pairs, Nodes
<1>7. a * N \in Nat /\ a \in Nat /\ b \in Nat BY <1>6, NAssumption
<1>8. Cell(p) = a * N + b + 1 BY <1>6 DEF Cell
<1>10. R!na_fill_latency_matrix(file)[p] = file[Cell(p)]
  <2>1. p \in (0 .. N - 1) \X (0 .. N - 1) BY DEF Pairs, Nodes
  <2>2. R!na_fill_latency_matrix(file)[p]
        = IF Cell(p) <= R!Count(file) THEN R!WordAt(file, Cell(p)) ELSE Word("unset")
    BY <2>1 DEF R!na_fill_latency_matrix, Cell
  <2> QED BY <1>5, <2>2
<1>9. (a + 1 - 1) * N + (b + 1) = Cell(p)
  <2>1. (a + 1 - 1) * N = a * N BY <1>7
  <2> QED BY <1>7, <1>8, <2>1
<1>11. p[1] + 1 = a + 1 /\ p[2] + 1 = b + 1 BY <1>6
<1> QED BY <1>4, <1>9, <1>10, <1>11, ReaderCounts

(* A quotient is not a word.                                               *)
LEMMA FactorNotAWord == ASSUME NEW t, NEW p, NEW w PROVE OwnFactor(t, p) # Word(w)
<1>1. DOMAIN OwnFactor(t, p) = {"num", "div"} BY DEF OwnFactor
<1>2. DOMAIN Word(w) = {"word"} BY DEF Word
<1> QED BY <1>1, <1>2

(* The readers of a file of lines, and of a file of quotients.             *)
LEMMA ReadLines ==
    ASSUME failed \subseteq Tools \X Nodes \X Nodes, NEW t, NEW S, NEW file \in Seq(S),
           LinesRight(t, file, N * N), NEW p \in Pairs, Undisturbed(t, p)
    PROVE  /\ R!na_latency(file, p[1] + 1, p[2] + 1) = Own(t, p)
           /\ R!na_bandwidth(file, p[1] + 1, p[2] + 1) = Own(t, p)
           /\ R!na_fill_latency_matrix(file)[p] = Own(t, p)
<1>1. Len(file) \in Nat /\ DOMAIN file = 1 .. Len(file) OBVIOUS
<1>2. \A q \in Pairs : Undisturbed(t, q) =>
          Cell(q) \in DOMAIN file /\ file[Cell(q)] = Own(t, q)
  BY EveryCell DEF LinesRight, Holds
<1>3. \A q \in Pairs : Cell(q) <= Cell(p) =>
          Cell(q) \in DOMAIN file /\ file[Cell(q)] # Word("blank")
  BY <1>2, EarlierUndisturbed, NotAWord
<1>4. file[Cell(p)] = Own(t, p) BY <1>2
<1> QED BY <1>1, <1>3, <1>4, ReaderRight

LEMMA ReadQuotients ==
    ASSUME failed \subseteq Tools \X Nodes \X Nodes, NEW t, NEW S, NEW file \in Seq(S),
           QuotientsRight(t, file, N * N), NEW p \in Pairs, Sound(t, p)
    PROVE  R!na_numafactor(file, p[1] + 1, p[2] + 1) = OwnFactor(t, p)
<1>1. Len(file) \in Nat /\ DOMAIN file = 1 .. Len(file) OBVIOUS
<1>2. \A q \in Pairs : Sound(t, q) =>
          Cell(q) \in DOMAIN file /\ file[Cell(q)] = OwnFactor(t, q)
  BY EveryCell DEF QuotientsRight, Holds
<1>3. \A q \in Pairs : Cell(q) <= Cell(p) =>
          Cell(q) \in DOMAIN file /\ file[Cell(q)] # Word("blank")
  BY <1>2, EarlierSound, FactorNotAWord
<1>4. file[Cell(p)] = OwnFactor(t, p) BY <1>2
<1> QED BY <1>1, <1>3, <1>4, ReaderRight

(* What the library reads from the published files is, for every pair that *)
(* no failure precedes, the pair's own measurement or quotient.            *)
THEOREM ReadersCorrect == Spec => []ReadersRight
<1>1. PipelineInv => ReadersRight
  <2> SUFFICES ASSUME PipelineInv, pc = "done" PROVE ReadersRight
    BY DEF ReadersRight
  <2>1. /\ failed \subseteq Tools \X Nodes \X Nodes /\ bandwidth \in Seq(Times)
        /\ numafactor_lmbench \in Seq(Entry) /\ latency_lmbench \in Seq(Entry)
    BY DEF PipelineInv, MatrixInv, FileInv, WorkInv
  <2>2. /\ LinesRight("lat_mem_rd", latency_lmbench, N * N)
        /\ LinesRight("stream", bandwidth, N * N)
        /\ QuotientsRight("lat_mem_rd", numafactor_lmbench, N * N)
    BY DEF PipelineInv, StreamInv, LatencyInv, AtFactor, AtLatency
  <2>3. ASSUME NEW p \in Pairs, Undisturbed("lat_mem_rd", p)
        PROVE  /\ R!na_latency(latency_lmbench, p[1] + 1, p[2] + 1) = Own("lat_mem_rd", p)
               /\ R!na_fill_latency_matrix(latency_lmbench)[p] = Own("lat_mem_rd", p)
    BY <2>1, <2>2, <2>3, ReadLines
  <2>4. ASSUME NEW p \in Pairs, Undisturbed("stream", p)
        PROVE  R!na_bandwidth(bandwidth, p[1] + 1, p[2] + 1) = Own("stream", p)
    BY <2>1, <2>2, <2>4, ReadLines
  <2>5. ASSUME NEW p \in Pairs, Sound("lat_mem_rd", p)
        PROVE  R!na_numafactor(numafactor_lmbench, p[1] + 1, p[2] + 1) = OwnFactor("lat_mem_rd", p)
    BY <2>1, <2>2, <2>5, ReadQuotients
  <2> QED BY <2>3, <2>4, <2>5 DEF ReadersRight, Sound
<1> QED BY <1>1, PipelineCorrect, PTL
=============================================================================
