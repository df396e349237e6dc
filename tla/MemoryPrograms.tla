--------------------------- MODULE MemoryPrograms ---------------------------
(***************************************************************************)
(* lat_mem_rd and lat_dram_page, which follow a chain of MemoryChains under   *)
(* benchmp(), and tlb, line and par_mem, which follow several by themselves.  *)
(* chan is the chain in memory, <<>> when there is none.                      *)
(***************************************************************************)
EXTENDS BenchChild, MemoryChains

CONSTANT MaxPages   \* bound: pages of an array

ASSUME MemoryAssumption == MaxPages \in Nat \ {0}

PageSize == 8   \* bound: words of a page
Unroll == 2     \* bound: loads in the body of the loop (100)
TlbPages == 4   \* bound: MAX_TLB, less than 64 MB of pages (16384)
MaxChases == 4  \* bound: MAX_MEM_PARALLELISM (16)

MemoryNames == {"lat_mem_rd", "lat_dram_page", "tlb", "line", "par_mem"}

Array(len, maxlen, line) ==
  [len |-> len, maxlen |-> maxlen, line |-> line, pagesize |-> PageSize, pages |-> <<>>]
Lengths == 1..(MaxPages * PageSize)
Blank ==
  With(ChildInit, [kind |-> "none", s |-> Array(0, 0, 1), p |-> 0, lower |-> 0, upper |-> 0])

MemoryInit ==
  /\ program \in MemoryNames
  /\ pc = [p \in {"bench"} |-> "main"] /\ mem = Blank /\ chan = <<>>

(* lat_mem_rd measures nothing for a range smaller than the stride.             *)
LatMemRdMain ==
  \E kind \in {"stride", "thrash"}, len \in Lengths, line \in {1, 2} :
    /\ len >= line /\ len % 2 = 0
    /\ Call("lat_mem_rd",
            [Blank EXCEPT !.kind = kind, !.s = Array(len, MaxPages * PageSize, line)])

(* The pages in the order of the chain first, then in groups.                    *)
LatDramPageMain ==
  \/ \E len \in Lengths, line \in {1, 2} :
       /\ len % PageSize \in {0, 2}
       /\ Call("lat_dram_page", [Blank EXCEPT !.kind = "hit", !.s = Array(len, len, line)])
  \/ /\ At("lat_dram_page", "bench", "ended") /\ mem.kind = "hit"
     /\ pc' = [pc EXCEPT !["bench"] = "init"] /\ chan' = <<>>
     /\ mem' = [Blank EXCEPT !.kind = "miss", !.faults = mem.faults, !.first = FALSE,
                  !.s = Array(mem.s.len, mem.s.len, mem.s.line)]
     /\ UNCHANGED program

dram_page_initialize(s) ==
  LET made == mem_initialize(s) IN [chain |-> Regrouped(s, made.chain, 2), p |-> made.p]

Made(kind, s) ==
  CASE kind = "stride" -> stride_initialize(s)
    [] kind = "thrash" -> thrash_initialize(s)
    [] kind = "hit" -> mem_initialize(s)
    [] kind = "miss" -> dram_page_initialize(s)

(* When there is no memory initialize() returns and the first load is of address 0. *)
ChainInitialize ==
  /\ program \in {"lat_mem_rd", "lat_dram_page"} /\ pc["bench"] = "init"
  /\ pc' = [pc EXCEPT !["bench"] = AfterInitialize]
  /\ \/ \E s \in base_initialize(mem.s) :
          /\ chan' = Made(mem.kind, s).chain
          /\ mem' = [mem EXCEPT !.s = s, !.p = Made(mem.kind, s).p, !.cookie = Cookie]
     \/ /\ mem.faults > 0
        /\ mem' = [mem EXCEPT !.faults = @ - 1, !.cookie = Cookie] /\ UNCHANGED chan
  /\ UNCHANGED program

(* benchmark_loads(): each iteration loads Unroll times as often as it takes to pass  *)
(* the length.  lat_mem_rd's chain is made again before every interval, which starts   *)
(* at its head; lat_dram_page starts at the base.                                      *)
Loads(s) == Unroll * (s.len \div (s.line * Unroll) + 1)
BenchmarkLoads ==
  /\ program \in {"lat_mem_rd", "lat_dram_page"} /\ pc["bench"] = "run"
  /\ IF mem.left = 0 THEN pc' = [pc EXCEPT !["bench"] = "interval"] /\ UNCHANGED mem
     ELSE IF chan = <<>> THEN pc' = BenchEnds(pc) /\ UNCHANGED mem
     ELSE /\ mem' = [mem EXCEPT !.left = 0,
                       !.p = LET from == IF program = "lat_mem_rd" THEN Made(mem.kind, mem.s).p
                                         ELSE 0
                                 n == mem.left * Loads(mem.s)
                             IN Walk(chan, from, n)[n]]
          /\ UNCHANGED pc
  /\ UNCHANGED <<program, chan>>

(* mem_cleanup(); with the harness's state it frees what are no pointers.               *)
MemCleanup ==
  /\ program \in {"lat_mem_rd", "lat_dram_page"} /\ pc["bench"] = "cleanup"
  /\ pc' = BenchEnds(pc) /\ chan' = <<>> /\ UNCHANGED <<program, mem>>

To(label) == pc' = [pc EXCEPT !["bench"] = label]

(* compute_times(): the time of a load with one word in each of i pages, then with as    *)
(* many lines side by side.                                                               *)
ComputeTimes ==
  /\ program = "tlb" /\ UNCHANGED program
  /\ \/ /\ pc["bench"] = "tlb"
        /\ \E s \in base_initialize(Array(mem.p * PageSize, mem.p * PageSize, 1)) :
             /\ s.pages[0] = 0
             /\ chan' = tlb_initialize(s).chain /\ mem' = [mem EXCEPT !.s = s, !.kind = "tlb"]
        /\ To("cache")
     \/ /\ pc["bench"] = "cache"
        /\ \E s \in base_initialize(Array(mem.p * 2, mem.p * 2, 2)) :
             chan' = mem_initialize(s).chain /\ mem' = [mem EXCEPT !.s = s, !.kind = "hit"]
        /\ To("judge")

Middle2(lower, upper) == lower + (upper - lower) \div 2

(* find_tlb(): double the pages until the loads get slower, then search between the        *)
(* last number that was fast and the first that was slow.                                  *)
FindTlb ==
  /\ program = "tlb" /\ UNCHANGED program /\ chan' = <<>>
  /\ \/ pc["bench"] = "main" /\ mem' = [mem EXCEPT !.p = 2] /\ To("tlb")
     \/ /\ pc["bench"] = "judge" /\ mem.upper = 0
        /\ \/ /\ mem' = [mem EXCEPT !.lower = mem.p \div 2, !.upper = mem.p,
                                    !.p = Middle2(mem.p \div 2, mem.p)]
              /\ To("search")
           \/ mem' = [mem EXCEPT !.p = 2 * @] /\ To(IF 2 * mem.p > TlbPages THEN "ended" ELSE "tlb")
     \/ /\ pc["bench"] = "search"
        /\ To(IF mem.lower + 1 < mem.upper THEN "tlb" ELSE "ended") /\ UNCHANGED mem
     \/ /\ pc["bench"] = "judge" /\ mem.upper # 0
        /\ \/ mem' = [mem EXCEPT !.upper = mem.p, !.p = Middle2(mem.lower, mem.p)]
           \/ mem' = [mem EXCEPT !.lower = mem.p, !.p = Middle2(mem.p, mem.upper)]
        /\ To("search")

(* line_find(): half the length while there is no memory; then test the lines, each twice  *)
(* the last.  The search may end after any of them.                                        *)
LineFind ==
  /\ program = "line" /\ UNCHANGED program
  /\ \/ /\ pc["bench"] = "main" /\ mem' = [mem EXCEPT !.s = Array(2 * PageSize, 2 * PageSize, 1)]
        /\ To("init") /\ UNCHANGED chan
     \/ /\ pc["bench"] = "init"
        /\ \/ \E s \in base_initialize(mem.s) :
                /\ chan' = line_initialize(s).chain
                /\ mem' = [mem EXCEPT !.s = s, !.kind = "line", !.p = 1]
                /\ To("test")
           \/ /\ mem.faults > 0
              /\ mem' = [mem EXCEPT !.faults = @ - 1, !.s = Array(PageSize, PageSize, 1)]
              /\ UNCHANGED <<pc, chan>>
     \/ /\ pc["bench"] = "test" /\ chan' = <<>> /\ To("ended") /\ UNCHANGED mem

(* line_test(): cut the chain, follow it, restore it.                                       *)
LineTest ==
  /\ program = "line" /\ UNCHANGED program
  /\ \/ /\ pc["bench"] = "test" /\ mem.p < PageSize
        /\ chan' = CutAfter(mem.s, chan, PageSize \div mem.p) /\ To("cut") /\ UNCHANGED mem
     \/ /\ pc["bench"] = "cut"
        /\ chan' = FixUp(mem.s, chan, PageSize \div mem.p) /\ To("test")
        /\ mem' = [mem EXCEPT !.p = 2 * @]

(* par_mem(): one chain, followed from one place, then from two, ...                        *)
ParMem ==
  /\ program = "par_mem" /\ UNCHANGED program
  /\ \/ /\ pc["bench"] = "main"
        /\ \E pages \in 1..2, line \in {1, 2} : \E s \in base_initialize(
             Array(pages * PageSize, pages * PageSize, line)) :
             /\ chan' = mem_initialize(s).chain
             /\ mem' = [mem EXCEPT !.s = s, !.kind = "hit", !.p = 1]
        /\ To("chase")
     \/ /\ pc["bench"] = "chase" /\ mem.p < MaxChases
        /\ mem' = [mem EXCEPT !.p = @ + 1] /\ UNCHANGED <<pc, chan>>
     \/ /\ pc["bench"] = "chase" /\ mem.p = MaxChases
        /\ chan' = <<>> /\ To("ended") /\ UNCHANGED mem

MemoryBench ==
  \/ LatMemRdMain \/ LatDramPageMain \/ ChainInitialize \/ BenchmarkLoads \/ MemCleanup
  \/ ComputeTimes \/ FindTlb \/ LineFind \/ LineTest \/ ParMem
  \/ Interval

MemoryNext ==
  /\ program \in MemoryNames
  /\ MemoryBench \/ (program \in {"lat_mem_rd", "lat_dram_page"} /\ Sigterm)

WholeLine(s, i, j) == {s.pages[i] + j * s.line + k : k \in 0..(s.line - 1)}
FirstWords(s) == {s.pages[i] + j * s.line : i \in 0..(NPages(s) - 1), j \in 0..(NLines(s) - 1)}
LinesOf(s) == {i * s.line : i \in 0..(s.len \div s.line - 1)}
PowerOfTwo(n) == 2^NBits(n) = n

(* The words that a chain is there to visit.  Of two chains nothing is said here: that of    *)
(* dram_page_initialize() is made for whole pages, and thrash_initialize() leaves out most    *)
(* of a part of a page whose number of lines is no power of two (see EveryPoint).              *)
Visits(kind, s, tour) ==
  CASE kind = "stride" -> tour = {a \in 0..(s.len - 1) : a % s.line = 0}
    [] kind = "thrash" /\ s.len % s.pagesize = 0 -> tour = FirstWords(s)
    [] kind = "thrash" /\ s.len % s.pagesize # 0 ->
         PowerOfTwo(s.len \div s.line) => tour = LinesOf(s)
    [] kind = "hit" ->
         /\ \A i \in 0..(NPages(s) - 2), j \in 0..(NLines(s) - 1) : WholeLine(s, i, j) \subseteq tour
         /\ Cardinality(tour) >= s.line * (s.len \div s.line)
    [] kind = "miss" ->
         s.len % s.pagesize = 0 =>
           tour = UNION {WholeLine(s, i, j) : i \in 0..(NPages(s) - 1), j \in 0..(NLines(s) - 1)}
    [] kind = "line" -> tour = FirstWords(s)
    [] kind = "tlb" -> /\ Cardinality(tour) = NPages(s)
                       /\ \A a, b \in tour : a # b => a \div s.pagesize # b \div s.pagesize

Lap(chain, p) == LET n == Cardinality(Tour(chain, p)) IN Walk(chain, p, n)[n] = p

ChainHead(kind, s) ==
  IF kind = "stride" \/ (kind = "thrash" /\ s.len % s.pagesize # 0) THEN 0 ELSE s.pages[0]

(* Each chain is one lap: a load never ends up in a shorter loop, and one iteration is at     *)
(* least a lap.  The lap goes through every place, but for the two chains that Visits names.  *)
(* line_test() shortens it to the lines it tests and gives back the chain it found; the        *)
(* chases of par_mem() begin at different places of one lap.                                   *)
ChainsComplete ==
  program \in MemoryNames /\ chan # <<>> =>
    LET s == mem.s
        head == ChainHead(mem.kind, s)
        tour == Tour(chan, head)
    IN /\ Lap(chan, head)
       /\ IF pc["bench"] = "cut"
          THEN Cardinality(tour) = NPages(s) * (PageSize \div mem.p)
          ELSE Visits(mem.kind, s, tour)
       /\ mem.kind \in {"stride", "thrash"} => Cardinality(tour) <= Loads(s)
       /\ program = "par_mem" =>
            LET starts == Starts(s, mem.p) IN
            /\ \A i \in DOMAIN starts : starts[i] \in tour
            /\ \A i, j \in DOMAIN starts : i # j => starts[i] # starts[j]

(* lat_mem_rd.8: the data points are "the load latency over all points in that array".       *)
EveryPoint ==
  program = "lat_mem_rd" /\ chan # <<>> =>
    LET tour == Tour(chan, ChainHead(mem.kind, mem.s)) IN
    IF mem.s.len % mem.s.pagesize = 0 /\ mem.kind = "thrash" THEN FirstWords(mem.s) \subseteq tour
    ELSE LinesOf(mem.s) \subseteq tour
=============================================================================
