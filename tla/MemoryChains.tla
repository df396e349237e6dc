---------------------------- MODULE MemoryChains ----------------------------
(***************************************************************************)
(* lib_mem.c: the chains of pointers that the memory benchmarks follow.  An   *)
(* address is a number of pointer-sized words from state->base; a chain is     *)
(* the memory after the stores, a function from addresses to addresses.        *)
(***************************************************************************)
EXTENDS Integers, SequencesExt

(* One store, and the memory after a sequence of them: the last one counts.    *)
Store(address, value) == <<address, value>>
Stored(writes) ==
  [a \in {w[1] : w \in ToSet(writes)} |->
     writes[Max({i \in DOMAIN writes : writes[i][1] = a})][2]]

(* ForEach(n, W): the stores W(0), ..., W(n - 1).                               *)
ForEach(n, W(_)) == FlattenSeq([i \in 1..n |-> W(i - 1)])

(* The bits that words_initialize() turns round: those of max / 2, so that the  *)
(* top bit of an index beyond the last power of two is lost.                     *)
NBits(max) == Max({n \in 0..max : 2^n <= max})
(* MUTANT: the top bit is left out.                                              *)
ReversedShort(i, nbits) ==
  FoldLeft(LAMBDA r, j : 2 * r + ((i \div 2^(j - 1)) % 2), 0, [j \in 1..(nbits - 1) |-> j])
Reversed(i, nbits) ==
  FoldLeft(LAMBDA r, j : 2 * r + ((i \div 2^(j - 1)) % 2), 0, [j \in 1..nbits |-> j])
words_initialize(max, scale) == [i \in 0..(max - 1) |-> scale * Reversed(i, NBits(max))]

(* permutation(): page offsets in any order.                                     *)
permutation(max, scale) ==
  {[i \in 0..(max - 1) |-> scale * f[i]] :
     f \in {g \in [0..(max - 1) -> 0..(max - 1)] : \A i, j \in DOMAIN g : i # j => g[i] # g[j]}}

(* The parameters of a chain: s.len, of which s.maxlen is allocated, s.line and   *)
(* s.pagesize, and the page offsets s.pages that base_initialize() made.           *)
PagesOf(bytes, pagesize) == (bytes + pagesize - 1) \div pagesize
NPages(s) == PagesOf(s.len, s.pagesize)
NLines(s) == s.pagesize \div s.line

base_initialize(s) ==
  {[s EXCEPT !.pages = f] : f \in permutation(PagesOf(s.maxlen, s.pagesize), s.pagesize)}

stride_initialize(s) ==
  LET n == (s.len + s.line - 1) \div s.line
      Next0(i) == <<Store(i * s.line, IF i = n - 1 THEN 0 ELSE (i + 1) * s.line)>>
  IN [chain |-> Stored(ForEach(n, Next0)), p |-> 0]

(* A part of a page: one chain through its words.  Whole pages: from word to word *)
(* and page to page at the same time.                                              *)
thrash_initialize(s) ==
  IF s.len % s.pagesize # 0
  THEN LET n == s.len \div s.line
           words == words_initialize(n, s.line)
           Hop(i) == <<Store(words[i], IF i = n - 1 THEN 0 ELSE words[i + 1])>>
       IN [chain |-> Stored(ForEach(n, Hop)), p |-> 0]
  ELSE LET n == NLines(s)
           words == words_initialize(n, s.line)
           last == NPages(s) - 1
           Page(i) ==
             LET Hop(j) == <<Store(s.pages[i] + words[(i + j) % n],
                              IF i = last THEN s.pages[0] + words[(j + 1) % n]
                              ELSE s.pages[i + 1] + words[(i + j + 1) % n])>>
             IN ForEach(n, Hop)
       IN [chain |-> Stored(ForEach(last + 1, Page)), p |-> s.pages[0]]

(* Through the lines of a page, then to the next page; at the end to the next      *)
(* word.  Turn(i): the index of the line that leaves page i.                        *)
mem_initialize(s) ==
  LET npointers == s.len \div s.line
      nlines == NLines(s)
      last == NPages(s) - 1
      words == words_initialize(s.line, 1)
      lines == words_initialize(nlines, s.line)
      Sofar(i) == Min({i * (nlines - 1), npointers - 1})
      Turn(i) == Min({nlines - 1, npointers - 1 - Sofar(i)})
      Line(i, j) == s.pages[i] + lines[j]
      Page(i) ==
        LET Hop(j) == [k \in 1..s.line |-> Store(Line(i, j) + k - 1, Line(i, j + 1) + k - 1)]
            Leave(k) == <<Store(Line(i, Turn(i)) + words[k],
                            IF i < last THEN Line(i + 1, 0) + words[k]
                            ELSE Line(0, 0) + words[(k + 1) % s.line])>>
        IN ForEach(Turn(i), Hop) \o ForEach(s.line, Leave)
  IN [chain |-> Stored(ForEach(last + 1, Page)), p |-> s.pages[0]]

(* The same through the first word of each line of each page.                       *)
line_initialize(s) ==
  LET nlines == NLines(s)
      lines == words_initialize(nlines, s.line)
      Page(i) ==
        LET Hop(j) == <<Store(s.pages[i] + lines[j],
                         IF j < nlines - 1 THEN s.pages[i] + lines[j + 1]
                         ELSE s.pages[(i + 1) % NPages(s)] + lines[0])>>
        IN ForEach(nlines, Hop)
  IN [chain |-> Stored(ForEach(NPages(s), Page)), p |-> s.pages[0]]

(* One word of each page.  The pages are separate allocations whose order is         *)
(* random except for the first.                                                       *)
tlb_initialize(s) ==
  LET npages == s.len \div s.pagesize
      nlines == s.pagesize
      lines == words_initialize(nlines, 1)
      Word(i) == s.pages[i] + lines[i % nlines]
      Hop(i) == <<Store(Word(i), IF i = npages - 1 THEN s.pages[0] + lines[0] ELSE Word(i + 1))>>
  IN [chain |-> Stored(ForEach(npages, Hop)), p |-> s.pages[0] + lines[0]]

(* line_test(): the first stores cut the tour of each page down to nlines lines,      *)
(* the last ones restore it.                                                           *)
LineOf(s, i, j) == s.pages[i] + words_initialize(NLines(s), s.line)[j]
Overwrite(chain, writes) == LET new == Stored(writes) IN [a \in DOMAIN chain |->
                              IF a \in DOMAIN new THEN new[a] ELSE chain[a]]
CutAfter(s, chain, nlines) ==
  LET Cut(i) == <<Store(LineOf(s, i, nlines - 1), s.pages[(i + 1) % NPages(s)])>>
  IN IF nlines < NLines(s) THEN Overwrite(chain, ForEach(NPages(s), Cut)) ELSE chain
FixUp(s, chain, nlines) ==
  LET Fix(i) == <<Store(LineOf(s, i, nlines - 1), LineOf(s, i, nlines))>>
  IN IF nlines < NLines(s) THEN Overwrite(chain, ForEach(NPages(s), Fix)) ELSE chain

(* par_mem(): where the n chases that run side by side begin.                           *)
Starts(s, n) ==
  LET perpage == s.pagesize \div s.line
      lines == words_initialize(NLines(s), s.line)
      words == words_initialize(s.line, 1)
      chunk == (s.len \div s.line) \div n
      Start(j) == LET line == j * chunk IN
        s.pages[line \div perpage] + lines[line % perpage] + words[((j * s.line) \div n) % s.line]
  IN [j \in 0..(n - 1) |-> Start(j)]

(* lat_dram_page's regroup(): in a group of pages the tour visits the same line of       *)
(* every page before it goes to the next line.                                           *)
regroup(s, chain, first, size) ==
  LET final == s.pages[first + size - 1]
      Across(i) == [k \in 1..s.pagesize |->
                      Store(s.pages[first + i] + k - 1, s.pages[first + i + 1] + k - 1)]
      Back(k) == LET to == chain[final + k] IN
        IF final + k \in DOMAIN chain /\ final <= to /\ to < final + s.pagesize
        THEN <<Store(final + k, s.pages[first] + to - final)>> ELSE <<>>
      new == Stored(ForEach(size - 1, Across) \o ForEach(s.pagesize, Back))
  IN IF size <= 1 THEN chain
     ELSE [a \in DOMAIN chain \cup DOMAIN new |-> IF a \in DOMAIN new THEN new[a] ELSE chain[a]]

Regrouped(s, chain, group) ==
  FoldLeft(LAMBDA c, g : regroup(s, c, (g - 1) * group,
                           Min({group, NPages(s) - (g - 1) * group})),
           chain, [g \in 1..((NPages(s) + group - 1) \div group) |-> g])

(* Where n loads from p lead, and the addresses on the way.                               *)
Walk(chain, p, n) ==
  LET at[i \in 0..n] == IF i = 0 THEN p ELSE chain[at[i - 1]] IN at
Tour(chain, p) == LET n == Cardinality(DOMAIN chain) IN
  {Walk(chain, p, n)[i] : i \in 0..n}
=============================================================================
