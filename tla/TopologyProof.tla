--------------------------- MODULE TopologyProof ----------------------------
(* Proofs about the answers of the library, for all machines, and any      *)
(* order of queries.                                                       *)
EXTENDS MCTopology, FiniteSetTheorems, WellFoundedInduction, TLAPS

-----------------------------------------------------------------------------
(* Least and greatest members, and putting a set in order.                 *)
LEMMA LeastNatural ==
    ASSUME NEW T \in SUBSET Nat, T # {}
    PROVE  \E x \in T : \A y \in T : x <= y
<1> DEFINE Less == {ss \in Nat \X Nat : ss[1] < ss[2]}
<1>1. IsWellFoundedOn(Less, Nat) BY NatLessThanWellFounded DEF OpToRel
<1>2. PICK x \in T : \A y \in T : ~ (<<y, x>> \in Less)
  <2> HIDE DEF Less
  <2> QED BY <1>1, WFMin
<1>3. ASSUME NEW y \in T PROVE x <= y
  <2>1. x \in Nat /\ y \in Nat OBVIOUS
  <2>2. ~ (y < x) BY <1>2, <2>1
  <2> QED BY <2>1, <2>2
<1> QED BY <1>3

LEMMA MinRight ==
    ASSUME NEW T \in SUBSET Nat, T # {}
    PROVE  Min(T) \in T /\ \A y \in T : Min(T) <= y
BY LeastNatural DEF Min

LEMMA MinOne ==
    ASSUME NEW a \in Nat
    PROVE  Min({a}) = a
<1> DEFINE T == {a}
<1>1. T \in SUBSET Nat /\ T # {} OBVIOUS
<1> HIDE DEF T
<1>2. Min(T) \in T BY <1>1, MinRight
<1> QED BY <1>2 DEF T

LEMMA MaxRight ==
    ASSUME NEW T \in SUBSET Nat, T # {}, NEW n \in Nat, \A y \in T : y <= n
    PROVE  Max(T) \in T /\ \A y \in T : Max(T) >= y
<1> DEFINE Bounds == {b \in Nat : \A y \in T : y <= b}
<1>1. PICK b \in Bounds : \A c \in Bounds : b <= c BY LeastNatural
<1>2. b \in T
  <2>1. SUFFICES ASSUME b \notin T PROVE FALSE OBVIOUS
  <2>2. PICK y \in T : TRUE OBVIOUS
  <2>3. \A x \in T : x \in Nat /\ x <= b /\ x # b BY <2>1
  <2>4. b - 1 \in Nat /\ \A x \in T : x <= b - 1 BY <2>2, <2>3
  <2> QED BY <1>1, <2>4
<1>3. \A y \in T : b >= y /\ y \in Nat OBVIOUS
<1> HIDE DEF Bounds
<1> QED BY <1>2, <1>3 DEF Max

Below(S, place, x) == {y \in S : place[y] < place[x]}
Rank(S, place, x) == Cardinality(Below(S, place, x))
Places(S, place) ==
    /\ IsFiniteSet(S) /\ place \in [S -> Nat]
    /\ \A x, y \in S : place[x] = place[y] => x = y

LEMMA RankType ==
    ASSUME NEW S, NEW place, Places(S, place), NEW x \in S
    PROVE  /\ IsFiniteSet(Below(S, place, x)) /\ Rank(S, place, x) \in Nat
           /\ Cardinality(S) \in Nat /\ Rank(S, place, x) < Cardinality(S)
<1>1. IsFiniteSet(S) /\ Below(S, place, x) \in SUBSET S /\ x \notin Below(S, place, x)
  BY DEF Places, Below
<1>2. IsFiniteSet(Below(S, place, x)) BY <1>1, FS_Subset
<1>3. Cardinality(S) \in Nat /\ Rank(S, place, x) \in Nat
  BY <1>1, <1>2, FS_CardinalityType DEF Rank
<1>4. Rank(S, place, x) <= Cardinality(S) /\ Rank(S, place, x) # Cardinality(S)
  BY <1>1, FS_Subset DEF Rank
<1> QED BY <1>2, <1>3, <1>4

(* A member of a higher place has a higher rank.                           *)
LEMMA RankGrows ==
    ASSUME NEW S, NEW place, Places(S, place), NEW x \in S, NEW y \in S, place[x] < place[y]
    PROVE  Rank(S, place, x) < Rank(S, place, y)
<1>1. /\ IsFiniteSet(Below(S, place, y))
      /\ Rank(S, place, x) \in Nat /\ Rank(S, place, y) \in Nat
  BY RankType
<1>2. /\ Below(S, place, x) \in SUBSET Below(S, place, y)
      /\ x \in Below(S, place, y) /\ x \notin Below(S, place, x)
  BY DEF Below, Places
<1>3. Rank(S, place, x) <= Rank(S, place, y) /\ Rank(S, place, x) # Rank(S, place, y)
  BY <1>1, <1>2, FS_Subset DEF Rank
<1> QED BY <1>1, <1>3

LEMMA SameRank ==
    ASSUME NEW S, NEW place, Places(S, place), NEW x \in S, NEW y \in S,
           Rank(S, place, x) = Rank(S, place, y)
    PROVE  x = y
<1>1. place[x] \in Nat /\ place[y] \in Nat BY DEF Places
<1>2. ~ (place[x] < place[y]) BY RankGrows, RankType
<1>3. ~ (place[y] < place[x]) BY RankGrows, RankType
<1>4. place[x] = place[y] BY <1>1, <1>2, <1>3
<1> QED BY <1>4 DEF Places

(* The least member of a part of the set by its place.                     *)
LEMMA LeastPlace ==
    ASSUME NEW S, NEW place, Places(S, place), NEW T \in SUBSET S, T # {}
    PROVE  \E x \in T : \A y \in T : place[x] <= place[y]
<1> DEFINE Values == {place[x] : x \in T}
<1>1. Values \in SUBSET Nat /\ Values # {} BY DEF Places
<1> HIDE DEF Values
<1>2. PICK v \in Values : \A w \in Values : v <= w BY <1>1, LeastNatural
<1> QED BY <1>2 DEF Values

(* Every rank below the size of the set is some member's.                  *)
LEMMA RankTaken ==
    ASSUME NEW S, NEW place, Places(S, place), NEW k \in 1 .. Cardinality(S)
    PROVE  \E x \in S : Rank(S, place, x) = k - 1
<1> DEFINE odd == {i \in Nat : i \in 1 .. Cardinality(S) /\ ~ \E x \in S : Rank(S, place, x) = i - 1}
<1>1. IsFiniteSet(S) /\ Cardinality(S) \in Nat BY FS_CardinalityType DEF Places
<1>2. \A x \in S : place[x] \in Nat BY DEF Places
<1>3. ASSUME odd # {} PROVE FALSE
  <2>1. PICK i \in odd : \A j \in odd : i <= j BY <1>3, LeastNatural
  <2>2. /\ i \in Nat /\ i >= 1 /\ i <= Cardinality(S)
        /\ ~ \E x \in S : Rank(S, place, x) = i - 1
    BY <1>1
  <2>3. CASE i = 1
    <3>1. S # {} BY <1>1, <2>2, <2>3, FS_EmptySet
    <3>2. PICK x \in S : \A y \in S : place[x] <= place[y] BY <3>1, LeastPlace
    <3>3. Below(S, place, x) = {} BY <1>2, <3>2 DEF Below
    <3>4. Rank(S, place, x) = 0 BY <3>3, FS_EmptySet DEF Rank
    <3> QED BY <2>2, <2>3, <3>4
  <2>4. CASE i > 1
    <3>1. i - 1 \in Nat /\ i - 1 \in 1 .. Cardinality(S) /\ i - 1 \notin odd
      BY <1>1, <2>1, <2>2, <2>4
    <3>2. PICK x \in S : Rank(S, place, x) = i - 1 - 1 BY <3>1
    <3>3. IsFiniteSet(Below(S, place, x)) /\ x \notin Below(S, place, x)
      BY <1>2, RankType DEF Below
    <3>4. Cardinality(Below(S, place, x) \cup {x}) = i - 1
      BY <2>2, <3>2, <3>3, FS_AddElement DEF Rank
    <3> DEFINE Above == {y \in S : place[y] > place[x]}
    <3>5. CASE Above = {}
      <4>1. \A y \in S : y = x \/ place[y] < place[x] BY <1>2, <3>5 DEF Places
      <4>2. S = Below(S, place, x) \cup {x} BY <4>1 DEF Below
      <4> QED BY <1>1, <2>2, <3>4, <4>2
    <3>6. CASE Above # {}
      <4>1. PICK y \in Above : \A z \in Above : place[y] <= place[z] BY <3>6, LeastPlace
      <4>2. \A z \in S : place[z] < place[y] <=> z = x \/ place[z] < place[x]
        <5>1. SUFFICES ASSUME NEW z \in S
                       PROVE  place[z] < place[y] <=> z = x \/ place[z] < place[x]
          OBVIOUS
        <5>2. place[x] \in Nat /\ place[y] \in Nat /\ place[z] \in Nat /\ place[x] < place[y]
          BY <1>2
        <5>3. place[z] > place[x] => place[y] <= place[z] BY <4>1
        <5>4. place[z] = place[x] => z = x BY DEF Places
        <5> QED BY <5>2, <5>3, <5>4
      <4>3. Below(S, place, y) = Below(S, place, x) \cup {x} BY <4>2 DEF Below
      <4>4. Rank(S, place, y) = i - 1 BY <3>4, <4>3 DEF Rank
      <4> QED BY <2>2, <4>4
    <3> QED BY <3>5, <3>6
  <2> QED BY <2>2, <2>3, <2>4
<1>4. k \in Nat BY <1>1
<1> QED BY <1>3, <1>4

(* A sorted set is a sequence of its members, each once, in order.         *)
Listed(S, place, s) ==
    /\ Cardinality(S) \in Nat /\ s \in Seq(S) /\ Len(s) = Cardinality(S)
    /\ DOMAIN s = 1 .. Len(s) /\ ToSet(s) = S
    /\ \A i, j \in DOMAIN s : i < j => place[s[i]] < place[s[j]]
    /\ \A i, j \in DOMAIN s : s[i] = s[j] => i = j

LEMMA SortedRight ==
    ASSUME NEW S, NEW place, Places(S, place) PROVE Listed(S, place, Sorted(S, place))
<1> DEFINE s == Sorted(S, place)
           n == Cardinality(S)
<1>1. n \in Nat BY FS_CardinalityType DEF Places
<1>2. \A k \in 1 .. n : s[k] \in S /\ Rank(S, place, s[k]) = k - 1
  <2>1. SUFFICES ASSUME NEW k \in 1 .. n PROVE s[k] \in S /\ Rank(S, place, s[k]) = k - 1
    OBVIOUS
  <2>2. s[k] = CHOOSE x \in S : Rank(S, place, x) = k - 1 BY DEF Sorted, Rank, Below
  <2> QED BY <2>2, RankTaken
<1>3. s \in [1 .. n -> S] BY <1>2 DEF Sorted
<1>4. s \in Seq(S) /\ Len(s) = n /\ DOMAIN s = 1 .. n BY <1>1, <1>3
<1> HIDE DEF s
<1>5. \A i, j \in 1 .. n : s[i] = s[j] => i = j
  <2>1. SUFFICES ASSUME NEW i \in 1 .. n, NEW j \in 1 .. n, s[i] = s[j] PROVE i = j OBVIOUS
  <2>2. i - 1 = j - 1 BY <1>2, <2>1
  <2> QED BY <1>1, <2>2
<1>6. \A i, j \in 1 .. n : i < j => place[s[i]] < place[s[j]]
  <2>1. SUFFICES ASSUME NEW i \in 1 .. n, NEW j \in 1 .. n, i < j PROVE place[s[i]] < place[s[j]]
    OBVIOUS
  <2>2. s[i] \in S /\ s[j] \in S /\ Rank(S, place, s[i]) = i - 1 /\ Rank(S, place, s[j]) = j - 1
    BY <1>2
  <2>3. place[s[i]] \in Nat /\ place[s[j]] \in Nat BY <2>2 DEF Places
  <2>4. ~ (place[s[j]] < place[s[i]])
    <3>1. SUFFICES ASSUME place[s[j]] < place[s[i]] PROVE FALSE OBVIOUS
    <3>2. j - 1 < i - 1 BY <2>2, <3>1, RankGrows
    <3> QED BY <1>1, <2>1, <3>2
  <2>5. place[s[i]] # place[s[j]]
    <3>1. s[i] # s[j] BY <1>1, <1>5, <2>1
    <3> QED BY <2>2, <3>1 DEF Places
  <2> QED BY <2>3, <2>4, <2>5
<1>7. ToSet(s) = S
  <2>1. ASSUME NEW x \in S PROVE \E k \in 1 .. n : s[k] = x
    <3>1. Rank(S, place, x) \in Nat /\ Rank(S, place, x) < n BY RankType
    <3> DEFINE k == Rank(S, place, x) + 1
    <3>2. k \in 1 .. n /\ k - 1 = Rank(S, place, x) BY <1>1, <3>1
    <3> HIDE DEF k
    <3>3. s[k] \in S /\ Rank(S, place, s[k]) = Rank(S, place, x) BY <1>2, <3>2
    <3>4. s[k] = x BY <3>3, SameRank
    <3> QED BY <3>2, <3>4
  <2>2. \A k \in 1 .. n : s[k] \in S BY <1>2
  <2> QED BY <1>4, <2>1, <2>2 DEF ToSet
<1> QED BY <1>1, <1>4, <1>5, <1>6, <1>7 DEF Listed, s

(* Numbers in ascending order.                                             *)
LEMMA AscendingRight ==
    ASSUME NEW S \in SUBSET Nat, IsFiniteSet(S)
    PROVE  /\ Cardinality(S) \in Nat /\ Ascending(S) \in Seq(S) /\ Len(Ascending(S)) = Cardinality(S)
           /\ DOMAIN Ascending(S) = 1 .. Cardinality(S) /\ ToSet(Ascending(S)) = S
           /\ \A i, j \in DOMAIN Ascending(S) : i < j => Ascending(S)[i] < Ascending(S)[j]
           /\ \A i, j \in DOMAIN Ascending(S) : Ascending(S)[i] = Ascending(S)[j] => i = j
<1> DEFINE place == [x \in S |-> x]
           s == Ascending(S)
<1>1. Places(S, place) BY DEF Places
<1>2. s = Sorted(S, place) BY DEF Ascending
<1> HIDE DEF s, place
<1>3. Listed(S, place, s) BY <1>1, <1>2, SortedRight
<1>4. \A i \in DOMAIN s : s[i] \in S /\ place[s[i]] = s[i] BY <1>3 DEF Listed, place
<1>5. \A i, j \in DOMAIN s : i < j => s[i] < s[j] BY <1>3, <1>4 DEF Listed
<1> QED BY <1>3, <1>5 DEF Listed, s

(* A finite set of numbers has a greatest one, the last in order.          *)
LEMMA FiniteBounded ==
    ASSUME NEW T \in SUBSET Nat, IsFiniteSet(T)
    PROVE  \E n \in Nat : \A y \in T : y <= n
<1> DEFINE s == Ascending(T)
           n == Cardinality(T)
<1>1. /\ n \in Nat /\ s \in Seq(T) /\ DOMAIN s = 1 .. n /\ ToSet(s) = T
      /\ \A i, j \in DOMAIN s : i < j => s[i] < s[j]
  BY AscendingRight
<1> HIDE DEF s, n
<1>2. CASE n = 0
  <2>1. T = {} BY <1>1, <1>2 DEF ToSet
  <2> QED BY <2>1
<1>3. CASE n # 0
  <2>1. n \in 1 .. n BY <1>1, <1>3
  <2>2. s[n] \in T BY <1>1, <2>1 DEF ToSet
  <2>3. ASSUME NEW y \in T PROVE y <= s[n]
    <3>1. PICK i \in 1 .. n : y = s[i] BY <1>1 DEF ToSet
    <3>2. i = n \/ i < n BY <1>1
    <3>3. i < n => s[i] < s[n] BY <1>1, <2>1
    <3>4. y \in Nat /\ s[n] \in Nat BY <2>2
    <3> QED BY <3>1, <3>2, <3>3, <3>4
  <2> QED BY <2>2, <2>3
<1> QED BY <1>2, <1>3

(* No two numbers have names of the same place.                            *)
LEMMA NamesDiffer ==
    ASSUME NEW a \in Nat, NEW b \in Nat,
           (IF a < 10 THEN 11 * a ELSE 11 * (a \div 10) + (a % 10) + 1)
           = (IF b < 10 THEN 11 * b ELSE 11 * (b \div 10) + (b % 10) + 1)
    PROVE  a = b
<1>1. /\ a = 10 * (a \div 10) + (a % 10) /\ a \div 10 \in Nat /\ a % 10 \in 0 .. 9
      /\ b = 10 * (b \div 10) + (b % 10) /\ b \div 10 \in Nat /\ b % 10 \in 0 .. 9
  OBVIOUS
<1> QED BY <1>1

LEMMA NamesRight ==
    ASSUME NEW S \in SUBSET Nat, IsFiniteSet(S)
    PROVE  /\ Cardinality(S) \in Nat /\ ls(S) \in Seq(S) /\ Len(ls(S)) = Cardinality(S)
           /\ DOMAIN ls(S) = 1 .. Cardinality(S) /\ ToSet(ls(S)) = S
<1> DEFINE place == [c \in S |-> IF c < 10 THEN 11 * c ELSE 11 * (c \div 10) + (c % 10) + 1]
<1>1. place \in [S -> Nat] OBVIOUS
<1>2. \A x, y \in S : place[x] = place[y] => x = y BY NamesDiffer
<1>3. Places(S, place) BY <1>1, <1>2 DEF Places
<1>4. ls(S) = Sorted(S, place) BY DEF ls
<1> HIDE DEF place
<1> QED BY <1>3, <1>4, SortedRight DEF Listed

-----------------------------------------------------------------------------
(* What the header and the directories of a machine are.                   *)
LEMMA MachineFacts ==
    ASSUME machine \in Machines
    PROVE  /\ Machine(machine) /\ machine.cpus \in Nat
           /\ machine.online \in SUBSET Nat /\ IsFiniteSet(machine.online)
           /\ \A n : NodeCpus(n) \in SUBSET machine.online /\ IsFiniteSet(NodeCpus(n))
                     /\ Cardinality(NodeCpus(n)) \in Nat
<1>1. Machine(machine) BY MachineAssumption
<1>2. machine.cpus \in Nat /\ machine.online \in SUBSET (0 .. machine.cpus - 1)
  BY <1>1 DEF Machine
<1>3. machine.online \in SUBSET Nat
  <2>1. 0 .. machine.cpus - 1 \in SUBSET Nat BY <1>2
  <2> QED BY <1>2, <2>1
<1>4. IsFiniteSet(machine.online)
  <2>1. machine.cpus - 1 \in Int BY <1>2
  <2>2. IsFiniteSet(0 .. machine.cpus - 1) BY <2>1, FS_Interval
  <2> QED BY <1>2, <2>2, FS_Subset
<1>5. ASSUME NEW n
      PROVE  /\ NodeCpus(n) \in SUBSET machine.online /\ IsFiniteSet(NodeCpus(n))
             /\ Cardinality(NodeCpus(n)) \in Nat
  <2>1. NodeCpus(n) \in SUBSET machine.online BY DEF NodeCpus
  <2>2. IsFiniteSet(NodeCpus(n)) BY <1>4, <2>1, FS_Subset
  <2> QED BY <2>1, <2>2, FS_CardinalityType
<1> QED BY <1>1, <1>2, <1>3, <1>4, <1>5

(* The packages of a node are numbers, and no more than its processors.    *)
LEMMA PackagesFacts ==
    ASSUME machine \in Machines, NEW n
    PROVE  Packages(n) \in SUBSET Nat /\ IsFiniteSet(Packages(n)) /\ Cardinality(Packages(n)) \in Nat
<1>1. /\ Machine(machine) /\ NodeCpus(n) \in SUBSET machine.online /\ IsFiniteSet(NodeCpus(n))
  BY MachineFacts
<1>2. \A c \in NodeCpus(n) : machine.package[c] \in Nat BY <1>1 DEF Machine
<1>3. Packages(n) \in SUBSET Nat BY <1>2 DEF Packages
<1> DEFINE f == [c \in NodeCpus(n) |-> machine.package[c]]
<1>4. f \in Surjection(NodeCpus(n), Packages(n)) BY DEF Surjection, Packages
<1>5. IsFiniteSet(Packages(n)) BY <1>1, <1>4, FS_Surjection
<1> QED BY <1>3, <1>5, FS_CardinalityType

LEMMA HeaderFacts ==
    ASSUME machine \in Machines
    PROVE  /\ CPUSNODE \in Nat /\ SOCKETSNODE \in Nat
           /\ NUMA => CPUSNODE = Cardinality(NodeCpus(0))
           /\ ~NUMA => CPUSNODE = 0
<1>1. Cardinality(NodeCpus(0)) \in Nat BY MachineFacts
<1>2. Max(Packages(0) \cup {0}) + 1 \in Nat
  <2> DEFINE P == Packages(0) \cup {0}
  <2>1. P \in SUBSET Nat /\ P # {} /\ IsFiniteSet(P) BY PackagesFacts, FS_AddElement
  <2> HIDE DEF P
  <2>2. PICK n \in Nat : \A y \in P : y <= n BY <2>1, FiniteBounded
  <2>3. Max(P) \in P BY <2>1, <2>2, MaxRight
  <2> QED BY <2>1, <2>3 DEF P
<1>3. NUMA => SOCKETSNODE = Max(Packages(0) \cup {0}) + 1 BY DEF SOCKETSNODE, Packages
<1>4. ~NUMA => SOCKETSNODE = 0 BY DEF SOCKETSNODE
<1> QED BY <1>1, <1>2, <1>3, <1>4 DEF CPUSNODE

-----------------------------------------------------------------------------
(* The sockets of a list of processors.                                    *)
Bodies(cpus, f, n) ==
    [k \in 0 .. n |->
        IF k = 0 THEN <<>> ELSE AddSocket(f[k - 1], na_get_socket_cpu(cpus[k]))]

(* The recursive definition of SocketsOf() has a solution.                 *)
LEMMA SocketsDefined ==
    ASSUME NEW cpus, NEW n \in Nat
    PROVE  \E f : f = Bodies(cpus, f, n)
<1> DEFINE odd == {m \in Nat : ~ \E f : f = Bodies(cpus, f, m)}
<1>1. ASSUME odd # {} PROVE FALSE
  <2>1. PICK m \in odd : \A j \in odd : m <= j
    <3> HIDE DEF odd
    <3>1. odd \in SUBSET Nat BY DEF odd
    <3> QED BY <1>1, <3>1, LeastNatural
  <2>2. m \in Nat /\ ~ \E f : f = Bodies(cpus, f, m) OBVIOUS
  <2>3. CASE m = 0
    <3> DEFINE f == [k \in 0 .. 0 |-> <<>>]
    <3>1. f = Bodies(cpus, f, 0) BY DEF Bodies
    <3> QED BY <2>2, <2>3, <3>1
  <2>4. CASE m # 0
    <3>1. m - 1 \in Nat /\ m - 1 \notin odd BY <2>1, <2>2, <2>4
    <3>2. PICK f : f = Bodies(cpus, f, m - 1) BY <3>1
    <3> DEFINE g == [k \in 0 .. m |->
                        IF k = m THEN AddSocket(f[m - 1], na_get_socket_cpu(cpus[m])) ELSE f[k]]
    <3>3. \A k \in 0 .. m - 1 : g[k] = f[k] BY <2>2
    <3>4. g[m] = AddSocket(f[m - 1], na_get_socket_cpu(cpus[m])) BY <2>2
    <3>5. DOMAIN g = 0 .. m OBVIOUS
    <3>6. g = [k \in 0 .. m |-> g[k]] OBVIOUS
    <3> HIDE DEF g
    <3>7. \A k \in 0 .. m - 1 :
              f[k] = IF k = 0 THEN <<>> ELSE AddSocket(f[k - 1], na_get_socket_cpu(cpus[k]))
      BY <3>2 DEF Bodies
    <3>8. \A k \in 0 .. m :
              g[k] = IF k = 0 THEN <<>> ELSE AddSocket(g[k - 1], na_get_socket_cpu(cpus[k]))
      <4>1. SUFFICES ASSUME NEW k \in 0 .. m
            PROVE  g[k] = IF k = 0 THEN <<>> ELSE AddSocket(g[k - 1], na_get_socket_cpu(cpus[k]))
        OBVIOUS
      <4>2. CASE k = m
        <5>1. g[m - 1] = f[m - 1] BY <2>2, <2>4, <3>3
        <5> QED BY <2>4, <3>4, <4>2, <5>1
      <4>3. CASE k # m /\ k # 0
        <5>1. k \in 0 .. m - 1 /\ k - 1 \in 0 .. m - 1 BY <2>2, <4>3
        <5>2. g[k] = f[k] /\ g[k - 1] = f[k - 1] BY <3>3, <5>1
        <5>3. f[k] = AddSocket(f[k - 1], na_get_socket_cpu(cpus[k])) BY <3>7, <4>3, <5>1
        <5> QED BY <4>3, <5>2, <5>3
      <4>4. CASE k = 0 /\ k # m
        <5>1. k \in 0 .. m - 1 BY <2>2, <4>4
        <5> QED BY <3>3, <3>7, <4>4, <5>1
      <4> QED BY <4>2, <4>3, <4>4
    <3>9. g = Bodies(cpus, g, m) BY <3>5, <3>6, <3>8 DEF Bodies
    <3> QED BY <2>2, <3>9
  <2> QED BY <2>3, <2>4
<1> QED BY <1>1

(* It computes one entry for each processor.                               *)
LEMMA SocketsStep ==
    ASSUME NEW cpus \in Seq(Nat)
    PROVE  \E f : /\ f[0] = <<>> /\ SocketsOf(cpus) = f[Len(cpus)]
                  /\ \A k \in 1 .. Len(cpus) :
                        f[k] = AddSocket(f[k - 1], na_get_socket_cpu(cpus[k]))
<1> DEFINE n == Len(cpus)
           f == CHOOSE g : g = Bodies(cpus, g, n)
<1>1. n \in Nat OBVIOUS
<1>2. SocketsOf(cpus) = f[n] BY DEF SocketsOf, Bodies
<1>3. f = Bodies(cpus, f, n) BY <1>1, SocketsDefined
<1> HIDE DEF f, n
<1>4. f[0] = <<>> BY <1>1, <1>3 DEF Bodies
<1>5. \A k \in 1 .. n : f[k] = AddSocket(f[k - 1], na_get_socket_cpu(cpus[k]))
  <2>1. SUFFICES ASSUME NEW k \in 1 .. n
                 PROVE  f[k] = AddSocket(f[k - 1], na_get_socket_cpu(cpus[k]))
    OBVIOUS
  <2>2. k \in 0 .. n /\ k # 0 BY <1>1
  <2> QED BY <1>3, <2>2 DEF Bodies
<1> QED BY <1>2, <1>4, <1>5 DEF n

(* A sequence of the sockets in a set, each once.                          *)
Once(f, T) ==
    /\ f \in Seq(T) /\ ToSet(f) = T /\ \A i, j \in DOMAIN f : f[i] = f[j] => i = j

LEMMA OnceLength ==
    ASSUME NEW P, IsFiniteSet(P), NEW T \in SUBSET P, NEW f, Once(f, T)
    PROVE  f \in Seq(P) /\ Len(f) \in Nat /\ Len(f) <= Cardinality(P)
<1>1. f \in Seq(T) BY DEF Once
<1>2. f \in Seq(P) /\ Len(f) \in Nat /\ DOMAIN f = 1 .. Len(f) /\ f \in [1 .. Len(f) -> P]
  BY <1>1
<1>3. f \in Injection(1 .. Len(f), P) BY <1>2 DEF Once, Injection, IsInjective
<1>4. Cardinality(1 .. Len(f)) <= Cardinality(P) BY <1>3, FS_Injection
<1>5. Cardinality(1 .. Len(f)) = Len(f) BY <1>2, FS_Interval
<1> QED BY <1>2, <1>4, <1>5

(* While there is room a socket is looked for among all that were found.   *)
LEMMA AddRight ==
    ASSUME NEW f, NEW T, NEW socket, Once(f, T), SOCKETSNODE \in Nat, Len(f) <= SOCKETSNODE
    PROVE  Once(AddSocket(f, socket), T \cup {socket})
<1>1. /\ f \in Seq(T) /\ Len(f) \in Nat /\ DOMAIN f = 1 .. Len(f) /\ ToSet(f) = T
      /\ \A i, j \in 1 .. Len(f) : f[i] = f[j] => i = j
  BY DEF Once
<1>2. socket \in T <=> \E j \in 1 .. Len(f) : f[j] = socket BY <1>1 DEF ToSet
<1>3. socket \in T <=> \E j \in 1 .. SOCKETSNODE : j <= Len(f) /\ f[j] = socket BY <1>1, <1>2
<1>4. CASE socket \in T
  <2>1. AddSocket(f, socket) = f BY <1>3, <1>4 DEF AddSocket
  <2>2. T \cup {socket} = T BY <1>4
  <2> QED BY <2>1, <2>2
<1>5. CASE socket \notin T
  <2> DEFINE g == Append(f, socket)
  <2>1. AddSocket(f, socket) = g BY <1>3, <1>5 DEF AddSocket
  <2>2. /\ g \in Seq(T \cup {socket}) /\ Len(g) = Len(f) + 1 /\ DOMAIN g = 1 .. Len(f) + 1
        /\ g[Len(f) + 1] = socket /\ \A i \in 1 .. Len(f) : g[i] = f[i]
    BY <1>1
  <2> HIDE DEF g
  <2>3. \A i \in DOMAIN g : i \in 1 .. Len(f) \/ i = Len(f) + 1 BY <1>1, <2>2
  <2>4. \A i \in 1 .. Len(f) : i \in DOMAIN g /\ g[i] \in T /\ g[i] # socket
    BY <1>1, <1>5, <2>2 DEF ToSet
  <2>5. ToSet(g) = T \cup {socket}
    <3>1. ToSet(g) \subseteq T \cup {socket} BY <2>2, <2>3, <2>4 DEF ToSet
    <3>2. \A t \in T : t \in ToSet(g)
      <4>1. SUFFICES ASSUME NEW t \in T PROVE t \in ToSet(g) OBVIOUS
      <4>2. PICK i \in 1 .. Len(f) : f[i] = t BY <1>1 DEF ToSet
      <4> QED BY <2>2, <2>4, <4>2 DEF ToSet
    <3>3. socket \in ToSet(g)
      <4>1. Len(f) + 1 \in DOMAIN g BY <1>1, <2>2
      <4> QED BY <2>2, <4>1 DEF ToSet
    <3> QED BY <3>1, <3>2, <3>3
  <2>6. \A i, j \in DOMAIN g : g[i] = g[j] => i = j
    <3>1. SUFFICES ASSUME NEW i \in DOMAIN g, NEW j \in DOMAIN g, g[i] = g[j] PROVE i = j OBVIOUS
    <3>2. CASE i \in 1 .. Len(f) /\ j \in 1 .. Len(f) BY <1>1, <2>2, <3>1, <3>2
    <3>3. CASE i = Len(f) + 1 /\ j = Len(f) + 1 BY <3>3
    <3>4. CASE i = Len(f) + 1 /\ j \in 1 .. Len(f) BY <2>2, <2>4, <3>1, <3>4
    <3>5. CASE j = Len(f) + 1 /\ i \in 1 .. Len(f) BY <2>2, <2>4, <3>1, <3>5
    <3> QED BY <2>3, <3>2, <3>3, <3>4, <3>5
  <2> QED BY <2>1, <2>2, <2>5, <2>6 DEF Once
<1> QED BY <1>4, <1>5

(* If there is room for all of them, each socket is found once.            *)
LEMMA SocketsRight ==
    ASSUME SOCKETSNODE \in Nat, NEW cpus \in Seq(Nat), NEW P, IsFiniteSet(P),
           P = {na_get_socket_cpu(cpus[i]) : i \in 1 .. Len(cpus)}, Cardinality(P) <= SOCKETSNODE
    PROVE  /\ Once(SocketsOf(cpus), P)
           /\ Len(SocketsOf(cpus)) \in Nat /\ Len(SocketsOf(cpus)) <= SOCKETSNODE
<1> DEFINE n == Len(cpus)
           Up(k) == {na_get_socket_cpu(cpus[i]) : i \in 1 .. k}
<1>1. PICK f : /\ f[0] = <<>> /\ SocketsOf(cpus) = f[n]
               /\ \A k \in 1 .. n : f[k] = AddSocket(f[k - 1], na_get_socket_cpu(cpus[k]))
  BY SocketsStep
<1>2. n \in Nat /\ Cardinality(P) \in Nat BY FS_CardinalityType
<1>3. \A k \in 0 .. n : Up(k) \in SUBSET P BY <1>2
<1>4. P = Up(n) OBVIOUS
<1>5. Up(0) = {} OBVIOUS
<1>6. \A k \in 1 .. n : Up(k) = Up(k - 1) \cup {na_get_socket_cpu(cpus[k])}
  <2>1. \A k \in 1 .. n : 1 .. k = (1 .. k - 1) \cup {k} BY <1>2
  <2> QED BY <2>1
<1> HIDE DEF Up
<1> DEFINE odd == {k \in 0 .. n : ~ Once(f[k], Up(k))}
<1>7. ASSUME odd # {} PROVE FALSE
  <2>1. odd \in SUBSET Nat BY <1>2
  <2>2. PICK k \in odd : \A j \in odd : k <= j
    <3> HIDE DEF odd
    <3> QED BY <1>7, <2>1, LeastNatural
  <2>3. k \in 0 .. n /\ k \in Nat /\ ~ Once(f[k], Up(k)) BY <2>1
  <2>4. CASE k = 0
    <3>1. Once(<<>>, {}) BY DEF Once, ToSet
    <3> QED BY <1>1, <1>5, <2>3, <2>4, <3>1
  <2>5. CASE k # 0
    <3>1. k \in 1 .. n /\ k - 1 \in 0 .. n /\ k - 1 \notin odd BY <1>2, <2>2, <2>3, <2>5
    <3>2. Once(f[k - 1], Up(k - 1)) BY <3>1
    <3>3. Len(f[k - 1]) \in Nat /\ Len(f[k - 1]) <= Cardinality(P)
      BY <1>3, <3>1, <3>2, OnceLength
    <3>4. Len(f[k - 1]) <= SOCKETSNODE BY <1>2, <3>3
    <3>5. Once(f[k], Up(k)) BY <1>1, <1>6, <3>1, <3>2, <3>4, AddRight
    <3> QED BY <2>3, <3>5
  <2> QED BY <2>4, <2>5
<1>8. Once(SocketsOf(cpus), P)
  <2>1. n \in 0 .. n BY <1>2
  <2> QED BY <1>1, <1>4, <1>7, <2>1
<1>9. Len(SocketsOf(cpus)) \in Nat /\ Len(SocketsOf(cpus)) <= Cardinality(P) BY <1>8, OnceLength
<1> QED BY <1>2, <1>8, <1>9

-----------------------------------------------------------------------------
(* What every query leaves true.  The processors of a node that are        *)
(* answered are the first as many in the order of their names as node 0    *)
(* has.                                                                    *)
CpusAnswer(n) == Ascending(ToSet(SubSeq(ls(NodeCpus(n)), 1, Cardinality(NodeCpus(0)))))
Full(n) == Cardinality(NodeCpus(n)) >= Cardinality(NodeCpus(0))

HashInv ==
    HashCpuNode # <<>> => HashCpuNode = [cpu \in 0 .. MAXCPUS - 1 |-> get_nodeidcpu(cpu)]

(* A query for processors calls the one for sockets only on a machine      *)
(* where the processors are sought through the sockets, and there the one  *)
(* for sockets has no processors to go on with.                            *)
FrameInv(i) ==
    LET frame == stack[i] IN
    /\ frame.query = "na_get_cacheShare_cores" =>
          frame.id \in machine.online /\ na_get_shared_cacheLevel # -1 /\ Len(stack) = 1
    /\ frame.query # "na_get_cacheShare_cores" => frame.id \in machine.nodes
    /\ frame.query = "na_get_cpusidnode" /\ i < Len(stack) => ThroughSockets
    /\ frame.query = "na_get_socketsId_node" =>
          /\ i < Len(stack) =>
                stack[i + 1].query = "na_get_cpusidnode" /\ stack[i + 1].id = frame.id
          /\ frame.cpus # <<>> =>
                ~ThroughSockets /\ Full(frame.id) /\ frame.cpus = CpusAnswer(frame.id)
Frames == [query : Queries, id : machine.nodes \cup machine.online, cpus : Seq(Nat)]
StackInv == stack \in Seq(Frames) /\ \A i \in DOMAIN stack : FrameInv(i)

AnswerInv ==
    Answered("na_get_cpusidnode") =>
        answer.id \in machine.nodes /\ Full(answer.id) /\ answer.ids = CpusAnswer(answer.id)

TopologyInv ==
    /\ machine \in Machines /\ streams \in Nat /\ alive \in BOOLEAN
    /\ HashInv /\ StackInv /\ AnswerInv /\ SiblingsRight /\ SocketsOnce /\ RegularSurvives

-----------------------------------------------------------------------------
(* Single queries.                                                         *)
LEMMA SequenceOf ==
    ASSUME NEW S, NEW T, S \subseteq T, NEW s \in Seq(S)
    PROVE  s \in Seq(T) /\ Len(s) \in Nat /\ DOMAIN s = 1 .. Len(s)
<1>1. Len(s) \in Nat /\ DOMAIN s = 1 .. Len(s) /\ s \in [1 .. Len(s) -> S] OBVIOUS
<1>2. s \in [1 .. Len(s) -> T] BY <1>1
<1> QED BY <1>1, <1>2

(* The processors of a node that are answered.                             *)
LEMMA CpusAnswerRight ==
    ASSUME machine \in Machines, NEW n, Full(n)
    PROVE  LET s == CpusAnswer(n) IN
           /\ s \in Seq(Nat) /\ DOMAIN s = 1 .. Len(s) /\ ToSet(s) \subseteq NodeCpus(n)
           /\ \A i, j \in DOMAIN s : i < j => s[i] < s[j]
           /\ Cardinality(NodeCpus(n)) <= Cardinality(NodeCpus(0)) =>
                 ToSet(s) = NodeCpus(n) /\ Len(s) = Cardinality(NodeCpus(n))
<1> DEFINE names == ls(NodeCpus(n))
           t == Cardinality(NodeCpus(0))
           some == SubSeq(names, 1, t)
           T == ToSet(some)
           s == CpusAnswer(n)
<1>1. /\ NodeCpus(n) \in SUBSET Nat /\ IsFiniteSet(NodeCpus(n))
      /\ Cardinality(NodeCpus(n)) \in Nat /\ t \in Nat /\ Cardinality(NodeCpus(n)) >= t
  BY MachineFacts DEF Full
<1>2. /\ names \in Seq(NodeCpus(n)) /\ Len(names) = Cardinality(NodeCpus(n))
      /\ DOMAIN names = 1 .. Len(names) /\ ToSet(names) = NodeCpus(n)
  BY <1>1, NamesRight
<1>3. s = Ascending(T) BY DEF CpusAnswer
<1> HIDE DEF names, t, s
<1>4. some = [i \in 1 .. t |-> names[i]] BY <1>1, <1>2
<1>5. T \subseteq NodeCpus(n)
  <2>1. \A i \in 1 .. t : names[i] \in NodeCpus(n) BY <1>1, <1>2
  <2> QED BY <1>4, <2>1 DEF ToSet
<1>6. Cardinality(NodeCpus(n)) <= t => T = NodeCpus(n)
  <2>1. SUFFICES ASSUME Cardinality(NodeCpus(n)) <= t PROVE T = NodeCpus(n) OBVIOUS
  <2>2. DOMAIN names = 1 .. t BY <1>1, <1>2, <2>1
  <2> QED BY <1>2, <1>4, <2>2 DEF ToSet
<1> HIDE DEF T, some
<1>7. T \in SUBSET Nat /\ IsFiniteSet(T) BY <1>1, <1>5, FS_Subset
<1>8. /\ s \in Seq(T) /\ Len(s) = Cardinality(T) /\ DOMAIN s = 1 .. Cardinality(T)
      /\ ToSet(s) = T /\ \A i, j \in DOMAIN s : i < j => s[i] < s[j]
  BY <1>3, <1>7, AscendingRight
<1>9. s \in Seq(Nat) BY <1>7, <1>8, SequenceOf
<1>10. DOMAIN s = 1 .. Len(s) BY <1>8
<1>11. ToSet(s) \subseteq NodeCpus(n) BY <1>5, <1>8
<1>12. Cardinality(NodeCpus(n)) <= t => ToSet(s) = NodeCpus(n) /\ Len(s) = Cardinality(NodeCpus(n))
  BY <1>6, <1>8
<1> QED BY <1>8, <1>9, <1>10, <1>11, <1>12 DEF s, t

(* A list of the processors of a cache.                                    *)
LEMMA ListRight ==
    ASSUME machine \in Machines, NEW index \in Nat, NEW c \in machine.online
    PROVE  LET list == shared_cpu_list(index, c) IN
           /\ list \in Seq(Nat) /\ Len(list) \in Nat /\ DOMAIN list = 1 .. Len(list)
           /\ \A i, j \in DOMAIN list : list[i] = list[j] => i = j
           /\ index >= machine.indexes => Len(list) = 0
<1> DEFINE sharers == IF index < machine.indexes THEN machine.share[index][c] ELSE {}
           firsts == {d \in sharers : d - 1 \notin sharers}
           list == shared_cpu_list(index, c)
<1>1. /\ Machine(machine) /\ machine.indexes \in Nat
      /\ machine.online \in SUBSET Nat /\ IsFiniteSet(machine.online)
  BY MachineFacts DEF Machine
<1>2. sharers \in SUBSET machine.online
  <2>1. index < machine.indexes => index \in 0 .. machine.indexes - 1 BY <1>1
  <2> QED BY <1>1, <2>1 DEF Machine
<1>3. firsts \in SUBSET Nat /\ IsFiniteSet(firsts) BY <1>1, <1>2, FS_Subset
<1>4. list = Ascending(firsts) BY DEF shared_cpu_list
<1>5. index >= machine.indexes => firsts = {} BY <1>1
<1> HIDE DEF list, firsts
<1>6. /\ Cardinality(firsts) \in Nat /\ list \in Seq(firsts) /\ Len(list) = Cardinality(firsts)
      /\ DOMAIN list = 1 .. Cardinality(firsts)
      /\ \A i, j \in DOMAIN list : list[i] = list[j] => i = j
  BY <1>3, <1>4, AscendingRight
<1>7. list \in Seq(Nat) /\ Len(list) \in Nat /\ DOMAIN list = 1 .. Len(list)
  BY <1>3, <1>6, SequenceOf
<1>8. index >= machine.indexes => Len(list) = 0 BY <1>5, <1>6, FS_EmptySet
<1> QED BY <1>6, <1>7, <1>8 DEF list

(* A shared cache that was found is one of the second index or above, and  *)
(* shared by several ranges.                                               *)
LEMMA LevelRight ==
    ASSUME machine \in Machines
    PROVE  LET level == na_get_shared_cacheLevel IN
           /\ level # -1 => /\ level \in Nat /\ level >= 2 /\ level <= na_get_numcaches
                            /\ level < machine.indexes
                            /\ na_get_cache_cores = Len(shared_cpu_list(level, 0))
                            /\ na_get_cache_cores \in Nat /\ na_get_cache_cores > 1
           /\ machine.indexes \in Nat /\ na_get_numcaches \in Nat
           /\ na_get_numcaches \in {machine.indexes - 1, machine.indexes}
           /\ CacheStreams \in Nat
<1> DEFINE level == na_get_shared_cacheLevel
<1>1. /\ machine.indexes \in Nat /\ na_get_numcaches \in Nat /\ 0 \in machine.online
      /\ na_get_numcaches \in {machine.indexes - 1, machine.indexes}
  BY MachineFacts DEF Machine, na_get_numcaches
<1>2. SharedIndexes \in SUBSET Nat BY <1>1 DEF SharedIndexes
<1>3. SharedIndexes # {} => level \in SharedIndexes BY <1>2, MinRight DEF na_get_shared_cacheLevel
<1>4. SharedIndexes = {} => level = -1 BY DEF na_get_shared_cacheLevel
<1>5. SharedIndexes # {} => na_get_cache_cores = Len(shared_cpu_list(level, 0))
  BY DEF na_get_cache_cores
<1>6. ASSUME SharedIndexes # {}
      PROVE  /\ level \in Nat /\ level >= 2 /\ level <= na_get_numcaches
             /\ Len(shared_cpu_list(level, 0)) > 1
  BY <1>1, <1>3, <1>6 DEF SharedIndexes
<1> HIDE DEF level
<1>7. ASSUME SharedIndexes # {} PROVE level < machine.indexes
  <2>1. Len(shared_cpu_list(level, 0)) # 0 BY <1>6, <1>7
  <2>2. ~ (level >= machine.indexes) BY <1>1, <1>6, <1>7, <2>1, ListRight
  <2> QED BY <1>1, <1>6, <1>7, <2>2
<1>8. SharedIndexes # {} => Len(shared_cpu_list(level, 0)) \in Nat BY <1>1, <1>6, ListRight
<1>9. CacheStreams \in Nat
  <2>1. CASE SharedIndexes # {} BY <1>6, <2>1 DEF CacheStreams, Scanned, level
  <2>2. CASE SharedIndexes = {} BY <1>1, <2>2 DEF CacheStreams, Scanned
  <2> QED BY <2>1, <2>2
<1> QED BY <1>1, <1>4, <1>5, <1>6, <1>7, <1>8, <1>9 DEF level

(* No cache below the last level of a regular machine is shared, and the   *)
(* last by as many ranges for every processor.                             *)
LEMMA RegularLevel ==
    ASSUME machine \in Machines, Regular
    PROVE  /\ ~ThroughSockets
           /\ na_get_shared_cacheLevel # -1 =>
                 \A c \in machine.online :
                    Len(shared_cpu_list(na_get_shared_cacheLevel, c)) = na_get_cache_cores
<1> DEFINE level == na_get_shared_cacheLevel
<1>1. ASSUME level # -1
      PROVE  /\ level \in Nat /\ level >= 2 /\ level <= na_get_numcaches /\ level < machine.indexes
             /\ na_get_cache_cores = Len(shared_cpu_list(level, 0))
             /\ na_get_cache_cores \in Nat /\ na_get_cache_cores # 1
  BY <1>1, LevelRight
<1> HIDE DEF level
<1>2. /\ machine.indexes \in Nat /\ na_get_numcaches = machine.entries - 1
      /\ machine.entries \in {machine.indexes, machine.indexes + 1} /\ 0 \in machine.online
  BY MachineFacts DEF Machine, na_get_numcaches
<1>3. \A i \in 2 .. machine.entries - 2 : Len(shared_cpu_list(i, 0)) = 1 BY DEF Regular
<1>4. level # -1 => level = na_get_numcaches
  <2>1. SUFFICES ASSUME level # -1, level # na_get_numcaches PROVE FALSE OBVIOUS
  <2>2. level \in 2 .. machine.entries - 2 BY <1>1, <1>2, <2>1
  <2>3. Len(shared_cpu_list(level, 0)) = 1 BY <1>3, <2>2
  <2> QED BY <1>1, <2>1, <2>3
<1>5. ~ThroughSockets BY <1>4 DEF ThroughSockets, level
<1>6. level # -1 => level = machine.indexes - 1 BY <1>1, <1>2, <1>4
<1>7. \A c \in machine.online :
         Len(shared_cpu_list(machine.indexes - 1, c)) = Len(shared_cpu_list(machine.indexes - 1, 0))
  BY DEF Regular
<1>8. level # -1 =>
         \A c \in machine.online : Len(shared_cpu_list(level, c)) = na_get_cache_cores
  BY <1>1, <1>6, <1>7
<1> QED BY <1>5, <1>8 DEF level

(* The first or the last of a list has all the others for siblings.        *)
LEMMA SiblingsAnswer ==
    ASSUME NEW list \in Seq(Nat), NEW cpu, na_get_cache_cores = Len(list), Len(list) > 1,
           \A i, j \in DOMAIN list : list[i] = list[j] => i = j,
           cpu \in {Head(list), Last(list)}
    PROVE  /\ ToSet(Siblings(cpu, list)) = ToSet(list) \ {cpu}
           /\ IsInjective(Siblings(cpu, list))
<1> DEFINE n == Len(list)
           s == Siblings(cpu, list)
<1>1. /\ n \in Nat /\ n > 1 /\ DOMAIN list = 1 .. n /\ na_get_cache_cores = n
      /\ \A i, j \in 1 .. n : list[i] = list[j] => i = j
  OBVIOUS
<1>2. cpu = list[1] \/ cpu = list[n] BY <1>1 DEF Last
<1>3. DOMAIN s = 1 .. n - 1 BY <1>1 DEF Siblings
<1>4. CASE cpu = list[1]
  <2>1. \A i \in 1 .. n - 1 : i + 1 \in 1 .. n /\ list[i + 1] # cpu /\ s[i] = list[i + 1]
    <3>1. SUFFICES ASSUME NEW i \in 1 .. n - 1
                   PROVE  i + 1 \in 1 .. n /\ list[i + 1] # cpu /\ s[i] = list[i + 1]
      OBVIOUS
    <3>2. i + 1 \in 1 .. n /\ i + 1 # 1 /\ 1 \in 1 .. n /\ ~ (i <= 0) BY <1>1
    <3>3. list[i + 1] # cpu BY <1>1, <1>4, <3>2
    <3>4. s[i] = list[i + 1] BY <1>1, <1>4, <3>2, <3>3 DEF Siblings
    <3> QED BY <3>2, <3>3, <3>4
  <2>2. \A j \in 1 .. n : j = 1 \/ (j - 1 \in 1 .. n - 1 /\ j - 1 + 1 = j) BY <1>1
  <2> HIDE DEF s, n
  <2>3. ToSet(s) = ToSet(list) \ {cpu}
    <3>1. \A x \in ToSet(s) : x \in ToSet(list) \ {cpu}
      <4>1. SUFFICES ASSUME NEW x \in ToSet(s) PROVE x \in ToSet(list) /\ x # cpu OBVIOUS
      <4>2. PICK i \in 1 .. n - 1 : x = s[i] BY <1>3 DEF ToSet
      <4>3. i + 1 \in 1 .. n /\ x = list[i + 1] /\ x # cpu BY <4>2, <2>1
      <4> QED BY <1>1, <4>3 DEF ToSet
    <3>2. \A x \in ToSet(list) \ {cpu} : x \in ToSet(s)
      <4>1. SUFFICES ASSUME NEW x \in ToSet(list), x # cpu PROVE x \in ToSet(s) OBVIOUS
      <4>2. PICK j \in 1 .. n : x = list[j] BY <1>1 DEF ToSet
      <4>3. j - 1 \in 1 .. n - 1 /\ s[j - 1] = x BY <1>4, <2>1, <2>2, <4>1, <4>2
      <4> QED BY <1>3, <4>3 DEF ToSet
    <3> QED BY <3>1, <3>2
  <2>4. \A i, j \in DOMAIN s : s[i] = s[j] => i = j
    <3>1. SUFFICES ASSUME NEW i \in 1 .. n - 1, NEW j \in 1 .. n - 1, s[i] = s[j] PROVE i = j
      BY <1>3
    <3>2. i + 1 = j + 1 BY <1>1, <2>1, <3>1
    <3> QED BY <1>1, <3>2
  <2> QED BY <2>3, <2>4 DEF s, IsInjective
<1>5. CASE cpu = list[n]
  <2>1. list[1] # cpu BY <1>1, <1>5
  <2>2. \A i \in 1 .. n - 1 : i \in 1 .. n /\ list[i] # cpu /\ s[i] = list[i]
    <3>1. SUFFICES ASSUME NEW i \in 1 .. n - 1
                   PROVE  i \in 1 .. n /\ list[i] # cpu /\ s[i] = list[i]
      OBVIOUS
    <3>2. i \in 1 .. n /\ i # n /\ n \in 1 .. n /\ i + 1 - 1 = i BY <1>1
    <3>3. list[i] # cpu BY <1>1, <1>5, <3>2
    <3>4. i <= 1 => i = 1 BY <3>1
    <3>5. s[i] = list[i] BY <1>1, <2>1, <3>2, <3>3, <3>4 DEF Siblings
    <3> QED BY <3>2, <3>3, <3>5
  <2>3. \A j \in 1 .. n : j = n \/ j \in 1 .. n - 1 BY <1>1
  <2> HIDE DEF s, n
  <2>4. ToSet(s) = ToSet(list) \ {cpu}
    <3>1. \A x \in ToSet(s) : x \in ToSet(list) \ {cpu}
      <4>1. SUFFICES ASSUME NEW x \in ToSet(s) PROVE x \in ToSet(list) /\ x # cpu OBVIOUS
      <4>2. PICK i \in 1 .. n - 1 : x = s[i] BY <1>3 DEF ToSet
      <4>3. i \in 1 .. n /\ x = list[i] /\ x # cpu BY <4>2, <2>2
      <4> QED BY <1>1, <4>3 DEF ToSet
    <3>2. \A x \in ToSet(list) \ {cpu} : x \in ToSet(s)
      <4>1. SUFFICES ASSUME NEW x \in ToSet(list), x # cpu PROVE x \in ToSet(s) OBVIOUS
      <4>2. PICK j \in 1 .. n : x = list[j] BY <1>1 DEF ToSet
      <4>3. j \in 1 .. n - 1 /\ s[j] = x BY <1>5, <2>2, <2>3, <4>1, <4>2
      <4> QED BY <1>3, <4>3 DEF ToSet
    <3> QED BY <3>1, <3>2
  <2>5. \A i, j \in DOMAIN s : s[i] = s[j] => i = j BY <1>1, <1>3, <2>2
  <2> QED BY <2>4, <2>5 DEF s, IsInjective
<1> QED BY <1>2, <1>4, <1>5

(* The sockets that are found for the processors of a full node that is    *)
(* not larger than node 0.                                                 *)
LEMMA SocketsAnswer ==
    ASSUME machine \in Machines, NEW n, Full(n), Cardinality(NodeCpus(n)) <= Cardinality(NodeCpus(0)),
           NUMA, Cardinality(Packages(n)) <= SOCKETSNODE
    PROVE  LET found == SocketsOf(SubSeq(CpusAnswer(n), 1, CPUSNODE)) IN
           Once(found, Packages(n)) /\ Len(found) \in Nat /\ Len(found) <= SOCKETSNODE
<1> DEFINE s == CpusAnswer(n)
           cpus == SubSeq(s, 1, CPUSNODE)
<1>1. /\ CPUSNODE \in Nat /\ SOCKETSNODE \in Nat /\ CPUSNODE = Cardinality(NodeCpus(0))
      /\ Cardinality(NodeCpus(n)) \in Nat
  BY HeaderFacts, MachineFacts
<1>2. /\ s \in Seq(Nat) /\ DOMAIN s = 1 .. Len(s) /\ ToSet(s) = NodeCpus(n)
      /\ Len(s) = Cardinality(NodeCpus(n))
  BY CpusAnswerRight
<1>3. Len(s) = CPUSNODE BY <1>1, <1>2 DEF Full
<1> HIDE DEF s
<1>4. cpus = s BY <1>1, <1>2, <1>3
<1>5. IsFiniteSet(Packages(n)) BY PackagesFacts
<1>6. Packages(n) = {na_get_socket_cpu(s[i]) : i \in 1 .. Len(s)}
  <2>1. NodeCpus(n) = {s[i] : i \in 1 .. Len(s)} BY <1>2 DEF ToSet
  <2>2. \A c \in NodeCpus(n) : na_get_socket_cpu(c) = machine.package[c]
    BY MachineFacts DEF na_get_socket_cpu
  <2> QED BY <2>1, <2>2 DEF Packages
<1> HIDE DEF cpus
<1>7. Once(SocketsOf(s), Packages(n)) /\ Len(SocketsOf(s)) \in Nat /\ Len(SocketsOf(s)) <= SOCKETSNODE
  BY <1>1, <1>2, <1>5, <1>6, SocketsRight
<1> QED BY <1>4, <1>7 DEF s, cpus

-----------------------------------------------------------------------------
(* What is said of the machine stays true of it.                           *)
LEMMA SameNodes ==
    ASSUME machine' = machine
    PROVE  /\ \A n : NodeCpus(n)' = NodeCpus(n) /\ Packages(n)' = Packages(n)
                     /\ CpusAnswer(n)' = CpusAnswer(n) /\ (Full(n)' <=> Full(n))
           /\ (NUMA' <=> NUMA) /\ CPUSNODE' = CPUSNODE /\ SOCKETSNODE' = SOCKETSNODE
           /\ MAXCPUS' = MAXCPUS /\ \A c : get_nodeidcpu(c)' = get_nodeidcpu(c)
<1>1. \A n : NodeCpus(n)' = NodeCpus(n) BY DEF NodeCpus
<1>2. \A n : Packages(n)' = Packages(n) BY <1>1 DEF Packages
<1>3. \A n : CpusAnswer(n)' = CpusAnswer(n) BY <1>1 DEF CpusAnswer
<1>4. \A n : Full(n)' <=> Full(n) BY <1>1 DEF Full
<1>5. NUMA' <=> NUMA BY DEF NUMA
<1>6. CPUSNODE' = CPUSNODE BY <1>1, <1>5 DEF CPUSNODE
<1>7. Packages(0)' = Packages(0) BY <1>2
<1>8. SOCKETSNODE' = SOCKETSNODE
  <2>1. SOCKETSNODE = IF NUMA THEN Max(Packages(0) \cup {0}) + 1 ELSE 0
    BY DEF SOCKETSNODE, Packages
  <2>2. SOCKETSNODE' = IF NUMA' THEN Max(Packages(0)' \cup {0}) + 1 ELSE 0
    BY DEF SOCKETSNODE, Packages
  <2> QED BY <1>5, <1>7, <2>1, <2>2
<1>9. MAXCPUS' = MAXCPUS BY <1>1, <1>5 DEF MAXCPUS
<1>10. MAXNODES' = MAXNODES BY <1>5 DEF MAXNODES
<1>11. ASSUME NEW c PROVE get_nodeidcpu(c)' = get_nodeidcpu(c)
  <2> DEFINE stops == {i \in 0 .. MAXNODES - 1 : i \notin machine.nodes \/ c \in NodeCpus(i)}
  <2>1. stops' = stops BY <1>1, <1>10
  <2>2. get_nodeidcpu(c) = IF MAXNODES <= 1 THEN 0
                           ELSE IF stops = {} THEN -1
                           ELSE IF Min(stops) \in machine.nodes THEN Min(stops) ELSE 0
    BY DEF get_nodeidcpu
  <2>3. get_nodeidcpu(c)' = IF MAXNODES' <= 1 THEN 0
                            ELSE IF stops' = {} THEN -1
                            ELSE IF Min(stops') \in machine'.nodes THEN Min(stops') ELSE 0
    BY DEF get_nodeidcpu
  <2> HIDE DEF stops
  <2> QED BY <1>10, <2>1, <2>2, <2>3
<1> QED BY <1>1, <1>2, <1>3, <1>4, <1>5, <1>6, <1>8, <1>9, <1>11

LEMMA SameCaches ==
    ASSUME machine' = machine
    PROVE  /\ \A i, c : shared_cpu_list(i, c)' = shared_cpu_list(i, c)
           /\ na_get_shared_cacheLevel' = na_get_shared_cacheLevel
           /\ na_get_cache_cores' = na_get_cache_cores /\ CacheStreams' = CacheStreams
           /\ (ThroughSockets' <=> ThroughSockets) /\ (Regular' <=> Regular)
<1>1. ASSUME NEW i, NEW c PROVE shared_cpu_list(i, c)' = shared_cpu_list(i, c)
  BY DEF shared_cpu_list
<1>2. na_get_numcaches' = na_get_numcaches BY DEF na_get_numcaches
<1>3. SharedIndexes' = SharedIndexes BY <1>1, <1>2 DEF SharedIndexes
<1>4. na_get_shared_cacheLevel' = na_get_shared_cacheLevel BY <1>3 DEF na_get_shared_cacheLevel
<1>5. na_get_cache_cores' = na_get_cache_cores
  BY <1>1, <1>2, <1>3, <1>4 DEF na_get_cache_cores
<1>6. Scanned' = Scanned BY <1>2, <1>3, <1>4 DEF Scanned
<1>7. CacheStreams' = CacheStreams BY <1>6 DEF CacheStreams
<1>8. ThroughSockets' <=> ThroughSockets BY <1>2, <1>4 DEF ThroughSockets
<1>9. Regular' <=> Regular BY <1>1, SameNodes DEF Regular
<1> QED BY <1>1, <1>4, <1>5, <1>7, <1>8, <1>9

(* A step that answers nothing, and ends nothing.                          *)
LEMMA SameAnswer ==
    ASSUME TopologyInv, UNCHANGED <<machine, answer>>
    PROVE  AnswerInv' /\ SiblingsRight' /\ SocketsOnce'
<1>1. AnswerInv' BY SameNodes DEF TopologyInv, AnswerInv, Answered
<1>2. SiblingsRight' BY SameCaches DEF TopologyInv, SiblingsRight, Answered
<1>3. SocketsOnce' BY SameNodes DEF TopologyInv, SocketsOnce, Answered
<1> QED BY <1>1, <1>2, <1>3

LEMMA SameHash ==
    ASSUME TopologyInv, UNCHANGED <<machine, HashCpuNode>>
    PROVE  HashInv'
BY SameNodes DEF TopologyInv, HashInv

LEMMA SameStack ==
    ASSUME TopologyInv, UNCHANGED <<machine, stack>>
    PROVE  StackInv'
<1>1. stack \in Seq(Frames) /\ \A i \in DOMAIN stack : FrameInv(i) BY DEF TopologyInv, StackInv
<1>2. Frames' = Frames BY DEF Frames
<1>3. ASSUME NEW i \in DOMAIN stack PROVE FrameInv(i)'
  <2>1. FrameInv(i) BY <1>1
  <2> QED BY <2>1, SameNodes, SameCaches DEF FrameInv
<1> QED BY <1>1, <1>2, <1>3 DEF StackInv

-----------------------------------------------------------------------------
(* Calls.  The frame on top, and what it is of.                            *)
LEMMA TopFacts ==
    ASSUME TopologyInv, stack # <<>>
    PROVE  /\ Len(stack) \in Nat \ {0} /\ DOMAIN stack = 1 .. Len(stack)
           /\ Len(stack) \in DOMAIN stack /\ Top \in Frames /\ FrameInv(Len(stack))
           /\ Top = stack[Len(stack)] /\ \A i \in DOMAIN stack : stack[i] \in Frames /\ FrameInv(i)
<1>1. stack \in Seq(Frames) /\ \A i \in DOMAIN stack : FrameInv(i) BY DEF TopologyInv, StackInv
<1>2. /\ Len(stack) \in Nat \ {0} /\ DOMAIN stack = 1 .. Len(stack)
      /\ \A i \in 1 .. Len(stack) : stack[i] \in Frames
  BY <1>1
<1>3. Len(stack) \in DOMAIN stack BY <1>2
<1> QED BY <1>1, <1>2, <1>3 DEF Top

(* The process may crash only where a regular machine allows it.           *)
LEMMA CrashStep ==
    ASSUME TopologyInv, Crash, Regular => ~Room(CacheStreams + 1)
    PROVE  TopologyInv'
<1>1. UNCHANGED <<machine, HashCpuNode, stack, answer, streams>> /\ alive' = FALSE BY DEF Crash
<1>2. RegularSurvives'
  <2>1. Room(CacheStreams + 1)' <=> Room(CacheStreams + 1) BY <1>1, SameCaches DEF Room
  <2>2. Regular' <=> Regular BY <1>1, SameCaches
  <2> QED BY <2>1, <2>2 DEF RegularSurvives
<1>3. machine' \in Machines /\ streams' \in Nat /\ alive' \in BOOLEAN BY <1>1 DEF TopologyInv
<1>4. HashInv' BY <1>1, SameHash
<1>5. StackInv' BY <1>1, SameStack
<1>6. AnswerInv' /\ SiblingsRight' /\ SocketsOnce' BY <1>1, SameAnswer
<1> QED BY <1>2, <1>3, <1>4, <1>5, <1>6 DEF TopologyInv

(* The two calls of a query by another.                                    *)
CallOf(query, id) ==
    /\ id = Top.id /\ id \in machine.nodes
    /\ \/ Top.query = "na_get_cpusidnode" /\ ThroughSockets /\ query = "na_get_socketsId_node"
       \/ Top.query = "na_get_socketsId_node" /\ Top.cpus = <<>> /\ query = "na_get_cpusidnode"

LEMMA EnterStep ==
    ASSUME TopologyInv, stack # <<>>, alive, NEW query, NEW id, NEW opened \in Nat,
           Enter(query, id, opened), CallOf(query, id),
           Regular => Len(stack) < StackLimit
    PROVE  TopologyInv'
<1>0. PICK n \in Nat : n = Len(stack) BY TopFacts
<1> DEFINE frame == Frame(query, id)
<1>1. CASE ~ (n < StackLimit)
  <2>1. Crash BY <1>0, <1>1 DEF Enter
  <2>2. ~Regular BY <1>0, <1>1
  <2> QED BY <2>1, <2>2, CrashStep
<1>2. CASE n < StackLimit
  <2>1. /\ stack' = Append(stack, frame) /\ streams' = streams + opened
        /\ UNCHANGED <<machine, HashCpuNode, answer, alive>>
    BY <1>0, <1>2 DEF Enter
  <2>2. /\ n \in Nat \ {0} /\ DOMAIN stack = 1 .. n /\ stack \in Seq(Frames)
        /\ \A i \in 1 .. n : stack[i] \in Frames /\ FrameInv(i)
    BY <1>0, TopFacts DEF TopologyInv, StackInv
  <2>3. /\ frame = [query |-> query, id |-> id, cpus |-> <<>>] /\ frame \in Frames
        /\ query \in {"na_get_cpusidnode", "na_get_socketsId_node"} /\ id \in machine.nodes
    <3>1. query \in {"na_get_cpusidnode", "na_get_socketsId_node"} /\ id \in machine.nodes
      BY DEF CallOf
    <3>2. <<>> \in Seq(Nat) OBVIOUS
    <3> QED BY <3>1, <3>2 DEF Frame, Frames, Queries
  <2> HIDE DEF frame
  <2>4. /\ stack' \in Seq(Frames) /\ Len(stack') = n + 1 /\ DOMAIN stack' = 1 .. n + 1
        /\ stack'[n + 1] = frame /\ \A i \in 1 .. n : stack'[i] = stack[i]
    BY <1>0, <2>1, <2>2, <2>3
  <2>5. Frames' = Frames BY <2>1 DEF Frames
  <2>6. ASSUME NEW i \in 1 .. n PROVE FrameInv(i)'
    <3>1. FrameInv(i) /\ stack'[i] = stack[i] BY <2>2, <2>4
    <3>2. stack[i].query = "na_get_cacheShare_cores" => FALSE
      <4>1. SUFFICES ASSUME stack[i].query = "na_get_cacheShare_cores" PROVE FALSE OBVIOUS
      <4>2. n = 1 BY <1>0, <3>1, <4>1 DEF FrameInv
      <4>3. i = n BY <2>2, <4>2
      <4>4. Top.query = "na_get_cacheShare_cores" BY <1>0, <4>1, <4>3 DEF Top
      <4> QED BY <4>4 DEF CallOf
    <3>3. CASE i < n
      <4>1. i + 1 \in 1 .. n /\ stack'[i + 1] = stack[i + 1] BY <2>2, <2>4, <3>3
      <4> QED BY <1>0, <2>1, <2>4, <3>1, <3>2, <3>3, <4>1, SameNodes, SameCaches DEF FrameInv
    <3>4. CASE i = n
      <4>1. stack'[i + 1] = frame /\ stack[i] = Top BY <1>0, <2>4, <3>4 DEF Top
      <4>2. stack[i].query = "na_get_cpusidnode" => ThroughSockets BY <4>1 DEF CallOf
      <4>3. stack[i].query = "na_get_socketsId_node" =>
               frame.query = "na_get_cpusidnode" /\ frame.id = stack[i].id /\ stack[i].cpus = <<>>
        BY <2>3, <4>1 DEF CallOf
      <4> QED BY <2>1, <2>4, <3>1, <3>2, <4>1, <4>2, <4>3, SameNodes, SameCaches DEF FrameInv
    <3> QED BY <2>2, <3>3, <3>4
  <2>7. FrameInv(n + 1)'
    <3>1. /\ stack'[n + 1].query = query /\ stack'[n + 1].id = id /\ stack'[n + 1].cpus = <<>>
          /\ ~ (n + 1 < Len(stack'))
      BY <2>2, <2>3, <2>4
    <3>2. query # "na_get_cacheShare_cores" /\ id \in machine'.nodes BY <2>1, <2>3
    <3> QED BY <3>1, <3>2 DEF FrameInv
  <2>8. \A i \in DOMAIN stack' : i \in 1 .. n \/ i = n + 1 BY <2>2, <2>4
  <2>9. StackInv'
    <3>1. \A i \in DOMAIN stack' : FrameInv(i)' BY <2>6, <2>7, <2>8
    <3> QED BY <2>4, <2>5, <3>1 DEF StackInv
  <2>10. machine' \in Machines /\ streams' \in Nat /\ alive' = TRUE BY <2>1 DEF TopologyInv
  <2>11. RegularSurvives' BY <2>10 DEF RegularSurvives
  <2>12. HashInv' BY <2>1, SameHash
  <2>13. AnswerInv' /\ SiblingsRight' /\ SocketsOnce' BY <2>1, SameAnswer
  <2> QED BY <2>9, <2>10, <2>11, <2>12, <2>13 DEF TopologyInv
<1> QED BY <1>1, <1>2

(* What is returned.                                                       *)
SiblingsFact(id, ids) ==
    LET list == shared_cpu_list(na_get_shared_cacheLevel, id) IN
    Len(list) = na_get_cache_cores /\ id \in {Head(list), Last(list)} =>
        ToSet(ids) = ToSet(list) \ {id} /\ IsInjective(ids)
SocketsFact(id, ids) ==
    (NUMA /\ Cardinality(NodeCpus(id)) <= CPUSNODE /\ Cardinality(Packages(id)) <= SOCKETSNODE) =>
        /\ ToSet(ids) \ {-1} = Packages(id)
        /\ \A i, j \in DOMAIN ids : i # j /\ ids[i] # -1 => ids[i] # ids[j]
AnswerOf(query, id, ids) ==
    \/ query = "na_get_cpusidnode" /\ ~ThroughSockets /\ Full(id) /\ ids = CpusAnswer(id)
    \/ query = "na_get_cacheShare_cores" /\ Len(stack) = 1 /\ SiblingsFact(id, ids)
    \/ query = "na_get_socketsId_node" /\ Len(stack) = 1 /\ SocketsFact(id, ids)

LEMMA AnswerKept ==
    ASSUME machine \in Machines, machine' = machine, NEW query, NEW id, NEW ids,
           AnswerOf(query, id, ids), query = "na_get_cpusidnode" => id \in machine.nodes,
           answer' = [query |-> query, id |-> id, ids |-> ids]
    PROVE  AnswerInv' /\ SiblingsRight' /\ SocketsOnce'
<1>1. answer'.query = query /\ answer'.id = id /\ answer'.ids = ids OBVIOUS
<1>2. query = "na_get_cpusidnode" => id \in machine.nodes /\ Full(id) /\ ids = CpusAnswer(id)
  BY DEF AnswerOf
<1>3. query = "na_get_cacheShare_cores" => SiblingsFact(id, ids) BY DEF AnswerOf
<1>4. query = "na_get_socketsId_node" => SocketsFact(id, ids) BY DEF AnswerOf
<1>5. AnswerInv' BY <1>1, <1>2, SameNodes DEF AnswerInv, Answered
<1>6. SiblingsRight' BY <1>1, <1>3, SameCaches DEF SiblingsRight, Answered, SiblingsFact
<1>7. SocketsOnce' BY <1>1, <1>4, SameNodes DEF SocketsOnce, Answered, SocketsFact
<1> QED BY <1>5, <1>6, <1>7

LEMMA ReturnStep ==
    ASSUME TopologyInv, stack # <<>>, alive, NEW ids, NEW opened \in Nat,
           Return(ids, opened), AnswerOf(Top.query, Top.id, ids)
    PROVE  TopologyInv'
<1>0. PICK n \in Nat \ {0} : n = Len(stack) BY TopFacts
<1>1. /\ DOMAIN stack = 1 .. n /\ stack \in Seq(Frames) /\ machine \in Machines /\ streams \in Nat
      /\ \A i \in 1 .. n : stack[i] \in Frames /\ FrameInv(i)
      /\ Top = stack[n] /\ Top \in Frames /\ FrameInv(n)
  BY <1>0, TopFacts DEF TopologyInv, StackInv
<1>2. /\ streams' = streams + opened /\ UNCHANGED <<machine, HashCpuNode, alive>> BY DEF Return
<1>3. machine' \in Machines /\ streams' \in Nat /\ alive' = TRUE BY <1>1, <1>2
<1>4. RegularSurvives' BY <1>3 DEF RegularSurvives
<1>5. HashInv' BY <1>2, SameHash
<1>6. PICK query, id : query = Top.query /\ id = Top.id /\ query \in Queries BY <1>1 DEF Frames
<1>7. query # "na_get_cacheShare_cores" => id \in machine.nodes BY <1>1, <1>6 DEF FrameInv
<1>8. CASE n = 1
  <2>1. stack' = <<>> /\ answer' = [query |-> query, id |-> id, ids |-> ids]
    BY <1>0, <1>6, <1>8 DEF Return
  <2>2. StackInv' BY <2>1 DEF StackInv
  <2>3. AnswerOf(query, id, ids) BY <1>6
  <2>4. AnswerInv' /\ SiblingsRight' /\ SocketsOnce' BY <1>1, <1>2, <1>7, <2>1, <2>3, AnswerKept
  <2> QED BY <1>3, <1>4, <1>5, <2>2, <2>4 DEF TopologyInv
<1>9. CASE n # 1
  <2>1. /\ stack' = [Front(stack) EXCEPT ![n - 1].cpus = ids] /\ UNCHANGED answer
    BY <1>0, <1>9 DEF Return
  <2>2. /\ Front(stack) = [i \in 1 .. n - 1 |-> stack[i]]
        /\ n - 1 \in 1 .. n /\ n - 1 \in Nat \ {0} /\ n - 1 < n /\ n - 1 + 1 = n
    BY <1>0, <1>1, <1>9 DEF Front
  <2>3. ~ThroughSockets /\ query = "na_get_cpusidnode" /\ Full(id) /\ ids = CpusAnswer(id)
    BY <1>0, <1>6, <1>9 DEF AnswerOf
  <2>4. /\ stack[n - 1] \in Frames /\ FrameInv(n - 1) BY <1>1, <2>2
  <2>5. stack[n - 1].query = "na_get_socketsId_node" /\ stack[n - 1].id = id
    <3>1. stack[n - 1].query \in Queries BY <2>4 DEF Frames
    <3>2. stack[n - 1].query # "na_get_cacheShare_cores" BY <1>0, <1>9, <2>4 DEF FrameInv
    <3>3. stack[n - 1].query # "na_get_cpusidnode" BY <1>0, <2>2, <2>3, <2>4 DEF FrameInv
    <3>4. stack[n - 1].query = "na_get_socketsId_node" BY <3>1, <3>2, <3>3 DEF Queries
    <3> QED BY <1>0, <1>1, <1>6, <2>2, <2>4, <3>4 DEF FrameInv
  <2>6. PICK frame : frame = [stack[n - 1] EXCEPT !.cpus = ids] OBVIOUS
  <2>7. frame.query = "na_get_socketsId_node" /\ frame.id = id /\ frame.cpus = ids
    BY <2>4, <2>5, <2>6 DEF Frames
  <2>8. ids \in Seq(Nat) BY <1>1, <2>3, CpusAnswerRight
  <2>9. frame \in Frames BY <2>4, <2>6, <2>8 DEF Frames
  <2>10. stack' = [i \in 1 .. n - 1 |-> IF i = n - 1 THEN frame ELSE stack[i]]
    BY <2>1, <2>2, <2>6
  <2>11. \A i \in 1 .. n - 1 : i \in 1 .. n BY <2>2
  <2>12. /\ stack' \in Seq(Frames) /\ Len(stack') = n - 1 /\ DOMAIN stack' = 1 .. n - 1
         /\ stack'[n - 1] = frame /\ \A i \in 1 .. n - 1 : i < n - 1 => stack'[i] = stack[i]
    <3>1. stack' \in [1 .. n - 1 -> Frames] BY <1>1, <2>9, <2>10, <2>11
    <3>2. stack'[n - 1] = frame /\ \A i \in 1 .. n - 1 : i < n - 1 => stack'[i] = stack[i]
      BY <2>2, <2>10
    <3>3. n - 1 \in Nat BY <2>2
    <3> QED BY <3>1, <3>2, <3>3
  <2>13. \A i \in 1 .. n - 1 :
            stack'[i].query = stack[i].query /\ stack'[i].id = stack[i].id
            /\ (i < n - 1 => stack'[i].cpus = stack[i].cpus)
    <3>1. SUFFICES ASSUME NEW i \in 1 .. n - 1
                   PROVE  /\ stack'[i].query = stack[i].query /\ stack'[i].id = stack[i].id
                          /\ i < n - 1 => stack'[i].cpus = stack[i].cpus
      OBVIOUS
    <3>2. i = n - 1 \/ i < n - 1 BY <2>2
    <3>3. CASE i < n - 1
      <4>1. stack'[i] = stack[i] BY <2>12, <3>3
      <4> QED BY <4>1
    <3>4. CASE i = n - 1
      <4>1. stack'[i] = frame BY <2>12, <3>4
      <4>2. ~ (i < n - 1) BY <2>2, <3>4
      <4> QED BY <2>5, <2>7, <3>4, <4>1, <4>2
    <3> QED BY <3>2, <3>3, <3>4
  <2>14. ASSUME NEW i \in 1 .. n - 1 PROVE FrameInv(i)'
    <3>1. i \in 1 .. n /\ FrameInv(i) /\ i < n BY <1>1, <2>2
    <3>2. stack[i].query # "na_get_cacheShare_cores" BY <1>0, <1>9, <3>1 DEF FrameInv
    <3>3. CASE i = n - 1
      <4>1. /\ stack'[i].query = "na_get_socketsId_node" /\ stack'[i].id = id
            /\ stack'[i].cpus = ids /\ ~ (i < Len(stack')) /\ id \in machine.nodes
        BY <1>7, <2>2, <2>3, <2>7, <2>12, <3>3
      <4> QED BY <1>2, <2>3, <4>1, SameNodes, SameCaches DEF FrameInv
    <3>4. CASE i # n - 1
      <4>1. i < n - 1 /\ i + 1 \in 1 .. n - 1 BY <2>2, <3>4
      <4>2. /\ stack'[i].query = stack[i].query /\ stack'[i].id = stack[i].id
            /\ stack'[i].cpus = stack[i].cpus /\ stack'[i + 1].query = stack[i + 1].query
            /\ stack'[i + 1].id = stack[i + 1].id
        BY <2>13, <4>1
      <4>3. i < Len(stack) BY <1>0, <3>1
      <4> QED BY <1>2, <3>1, <3>2, <4>2, <4>3, SameNodes, SameCaches DEF FrameInv
    <3> QED BY <3>3, <3>4
  <2>15. StackInv'
    <3>1. Frames' = Frames BY <1>2 DEF Frames
    <3> QED BY <2>12, <2>14, <3>1 DEF StackInv
  <2>16. AnswerInv' /\ SiblingsRight' /\ SocketsOnce' BY <1>2, <2>1, SameAnswer
  <2> QED BY <1>3, <1>4, <1>5, <2>15, <2>16 DEF TopologyInv
<1> QED BY <1>8, <1>9

-----------------------------------------------------------------------------
(* The actions.                                                            *)
LEMMA TopologyStart == Init => TopologyInv
<1> SUFFICES ASSUME Init PROVE TopologyInv OBVIOUS
<1>1. /\ machine \in Machines /\ HashCpuNode = <<>> /\ stack = <<>> /\ streams = 0 /\ alive = TRUE
      /\ answer.query = "none"
  BY DEF Init
<1>2. StackInv BY <1>1 DEF StackInv
<1>3. HashInv BY <1>1 DEF HashInv
<1>4. AnswerInv /\ SiblingsRight /\ SocketsOnce
  BY <1>1 DEF AnswerInv, SiblingsRight, SocketsOnce, Answered
<1>5. RegularSurvives BY <1>1 DEF RegularSurvives
<1> QED BY <1>1, <1>2, <1>3, <1>4, <1>5 DEF TopologyInv

LEMMA InitStep == ASSUME TopologyInv, na_init PROVE TopologyInv'
<1>1. /\ HashCpuNode' = [cpu \in 0 .. MAXCPUS - 1 |-> get_nodeidcpu(cpu)] /\ alive
      /\ UNCHANGED <<machine, stack, answer, streams, alive>>
  BY DEF na_init
<1>2. HashInv' BY <1>1, SameNodes DEF HashInv
<1>3. StackInv' BY <1>1, SameStack
<1>4. AnswerInv' /\ SiblingsRight' /\ SocketsOnce' BY <1>1, SameAnswer
<1>5. machine' \in Machines /\ streams' \in Nat /\ alive' = TRUE BY <1>1 DEF TopologyInv
<1>6. RegularSurvives' BY <1>5 DEF RegularSurvives
<1> QED BY <1>2, <1>3, <1>4, <1>5, <1>6 DEF TopologyInv

LEMMA AskStep ==
    ASSUME TopologyInv, NEW query \in Queries, NEW id, Ask(query, id) PROVE TopologyInv'
<1>1. /\ alive /\ id \in IF query = "na_get_cacheShare_cores" THEN machine.online ELSE machine.nodes
      /\ query = "na_get_cacheShare_cores" => na_get_shared_cacheLevel # -1
      /\ stack' = <<Frame(query, id)>> /\ UNCHANGED <<machine, HashCpuNode, answer, streams, alive>>
  BY DEF Ask
<1>2. PICK frame : frame = [query |-> query, id |-> id, cpus |-> <<>>] OBVIOUS
<1>3. stack' = <<frame>> BY <1>1, <1>2 DEF Frame
<1>4. frame \in Frames
  <2>1. id \in machine.nodes \cup machine.online BY <1>1
  <2>2. <<>> \in Seq(Nat) OBVIOUS
  <2> QED BY <1>2, <2>1, <2>2 DEF Frames
<1>5. /\ stack' \in Seq(Frames) /\ Len(stack') = 1 /\ DOMAIN stack' = {1} /\ stack'[1] = frame
  BY <1>3, <1>4
<1>6. Frames' = Frames BY <1>1 DEF Frames
<1>7. FrameInv(1)'
  <2>1. stack'[1].query = query /\ stack'[1].id = id /\ stack'[1].cpus = <<>> /\ ~ (1 < Len(stack'))
    BY <1>2, <1>5
  <2>2. query = "na_get_cacheShare_cores" => id \in machine.online BY <1>1
  <2>3. query # "na_get_cacheShare_cores" => id \in machine.nodes BY <1>1
  <2> QED BY <1>1, <1>5, <2>1, <2>2, <2>3, SameCaches DEF FrameInv
<1>8. StackInv' BY <1>5, <1>6, <1>7 DEF StackInv
<1>9. HashInv' BY <1>1, SameHash
<1>10. AnswerInv' /\ SiblingsRight' /\ SocketsOnce' BY <1>1, SameAnswer
<1>11. machine' \in Machines /\ streams' \in Nat /\ alive' = TRUE BY <1>1 DEF TopologyInv
<1>12. RegularSurvives' BY <1>11 DEF RegularSurvives
<1> QED BY <1>8, <1>9, <1>10, <1>11, <1>12 DEF TopologyInv

LEMMA RunsFacts ==
    ASSUME TopologyInv, NEW query, Runs(query)
    PROVE  /\ alive /\ stack # <<>> /\ machine \in Machines /\ CacheStreams \in Nat
           /\ Top.query = query
           /\ query = "na_get_cacheShare_cores" => /\ Top.id \in machine.online /\ Len(stack) = 1
                                                   /\ na_get_shared_cacheLevel # -1
           /\ query # "na_get_cacheShare_cores" => Top.id \in machine.nodes
<1>1. alive /\ stack # <<>> /\ Top.query = query /\ machine \in Machines BY DEF Runs, TopologyInv
<1>2. FrameInv(Len(stack)) /\ Top = stack[Len(stack)] BY <1>1, TopFacts
<1>3. CacheStreams \in Nat BY <1>1, LevelRight
<1> QED BY <1>1, <1>2, <1>3 DEF FrameInv

(* Less room is enough for less.                                           *)
LEMMA LessRoom ==
    ASSUME TopologyInv, CacheStreams \in Nat, ~Room(1) PROVE ~Room(CacheStreams + 1)
<1>1. streams \in Nat /\ StreamLimit \in Nat BY LimitAssumption DEF TopologyInv
<1> QED BY <1>1 DEF Room

LEMMA CpusStep == ASSUME TopologyInv, CpusOfNode PROVE TopologyInv'
<1> DEFINE tcpus == Cardinality(NodeCpus(0))
           names == ls(NodeCpus(Top.id))
<1>1. Runs("na_get_cpusidnode") /\ ~ThroughSockets BY DEF CpusOfNode
<1>2. /\ alive /\ stack # <<>> /\ machine \in Machines /\ CacheStreams \in Nat
      /\ Top.query = "na_get_cpusidnode" /\ Top.id \in machine.nodes
  BY <1>1, RunsFacts
<1>3. Len(names) = Cardinality(NodeCpus(Top.id))
  <2>1. NodeCpus(Top.id) \in SUBSET Nat /\ IsFiniteSet(NodeCpus(Top.id)) BY <1>2, MachineFacts
  <2> QED BY <2>1, NamesRight
<1>4. CASE Room(CacheStreams + 1) /\ Len(names) >= tcpus
  <2>1. Return(CpusAnswer(Top.id), CacheStreams) BY <1>4 DEF CpusOfNode, CpusAnswer
  <2>2. Full(Top.id) BY <1>3, <1>4 DEF Full
  <2>3. PICK ids : ids = CpusAnswer(Top.id) OBVIOUS
  <2>4. AnswerOf(Top.query, Top.id, ids) BY <1>1, <1>2, <2>2, <2>3 DEF AnswerOf
  <2>5. PICK opened \in Nat : opened = CacheStreams BY <1>2
  <2>6. Return(ids, opened) BY <2>1, <2>3, <2>5
  <2> QED BY <1>2, <2>4, <2>6, ReturnStep
<1>5. CASE ~ (Room(CacheStreams + 1) /\ Len(names) >= tcpus)
  <2>1. Crash BY <1>5 DEF CpusOfNode
  <2>2. Regular => Len(names) >= tcpus
    <3>1. SUFFICES ASSUME Regular PROVE Len(names) >= tcpus OBVIOUS
    <3>2. Cardinality(NodeCpus(Top.id)) = tcpus BY <1>2, <3>1 DEF Regular
    <3>3. tcpus \in Nat BY <1>2, MachineFacts
    <3> QED BY <1>3, <3>2, <3>3
  <2> QED BY <1>5, <2>1, <2>2, CrashStep
<1> QED BY <1>4, <1>5

LEMMA AskSocketsStep == ASSUME TopologyInv, CpusAskSockets PROVE TopologyInv'
<1>1. Runs("na_get_cpusidnode") /\ ThroughSockets BY DEF CpusAskSockets
<1>2. /\ alive /\ stack # <<>> /\ machine \in Machines /\ CacheStreams \in Nat
      /\ Top.query = "na_get_cpusidnode" /\ Top.id \in machine.nodes
  BY <1>1, RunsFacts
<1>3. ~Regular BY <1>1, <1>2, RegularLevel
<1>4. CASE Room(CacheStreams + 1)
  <2>1. PICK id : id = Top.id OBVIOUS
  <2>2. PICK opened \in Nat : opened = CacheStreams BY <1>2
  <2>3. Enter("na_get_socketsId_node", id, opened) BY <1>4, <2>1, <2>2 DEF CpusAskSockets
  <2>4. CallOf("na_get_socketsId_node", id) BY <1>1, <1>2, <2>1 DEF CallOf
  <2> QED BY <1>2, <1>3, <2>3, <2>4, EnterStep
<1>5. CASE ~Room(CacheStreams + 1)
  <2>1. Crash BY <1>5 DEF CpusAskSockets
  <2> QED BY <1>5, <2>1, CrashStep
<1> QED BY <1>4, <1>5

(* On a machine where the processors are not sought through the sockets    *)
(* the query for sockets is the only one that calls another.               *)
LEMMA OnlySockets ==
    ASSUME TopologyInv, stack # <<>>, Top.query = "na_get_socketsId_node", ~ThroughSockets
    PROVE  Len(stack) = 1
<1>1. PICK n \in Nat \ {0} : n = Len(stack) BY TopFacts
<1>2. \A i \in 1 .. n : stack[i] \in Frames /\ FrameInv(i) BY <1>1, TopFacts
<1>3. SUFFICES ASSUME n # 1 PROVE FALSE BY <1>1
<1>4. n - 1 \in 1 .. n /\ n - 1 < n /\ n - 1 + 1 = n BY <1>3
<1>5. stack[n - 1].query \in Queries /\ FrameInv(n - 1) BY <1>2, <1>4 DEF Frames
<1>6. stack[n - 1].query # "na_get_cacheShare_cores" BY <1>1, <1>3, <1>5 DEF FrameInv
<1>7. stack[n - 1].query # "na_get_cpusidnode" BY <1>1, <1>4, <1>5 DEF FrameInv
<1>8. stack[n - 1].query = "na_get_socketsId_node" BY <1>5, <1>6, <1>7 DEF Queries
<1>9. stack[n].query = "na_get_cpusidnode" BY <1>1, <1>4, <1>5, <1>8 DEF FrameInv
<1> QED BY <1>1, <1>9 DEF Top

LEMMA AskCpusStep == ASSUME TopologyInv, SocketsAskCpus PROVE TopologyInv'
<1>1. Runs("na_get_socketsId_node") /\ Top.cpus = <<>> BY DEF SocketsAskCpus
<1>2. /\ alive /\ stack # <<>> /\ machine \in Machines
      /\ Top.query = "na_get_socketsId_node" /\ Top.id \in machine.nodes
  BY <1>1, RunsFacts
<1>3. PICK id : id = Top.id OBVIOUS
<1>4. Enter("na_get_cpusidnode", id, 0) BY <1>3 DEF SocketsAskCpus
<1>5. CallOf("na_get_cpusidnode", id) BY <1>1, <1>2, <1>3 DEF CallOf
<1>6. Regular => Len(stack) < StackLimit
  <2>1. SUFFICES ASSUME Regular PROVE Len(stack) < StackLimit OBVIOUS
  <2>2. Len(stack) = 1 BY <1>2, <2>1, RegularLevel, OnlySockets
  <2> QED BY <2>2, LimitAssumption
<1> QED BY <1>2, <1>4, <1>5, <1>6, EnterStep

LEMMA SocketsStepRight == ASSUME TopologyInv, SocketsOfNode PROVE TopologyInv'
<1>1. Runs("na_get_socketsId_node") /\ Top.cpus # <<>> BY DEF SocketsOfNode
<1>2. /\ alive /\ stack # <<>> /\ machine \in Machines /\ CacheStreams \in Nat
      /\ Top.query = "na_get_socketsId_node" /\ Top.id \in machine.nodes
  BY <1>1, RunsFacts
<1>3. ~ThroughSockets /\ Full(Top.id) /\ Top.cpus = CpusAnswer(Top.id)
  <2>1. FrameInv(Len(stack)) /\ Top = stack[Len(stack)] BY <1>2, TopFacts
  <2> QED BY <1>1, <1>2, <2>1 DEF FrameInv
<1>4. Len(stack) = 1 BY <1>2, <1>3, OnlySockets
<1>5. PICK id : id = Top.id OBVIOUS
<1>6. PICK found : found = SocketsOf(SubSeq(CpusAnswer(id), 1, CPUSNODE)) OBVIOUS
<1>7. PICK room \in Nat : room = SOCKETSNODE BY <1>2, HeaderFacts
<1>8. PICK ids : ids = [j \in 1 .. room |-> IF j <= Len(found) THEN found[j] ELSE -1] OBVIOUS
<1>9. \/ Room(1) /\ Return(ids, 0)
      \/ (~Room(1) \/ Len(found) > room) /\ Crash
  BY <1>3, <1>5, <1>6, <1>7, <1>8 DEF SocketsOfNode
<1>10. /\ Packages(id) \in SUBSET Nat
       /\ NUMA /\ Cardinality(NodeCpus(id)) <= CPUSNODE /\ Cardinality(Packages(id)) <= room =>
             Once(found, Packages(id)) /\ Len(found) \in Nat /\ Len(found) <= room
  <2>1. Packages(id) \in SUBSET Nat BY <1>2, PackagesFacts
  <2>2. ASSUME NUMA, Cardinality(NodeCpus(id)) <= CPUSNODE, Cardinality(Packages(id)) <= room
        PROVE  Once(found, Packages(id)) /\ Len(found) \in Nat /\ Len(found) <= room
    <3>1. CPUSNODE = Cardinality(NodeCpus(0)) BY <1>2, <2>2, HeaderFacts
    <3>2. Full(id) BY <1>3, <1>5
    <3> QED BY <1>2, <1>6, <1>7, <2>2, <3>1, <3>2, SocketsAnswer
  <2> QED BY <2>1, <2>2
<1>11. CASE Room(1) /\ Return(ids, 0)
  <2>1. SocketsFact(id, ids)
    <3>1. SUFFICES ASSUME NUMA, Cardinality(NodeCpus(id)) <= CPUSNODE,
                          Cardinality(Packages(id)) <= room
                   PROVE  /\ ToSet(ids) \ {-1} = Packages(id)
                          /\ \A i, j \in DOMAIN ids : i # j /\ ids[i] # -1 => ids[i] # ids[j]
      BY <1>7 DEF SocketsFact
    <3>2. PICK P \in SUBSET Nat : P = Packages(id) BY <1>10
    <3>3. Once(found, P) /\ Len(found) \in Nat /\ Len(found) <= room BY <1>10, <3>1, <3>2
    <3>4. /\ DOMAIN found = 1 .. Len(found) /\ ToSet(found) = P
          /\ \A i \in 1 .. Len(found) : found[i] \in P
          /\ \A i, j \in 1 .. Len(found) : found[i] = found[j] => i = j
      BY <3>3 DEF Once
    <3>5. \A p \in P : p # -1 OBVIOUS
    <3>6. \A i \in 1 .. Len(found) : i \in 1 .. room /\ ids[i] = found[i] BY <1>8, <3>3
    <3>7. \A i \in 1 .. room : i \in 1 .. Len(found) \/ ids[i] = -1 BY <1>8, <3>3
    <3>8. DOMAIN ids = 1 .. room BY <1>8
    <3>9. \A p \in P : p \in ToSet(ids)
      <4>1. SUFFICES ASSUME NEW p \in P PROVE p \in ToSet(ids) OBVIOUS
      <4>2. PICK i \in 1 .. Len(found) : p = found[i] BY <3>4 DEF ToSet
      <4> QED BY <3>6, <3>8, <4>2 DEF ToSet
    <3>10. ToSet(ids) \ {-1} \subseteq P BY <3>4, <3>6, <3>7, <3>8 DEF ToSet
    <3>11. ToSet(ids) \ {-1} = P BY <3>5, <3>9, <3>10
    <3>12. \A i, j \in 1 .. room : i # j /\ ids[i] # -1 => ids[i] # ids[j]
      <4>1. SUFFICES ASSUME NEW i \in 1 .. room, NEW j \in 1 .. room, ids[i] # -1, ids[i] = ids[j]
                     PROVE  i = j
        OBVIOUS
      <4>2. i \in 1 .. Len(found) /\ j \in 1 .. Len(found) BY <3>7, <4>1
      <4>3. found[i] = found[j] BY <3>6, <4>1, <4>2
      <4> QED BY <3>4, <4>2, <4>3
    <3> QED BY <3>2, <3>8, <3>11, <3>12
  <2>2. AnswerOf(Top.query, Top.id, ids) BY <1>2, <1>4, <1>5, <2>1 DEF AnswerOf
  <2> QED BY <1>2, <1>11, <2>2, ReturnStep
<1>12. CASE (~Room(1) \/ Len(found) > room) /\ Crash
  <2>1. Regular => ~Room(1)
    <3>1. SUFFICES ASSUME Regular, Len(found) > room PROVE FALSE BY <1>12
    <3>2. Cardinality(NodeCpus(id)) = Cardinality(NodeCpus(0)) BY <1>2, <1>5, <3>1 DEF Regular
    <3>3. NUMA => Cardinality(Packages(id)) <= SOCKETSNODE BY <1>2, <1>5, <3>1 DEF Regular
    <3>4. Cardinality(NodeCpus(0)) \in Nat BY <1>2, MachineFacts
    <3>5. CASE NUMA
      <4>1. Cardinality(NodeCpus(id)) <= CPUSNODE BY <1>2, <3>2, <3>4, <3>5, HeaderFacts
      <4>2. Len(found) \in Nat /\ Len(found) <= room BY <1>7, <1>10, <3>3, <3>5, <4>1
      <4> QED BY <3>1, <4>2
    <3>6. CASE ~NUMA
      <4>1. CPUSNODE = 0 BY <1>2, <3>6, HeaderFacts
      <4>2. CpusAnswer(id) \in Seq(Nat) BY <1>2, <1>3, <1>5, CpusAnswerRight
      <4>3. SubSeq(CpusAnswer(id), 1, 0) = <<>> BY <4>2
      <4>4. found = SocketsOf(<<>>) BY <1>6, <4>1, <4>3
      <4>5. <<>> \in Seq(Nat) /\ Len(<<>>) = 0 OBVIOUS
      <4>6. SocketsOf(<<>>) = <<>>
        <5>1. PICK s \in Seq(Nat) : s = <<>> BY <4>5
        <5>2. PICK f : f[0] = <<>> /\ SocketsOf(s) = f[Len(s)] BY SocketsStep
        <5> QED BY <4>5, <5>1, <5>2
      <4>7. Len(found) = 0 BY <4>4, <4>6
      <4> QED BY <3>1, <4>7
    <3> QED BY <3>5, <3>6
  <2>2. Regular => ~Room(CacheStreams + 1) BY <1>2, <2>1, LessRoom
  <2> QED BY <1>12, <2>2, CrashStep
<1> QED BY <1>9, <1>11, <1>12

LEMMA SiblingsStep == ASSUME TopologyInv, SiblingsOfCore PROVE TopologyInv'
<1>1. Runs("na_get_cacheShare_cores") BY DEF SiblingsOfCore
<1>2. /\ alive /\ stack # <<>> /\ machine \in Machines /\ CacheStreams \in Nat
      /\ Top.query = "na_get_cacheShare_cores" /\ Top.id \in machine.online /\ Len(stack) = 1
      /\ na_get_shared_cacheLevel # -1
  BY <1>1, RunsFacts
<1>3. PICK cpu \in machine.online : cpu = Top.id BY <1>2
<1>4. PICK level \in Nat : level = na_get_shared_cacheLevel BY <1>2, LevelRight
<1>5. PICK list : list = shared_cpu_list(level, cpu) OBVIOUS
<1>6. PICK cores \in Nat : cores = na_get_cache_cores /\ cores > 1 BY <1>2, LevelRight
<1>7. /\ list \in Seq(Nat) /\ Len(list) \in Nat
      /\ \A i, j \in DOMAIN list : list[i] = list[j] => i = j
  BY <1>2, <1>5, ListRight
<1>8. PICK read : read = cores - (IF list[1] # cpu THEN 1 ELSE 0) OBVIOUS
<1>9. IF Room(CacheStreams + 1) /\ Len(list) >= read
      THEN Return(Siblings(cpu, list), CacheStreams) ELSE Crash
  BY <1>3, <1>4, <1>5, <1>6, <1>8 DEF SiblingsOfCore
<1>10. CASE Room(CacheStreams + 1) /\ Len(list) >= read
  <2>1. PICK ids : ids = Siblings(cpu, list) OBVIOUS
  <2>2. PICK opened \in Nat : opened = CacheStreams /\ Return(ids, opened)
    BY <1>2, <1>9, <1>10, <2>1
  <2>3. SiblingsFact(cpu, ids)
    <3>1. SUFFICES ASSUME Len(list) = na_get_cache_cores, cpu \in {Head(list), Last(list)}
                   PROVE  ToSet(ids) = ToSet(list) \ {cpu} /\ IsInjective(ids)
      BY <1>4, <1>5 DEF SiblingsFact
    <3>2. Len(list) > 1 BY <1>6, <3>1
    <3> QED BY <1>7, <2>1, <3>1, <3>2, SiblingsAnswer
  <2>4. AnswerOf(Top.query, Top.id, ids) BY <1>2, <1>3, <2>3 DEF AnswerOf
  <2> QED BY <1>2, <2>2, <2>4, ReturnStep
<1>11. CASE ~ (Room(CacheStreams + 1) /\ Len(list) >= read)
  <2>1. Crash BY <1>9, <1>11
  <2>2. Regular => Len(list) >= read
    <3>1. SUFFICES ASSUME Regular PROVE Len(list) >= read OBVIOUS
    <3>2. Len(list) = cores BY <1>2, <1>4, <1>5, <1>6, <3>1, RegularLevel
    <3> QED BY <1>8, <3>2
  <2> QED BY <1>11, <2>1, <2>2, CrashStep
<1> QED BY <1>10, <1>11

LEMMA TopologyStutter == ASSUME TopologyInv, UNCHANGED vars PROVE TopologyInv'
<1>1. UNCHANGED <<machine, HashCpuNode, stack, answer, streams, alive>> BY DEF vars
<1>2. RegularSurvives' BY <1>1, SameCaches DEF TopologyInv, RegularSurvives, Room
<1>3. HashInv' /\ StackInv' BY <1>1, SameHash, SameStack
<1>4. AnswerInv' /\ SiblingsRight' /\ SocketsOnce' BY <1>1, SameAnswer
<1> QED BY <1>1, <1>2, <1>3, <1>4 DEF TopologyInv

LEMMA TopologyStep == TopologyInv /\ [Next]_vars => TopologyInv'
<1> SUFFICES ASSUME TopologyInv, [Next]_vars PROVE TopologyInv' OBVIOUS
<1>1. CASE na_init BY <1>1, InitStep
<1>2. CASE CpusOfNode BY <1>2, CpusStep
<1>3. CASE CpusAskSockets BY <1>3, AskSocketsStep
<1>4. CASE SocketsAskCpus BY <1>4, AskCpusStep
<1>5. CASE SocketsOfNode BY <1>5, SocketsStepRight
<1>6. CASE SiblingsOfCore BY <1>6, SiblingsStep
<1>7. ASSUME NEW query \in Queries, NEW id \in machine.nodes \cup machine.online, Ask(query, id)
      PROVE  TopologyInv'
  BY <1>7, AskStep
<1>8. CASE UNCHANGED vars BY <1>8, TopologyStutter
<1> QED BY <1>1, <1>2, <1>3, <1>4, <1>5, <1>6, <1>7, <1>8 DEF Next

-----------------------------------------------------------------------------
(* For every set of machines, and after any queries, what has been         *)
(* answered, remembered and left open is as TopologyInv says               *)
(* (archTopology.c:328-352, 431-490, 532-700).                             *)
THEOREM TopologyCorrect == Spec => []TopologyInv
<1>1. Init => TopologyInv BY TopologyStart
<1>2. TopologyInv /\ [Next]_vars => TopologyInv' BY TopologyStep
<1> QED BY <1>1, <1>2, PTL DEF Spec

(* The siblings that are answered of the first and the last processor of a *)
(* cache are all the others, each once, on any machine whose caches are    *)
(* shared by equally many (archTopology.c:645-700).                        *)
THEOREM SiblingsCorrect == Spec => []SiblingsRight
<1>1. TopologyInv => SiblingsRight BY DEF TopologyInv
<1> QED BY <1>1, TopologyCorrect, PTL

(* The sockets that are answered are those of the node, each once          *)
(* (archTopology.c:328-352).                                               *)
THEOREM SocketsCorrect == Spec => []SocketsOnce
<1>1. TopologyInv => SocketsOnce BY DEF TopologyInv
<1> QED BY <1>1, TopologyCorrect, PTL

(* On any regular machine nothing but a lack of streams ends the process,  *)
(* whatever was asked before (archTopology.c:532-543, 559-568).            *)
THEOREM RegularCorrect == Spec => []RegularSurvives
<1>1. TopologyInv => RegularSurvives BY DEF TopologyInv
<1> QED BY <1>1, TopologyCorrect, PTL

(* The search for the node of a processor finds it where the nodes are     *)
(* numbered without gaps.                                                  *)
LEMMA NodeFound ==
    ASSUME machine \in Machines, machine.nodes = 0 .. Cardinality(machine.nodes) - 1,
           NEW c \in machine.online
    PROVE  /\ get_nodeidcpu(c) = machine.node[c] /\ machine.node[c] \in machine.nodes
           /\ ~NUMA => machine.node[c] = 0
<1>1. /\ Machine(machine) /\ machine.node[c] \in machine.nodes /\ IsFiniteSet(machine.nodes)
  BY MachineFacts DEF Machine
<1>2. PICK n \in Nat : n = Cardinality(machine.nodes) BY <1>1, FS_CardinalityType
<1>3. machine.nodes = 0 .. n - 1 BY <1>2
<1>4. CASE ~NUMA
  <2>1. ~ (1 \in 0 .. n - 1) BY <1>3, <1>4 DEF NUMA
  <2>2. machine.node[c] = 0
    <3>1. PICK a : a = machine.node[c] /\ a \in 0 .. n - 1 BY <1>1, <1>3
    <3>2. n = 1 BY <1>2, <2>1, <3>1
    <3> QED BY <3>1, <3>2
  <2>3. MAXNODES = 0 BY <1>4 DEF MAXNODES
  <2>4. get_nodeidcpu(c) = 0 BY <2>3 DEF get_nodeidcpu
  <2> QED BY <1>1, <2>2, <2>4
<1>5. CASE NUMA
  <2> DEFINE stops == {i \in 0 .. MAXNODES - 1 : i \notin machine.nodes \/ c \in NodeCpus(i)}
  <2>1. MAXNODES = n /\ n > 1
    <3>1. 1 \in 0 .. n - 1 BY <1>3, <1>5 DEF NUMA
    <3> QED BY <1>2, <1>5, <3>1 DEF MAXNODES
  <2>2. stops = {machine.node[c]}
    <3>1. \A i : c \in NodeCpus(i) <=> i = machine.node[c] BY DEF NodeCpus
    <3> QED BY <1>1, <1>3, <2>1, <3>1
  <2>3. Min({machine.node[c]}) = machine.node[c]
    <3>1. machine.node[c] \in Nat BY <1>1, <1>3
    <3> QED BY <3>1, MinOne
  <2>4. get_nodeidcpu(c) = IF MAXNODES <= 1 THEN 0
                           ELSE IF stops = {} THEN -1
                           ELSE IF Min(stops) \in machine.nodes THEN Min(stops) ELSE 0
    BY DEF get_nodeidcpu
  <2>5. ~ (MAXNODES <= 1) BY <2>1
  <2> HIDE DEF stops
  <2> QED BY <1>1, <1>5, <2>2, <2>3, <2>4, <2>5
<1> QED BY <1>4, <1>5

(* The processors of a node and the node of a processor agree              *)
(* (archTopology.c:431-490, 574-632).                                      *)
THEOREM NodeCpusCorrect == Spec => []NodeCpusRight
<1>1. TopologyInv => NodeCpusRight
  <2> SUFFICES ASSUME TopologyInv, Answered("na_get_cpusidnode") PROVE NodeCpusRight
    BY DEF NodeCpusRight
  <2>1. PICK id, ids : id = answer.id /\ ids = answer.ids OBVIOUS
  <2>2. id \in machine.nodes /\ Full(id) /\ ids = CpusAnswer(id) /\ machine \in Machines
    BY <2>1 DEF TopologyInv, AnswerInv
  <2>3. /\ \A i, j \in DOMAIN ids : i < j => ids[i] < ids[j]
        /\ ToSet(ids) \subseteq NodeCpus(id)
        /\ Cardinality(NodeCpus(id)) <= Cardinality(NodeCpus(0)) => ToSet(ids) = NodeCpus(id)
    BY <2>2, CpusAnswerRight
  <2>4. ASSUME machine.nodes = 0 .. Cardinality(machine.nodes) - 1,
               NEW c \in DOMAIN HashCpuNode \cap machine.online
        PROVE  (HashCpuNode[c] = id) <=> (c \in NodeCpus(id))
    <3>1. HashCpuNode # <<>> OBVIOUS
    <3>2. HashCpuNode = [cpu \in 0 .. MAXCPUS - 1 |-> get_nodeidcpu(cpu)]
      BY <3>1 DEF TopologyInv, HashInv
    <3>3. HashCpuNode[c] = get_nodeidcpu(c) BY <3>2
    <3>4. get_nodeidcpu(c) = machine.node[c] BY <2>2, <2>4, NodeFound
    <3> QED BY <3>3, <3>4 DEF NodeCpus
  <2> QED BY <2>1, <2>3, <2>4 DEF NodeCpusRight
<1> QED BY <1>1, TopologyCorrect, PTL

-----------------------------------------------------------------------------
(* The matrix of the cores.  On a machine that the program is made for the *)
(* numbers of hwloc are those of the kernel.                               *)
LEMMA LogicalLength ==
    ASSUME NEW S, NEW n \in Nat, Cardinality(S) = n
    PROVE  Len(Logical(S)) = n
<1> DEFINE nth(k) == CHOOSE c \in S : Cardinality({d \in S : Before(d, c)}) = k - 1
<1>1. Logical(S) = [k \in 1 .. n |-> nth(k)] BY DEF Logical
<1> HIDE DEF nth
<1> QED BY <1>1

LEMMA CoreNumbers ==
    ASSUME machine \in Machines, MadeFor, NEW c \in machine.online
    PROVE  core(c) = {c} /\ c \in 0 .. nb_cores - 1
<1>1. PICK n \in Nat : n = Cardinality(machine.online) BY MachineFacts, FS_CardinalityType
<1>2. machine.online = 0 .. n - 1 /\ \A d \in machine.online : machine.share[0][d] = {d}
  BY <1>1 DEF MadeFor
<1>3. \A d \in machine.online : Cache(1, d) = {d} BY <1>2 DEF Cache
<1>4. \A d \in machine.online : Min({d}) = d
  <2>1. SUFFICES ASSUME NEW d \in machine.online PROVE Min({d}) = d OBVIOUS
  <2>2. d \in Nat BY <1>2
  <2> QED BY <2>2, MinOne
<1>5. {d \in machine.online : d = Min(Cache(1, d))} = machine.online BY <1>3, <1>4
<1>6. Cores = LogicalOrder BY <1>5 DEF Cores, LogicalOrder
<1>7. Cardinality(machine.online) = n BY <1>1
<1>8. Len(LogicalOrder) = n BY <1>7, LogicalLength DEF LogicalOrder
<1>9. c \in Nat /\ c < n /\ c + 1 \in 1 .. n BY <1>2
<1>10. LogicalOrder[c + 1] = c
  <2>1. LogicalOrder[c + 1] = c + 1 - 1 BY <1>8, <1>9 DEF MadeFor
  <2> QED BY <1>9, <2>1
<1>11. core(c) = {c} BY <1>3, <1>6, <1>8, <1>9, <1>10 DEF core
<1> QED BY <1>1, <1>9, <1>11 DEF nb_cores

LEMMA CoreNodes ==
    ASSUME TopologyInv, HashCpuNode # <<>>, MadeFor, NEW c \in machine.online
    PROVE  /\ cpus_to_nodes(c) = machine.node[c] /\ machine.node[c] \in machine.nodes
           /\ machine.node[c] \in 0 .. Cardinality(machine.nodes) - 1
<1>1. machine \in Machines /\ machine.nodes = 0 .. Cardinality(machine.nodes) - 1
  BY DEF TopologyInv, MadeFor
<1>2. /\ get_nodeidcpu(c) = machine.node[c] /\ machine.node[c] \in machine.nodes
      /\ ~NUMA => machine.node[c] = 0
  BY <1>1, NodeFound
<1>3. HashCpuNode = [cpu \in 0 .. MAXCPUS - 1 |-> get_nodeidcpu(cpu)] BY DEF TopologyInv, HashInv
<1>4. NUMA => c \in 0 .. MAXCPUS - 1 BY <1>1, MachineFacts DEF Machine, MAXCPUS
<1>5. cpus_to_nodes(c) = machine.node[c] BY <1>2, <1>3, <1>4 DEF cpus_to_nodes
<1> QED BY <1>1, <1>2, <1>5

(* The levels of the caches that two cores are below.                      *)
LEMMA CommonLevels ==
    ASSUME machine \in Machines, MadeFor, NEW c \in machine.online, NEW d \in machine.online, c # d
    PROVE  /\ {level \in Levels : \E e \in core(c) : core(c) \cup core(d) \subseteq Cache(level, e)}
              = {i \in {0, 2, 3} : d \in machine.share[i][c]}
           /\ 0 \notin {i \in {0, 2, 3} : d \in machine.share[i][c]}
           /\ Levels = 1 .. 3
<1>1. core(c) = {c} /\ core(d) = {d} BY CoreNumbers
<1>2. Levels = 1 .. 3 BY DEF MadeFor, Levels
<1>3. machine.share[0][c] = {c} BY DEF MadeFor
<1>4. c \in machine.share[2][c] /\ c \in machine.share[3][c]
  <2>1. machine.indexes = 4 BY DEF MadeFor
  <2>2. 2 \in 0 .. machine.indexes - 1 /\ 3 \in 0 .. machine.indexes - 1 BY <2>1
  <2> QED BY <2>2, MachineFacts DEF Machine
<1>5. Cache(1, c) = {c} /\ Cache(2, c) = machine.share[2][c] /\ Cache(3, c) = machine.share[3][c]
  BY <1>3 DEF Cache
<1>6. \A level \in 1 .. 3 : level = 1 \/ level = 2 \/ level = 3 OBVIOUS
<1>7. \A level : (\E e \in core(c) : core(c) \cup core(d) \subseteq Cache(level, e))
                   <=> c \in Cache(level, c) /\ d \in Cache(level, c)
  BY <1>1
<1>8. 0 \notin {i \in {0, 2, 3} : d \in machine.share[i][c]} BY <1>3
<1>9. \A level : level \in 1 .. 3 /\ c \in Cache(level, c) /\ d \in Cache(level, c)
                   <=> level \in {0, 2, 3} /\ d \in machine.share[level][c]
  BY <1>3, <1>4, <1>5, <1>6, <1>8
<1> QED BY <1>2, <1>7, <1>8, <1>9

(* The matrix of the cores says for every two the smallest cache they are  *)
(* both below, or their nodes (compute-latencies.c:67-88, 129-152).        *)
THEOREM CoresCorrect == Spec => []CoresRight
<1>1. TopologyInv => CoresRight
  <2> SUFFICES ASSUME TopologyInv, Fresh, MadeFor, NEW c \in machine.online, NEW d \in machine.online
               PROVE  LET below == {i \in {0, 2, 3} : d \in machine.share[i][c]} IN
                      cores_matrix[<<c, d>>] =
                          IF below = {} THEN <<"memory", machine.node[c], machine.node[d]>>
                          ELSE <<"cache", IF Min(below) = 0 THEN 1 ELSE Min(below)>>
    BY DEF CoresRight
  <2> DEFINE below == {i \in {0, 2, 3} : d \in machine.share[i][c]}
  <2>1. machine \in Machines /\ HashCpuNode # <<>> BY DEF TopologyInv, Fresh
  <2>2. core(c) = {c} /\ core(d) = {d} /\ c \in 0 .. nb_cores - 1 /\ d \in 0 .. nb_cores - 1
    BY <2>1, CoreNumbers
  <2>3. PICK a, b : /\ a = machine.node[c] /\ b = machine.node[d]
                    /\ cpus_to_nodes(c) = a /\ cpus_to_nodes(d) = b
                    /\ nodes_matrix(a, b) = <<"memory", a, b>>
                    /\ nodes_matrix(a, a) = <<"memory", a, a>>
    <3>1. /\ cpus_to_nodes(c) = machine.node[c] /\ cpus_to_nodes(d) = machine.node[d]
          /\ machine.node[c] \in 0 .. Cardinality(machine.nodes) - 1
          /\ machine.node[d] \in 0 .. Cardinality(machine.nodes) - 1
      BY <2>1, CoreNodes
    <3> QED BY <3>1 DEF nodes_matrix
  <2>4. cores_matrix[<<c, d>>] = IF b = a THEN coreFactor(c, d) ELSE nodes_matrix(a, b)
    BY <2>2, <2>3 DEF cores_matrix
  <2>5. machine.share[0][c] = {c} BY DEF MadeFor
  <2>6. below \in SUBSET Nat OBVIOUS
  <2>7. \A level \in 1 .. 3 : cache_latencies(level) = <<"cache", level>>
    <3>1. Levels = 1 .. 3 BY DEF MadeFor, Levels
    <3>2. Cardinality(1 .. 3) = 3
      <4>1. PICK i \in Int, j \in Int : i = 1 /\ j = 3 OBVIOUS
      <4>2. Cardinality(i .. j) = IF i > j THEN 0 ELSE j - i + 1 BY FS_Interval
      <4> QED BY <4>1, <4>2
    <3> QED BY <3>1, <3>2 DEF cache_latencies
  <2>8. CASE c = d
    <3>1. 0 \in below BY <2>5, <2>8
    <3>2. Min(below) = 0
      <4> HIDE DEF below
      <4>1. PICK m : m = Min(below) OBVIOUS
      <4>2. m \in below /\ m <= 0 BY <2>6, <3>1, <4>1, MinRight
      <4>3. m \in Nat BY <2>6, <4>2
      <4> QED BY <4>1, <4>2, <4>3
    <3>3. coreFactor(c, d) = <<"cache", 1>> BY <2>7, <2>8 DEF coreFactor
    <3>4. b = a BY <2>3, <2>8
    <3> HIDE DEF below
    <3>5. below # {} BY <3>1
    <3>6. cores_matrix[<<c, d>>] = <<"cache", 1>> BY <2>4, <3>3, <3>4
    <3> QED BY <3>2, <3>5, <3>6 DEF below
  <2>9. CASE c # d
    <3> DEFINE common == {level \in Levels :
                             \E e \in core(c) : core(c) \cup core(d) \subseteq Cache(level, e)}
    <3>1. common = below /\ 0 \notin below BY <2>1, <2>9, CommonLevels
    <3>2. coreFactor(c, d) = IF c = d THEN cache_latencies(1)
                             ELSE IF core(c) = {} \/ core(d) = {} THEN NoLatency
                             ELSE IF common # {} THEN cache_latencies(Min(common))
                             ELSE nodes_matrix(cpus_to_nodes(c), cpus_to_nodes(c))
      BY DEF coreFactor
    <3>3. below \subseteq {0, 2, 3} OBVIOUS
    <3>4. below # {} => b = a
      <4>1. SUFFICES ASSUME NEW i \in below PROVE b = a OBVIOUS
      <4>2. i \in 2 .. 3 /\ d \in machine.share[i][c] BY <3>1, <4>1
      <4>3. d \in NodeCpus(machine.node[c]) BY <4>2 DEF MadeFor
      <4> QED BY <2>3, <4>3 DEF NodeCpus
    <3> HIDE DEF below, common
    <3>5. CASE below = {}
      <4>1. coreFactor(c, d) = nodes_matrix(a, a) BY <2>2, <2>3, <2>9, <3>1, <3>2, <3>5
      <4>2. cores_matrix[<<c, d>>] = <<"memory", a, b>> BY <2>3, <2>4, <4>1
      <4> QED BY <2>3, <3>5, <4>2 DEF below
    <3>6. CASE below # {}
      <4>1. Min(below) \in below BY <2>6, <3>6, MinRight
      <4>2. Min(below) \in 1 .. 3 /\ Min(below) # 0
        <5>1. Min(below) \in {2, 3} BY <3>1, <3>3, <4>1
        <5> QED BY <5>1
      <4>3. coreFactor(c, d) = cache_latencies(Min(below)) BY <2>2, <2>9, <3>1, <3>2, <3>6
      <4>4. coreFactor(c, d) = <<"cache", Min(below)>> BY <2>7, <4>2, <4>3
      <4>5. cores_matrix[<<c, d>>] = <<"cache", Min(below)>> BY <2>4, <3>4, <3>6, <4>4
      <4> QED BY <3>6, <4>2, <4>5 DEF below
    <3> QED BY <3>5, <3>6
  <2> QED BY <2>8, <2>9
<1> QED BY <1>1, TopologyCorrect, PTL
=============================================================================
