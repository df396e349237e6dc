---------------------------- MODULE ServersProof ----------------------------
(* Proofs about the servers of the suite, for any number of faults, lost    *)
(* datagrams and iterations.                                                *)
EXTENDS ForkingServers, SequentialServers, DatagramServers, SequenceTheorems, WellFoundedInduction, TLAPS

DatagramSpec == DatagramInit /\ [][DatagramNext]_childvars

-----------------------------------------------------------------------------
(* lat_udp: the fields of the records that its steps change.                *)
UdpShape ==
  /\ DOMAIN pc = {"server"} \cup Clients
  /\ DOMAIN mem = {"faults", "lost", "left", "seq", "got", "last", "proto", "killed"}
  /\ DOMAIN chan = {"to", "from"}
  /\ mem.seq \in [Clients -> Nat] /\ DOMAIN mem.got = Clients /\ DOMAIN mem.left = Clients
  /\ DOMAIN chan.to = Clients /\ DOMAIN chan.from = Clients

(* A client that is not waiting has nothing on its way; one that waits has  *)
(* sent one datagram, and that is on its way to the server or back, or lost.*)
UdpFlight ==
  \A c \in Users :
    /\ pc[c] \in {"main", "run"} =>
         chan.to[c] = {} /\ chan.from[c] = {} /\ mem.got[c] = mem.seq[c] - 1
    /\ pc[c] = "recv" =>
         /\ chan.to[c] \subseteq {mem.seq[c] - 1} /\ chan.from[c] \subseteq {mem.seq[c] - 1}
         /\ chan.to[c] = {} \/ chan.from[c] = {}

UdpInv == program = "lat_udp" => UdpShape /\ UdpFlight

LEMMA UdpInit == DatagramInit => UdpInv
<1> SUFFICES ASSUME DatagramInit PROVE UdpShape /\ UdpFlight BY DEF UdpInv
<1> USE DEF DatagramInit, Clients, Users
<1>1. UdpShape BY DEF UdpShape
<1>2. UdpFlight BY DEF UdpFlight
<1> QED BY <1>1, <1>2

LEMMA UdpStep == UdpInv /\ [DatagramNext]_childvars => UdpInv'
<1> SUFFICES ASSUME UdpInv, [DatagramNext]_childvars, program' = "lat_udp"
             PROVE  UdpShape' /\ UdpFlight'
  BY DEF UdpInv
<1> USE DEF Move, Stands, Clients, Users
<1>1. CASE UNCHANGED childvars
  BY <1>1 DEF childvars, UdpInv, UdpShape, UdpFlight
<1>2. ASSUME DatagramNext, program = "lat_udp" PROVE UdpShape' /\ UdpFlight'
  <2> USE <1>2
  <2>0. UdpShape /\ UdpFlight BY DEF UdpInv
  <2>1. CASE BeginClients("lat_udp", "run")
    <3>1. UdpShape' BY <2>0, <2>1 DEF BeginClients, UdpShape
    <3>2. UdpFlight' BY <2>0, <2>1 DEF BeginClients, UdpShape, UdpFlight
    <3> QED BY <3>1, <3>2
  <2>2. CASE ShutDownRun("lat_udp", {-n : n \in Requests})
    <3>1. UdpShape' BY <2>0, <2>2 DEF ShutDownRun, SendTo, Goes, UdpShape
    <3>2. UdpFlight' BY <2>0, <2>2 DEF ShutDownRun, SendTo, Goes, UdpShape, UdpFlight
    <3> QED BY <3>1, <3>2
  <2>3. CASE LatUdpServer
    <3>1. CASE udp_server("lat_udp")
      <4>1. UdpShape' BY <2>0, <3>1 DEF udp_server, Goes, UdpShape
      <4>2. UdpFlight' BY <2>0, <3>1 DEF udp_server, Goes, UdpShape, UdpFlight
      <4> QED BY <4>1, <4>2
    <3>3. CASE Goes("server", "ended") /\ UNCHANGED <<mem, chan>>
      <4>1. UdpShape' BY <2>0, <3>3 DEF Goes, UdpShape
      <4>2. UdpFlight' BY <2>0, <3>3 DEF Goes, UdpShape, UdpFlight
      <4> QED BY <4>1, <4>2
    <3>2. ASSUME NEW d \in Clients, NEW n \in chan.to[d],
                 mem' = [mem EXCEPT !.last = Resync(n)], pc' = pc,
                 chan' = [chan EXCEPT !.to[d] = @ \ {n}, !.from[d] = @ \cup {Resync(n)}]
          PROVE  UdpShape' /\ UdpFlight'
      <4>1. Resync(n) = n BY DEF Resync
      <4>2. UdpShape' BY <2>0, <3>2 DEF UdpShape
      <4>3. UdpFlight' BY <2>0, <3>2, <4>1 DEF UdpShape, UdpFlight
      <4> QED BY <4>2, <4>3
    <3> QED BY <2>3, <3>1, <3>2, <3>3 DEF LatUdpServer
  <2>9. CASE UdpGoAway
    <3>1. Goes("server", "ended") /\ UNCHANGED <<mem, chan>> BY <2>9 DEF UdpGoAway
    <3>2. UdpShape' BY <2>0, <3>1 DEF Goes, UdpShape
    <3>3. UdpFlight' BY <2>0, <3>1 DEF Goes, UdpShape, UdpFlight
    <3> QED BY <3>2, <3>3
  <2>4. CASE Lose
    BY <2>0, <2>4 DEF Lose, UdpShape, UdpFlight
  <2>5. ASSUME NEW d \in Users, LatUdpDoit(d) PROVE UdpShape' /\ UdpFlight'
    <3> USE <2>5
    <3>1. CASE ClientDone("lat_udp", d)
      BY <2>0, <3>1 DEF ClientDone, Goes, UdpShape, UdpFlight
    <3>2. CASE Stands(d, "run") /\ SendTo(d, {mem.seq[d]}) /\ Goes(d, "recv")
               /\ mem' = [mem EXCEPT !.seq[d] = @ + 1]
      <4>1. UdpShape' BY <2>0, <3>2 DEF SendTo, Goes, UdpShape
      <4>2. UdpFlight' BY <2>0, <3>2 DEF SendTo, Goes, UdpShape, UdpFlight
      <4> QED BY <4>1, <4>2
    <3>3. ASSUME Stands(d, "recv"), NEW n \in chan.from[d], Goes(d, "run"),
                 chan' = [chan EXCEPT !.from[d] = @ \ {n}],
                 mem' = [mem EXCEPT !.got[d] = n, !.left[d] = @ - 1]
          PROVE  UdpShape' /\ UdpFlight'
      <4>1. UdpShape' BY <2>0, <3>3 DEF Goes, UdpShape
      <4>2. UdpFlight' BY <2>0, <3>3 DEF Goes, UdpShape, UdpFlight
      <4> QED BY <4>1, <4>2
    <3>4. CASE Goes(d, "ended") /\ UNCHANGED <<mem, chan>>
      BY <2>0, <3>4 DEF Goes, UdpShape, UdpFlight
    <3> QED BY <3>1, <3>2, <3>3, <3>4 DEF LatUdpDoit
  <2>6. ASSUME NEW d \in Users, LatUdpTimeout(d) \/ LatUdpCleanup(d) PROVE UdpShape' /\ UdpFlight'
    BY <2>0, <2>6 DEF LatUdpTimeout, LatUdpCleanup, CleanupSocket, Goes, UdpShape, UdpFlight
  <2>7. ~ BwUdpMain /\ ~ LatRpcMain /\ ~ BwUdpServer /\ ~ LatRpcServer /\ ~ xact_prog_1
    BY DEF BwUdpMain, LatRpcMain, BwUdpServer, LatRpcServer, xact_prog_1, BeginClients,
           ShutDownRun, udp_server
  <2>8. ASSUME NEW d \in Users, DatagramClient(d)
        PROVE  LatUdpDoit(d) \/ LatUdpTimeout(d) \/ LatUdpCleanup(d)
    BY <2>8 DEF DatagramClient, BwUdpLoopTransfer, BwUdpCleanup, CleanupSocket, ClientDone,
           LatRpcInitialize, LatRpcBenchmark, LatRpcDoit, client_rpc_xact_1
  <2> QED BY <2>1, <2>2, <2>3, <2>4, <2>5, <2>6, <2>7, <2>8, <2>9
          DEF DatagramNext, DatagramMain, DatagramServer, LatUdpMain
<1>3. ASSUME DatagramNext PROVE program' = program
  <2>1. \A p, l : Goes(p, l) => program' = program BY DEF Goes
  <2>2. DatagramMain => program' = program
    BY <2>1 DEF DatagramMain, LatUdpMain, BwUdpMain, LatRpcMain, BeginClients, ShutDownRun
  <2>3. DatagramServer => program' = program
    BY <2>1 DEF DatagramServer, LatUdpServer, BwUdpServer, LatRpcServer, xact_prog_1, udp_server
  <2>4. ASSUME NEW c, DatagramClient(c) PROVE program' = program
    BY <2>1, <2>4 DEF DatagramClient, LatUdpDoit, LatUdpTimeout, LatUdpCleanup, BwUdpCleanup,
       CleanupSocket, ClientDone, BwUdpLoopTransfer, LatRpcInitialize, LatRpcBenchmark,
       LatRpcDoit, client_rpc_xact_1
  <2> QED BY <1>3, <2>1, <2>2, <2>3, <2>4 DEF DatagramNext, Lose, UdpGoAway
<1> QED BY <1>1, <1>2, <1>3

(* The answer that lat_udp's client takes is the answer to what it sent     *)
(* last, however many datagrams are lost and in whichever order the server  *)
(* takes those of several clients.                                          *)
THEOREM UdpCorrect == DatagramSpec => []UdpReplies
<1>1. DatagramInit => UdpInv BY UdpInit
<1>2. UdpInv /\ [DatagramNext]_childvars => UdpInv' BY UdpStep
<1>3. UdpInv => UdpReplies BY DEF UdpInv, UdpFlight, UdpReplies, Stands
<1> QED BY <1>1, <1>2, <1>3, PTL DEF DatagramSpec

-----------------------------------------------------------------------------
(* lat_tcp and bw_tcp: the fields of the records, and of every connection.  *)
ForkingSpec == ForkingInit /\ [][ForkingNext]_childvars

Connections ==
  [control : {"none", "size", "get", "stop"}, in : Int, out : Int, client : BOOLEAN,
   server : {"queued", "open", "closed"}, handler : {"none", "control", "serve", "gone"}]

ChanShape ==
  /\ DOMAIN chan = {"conns", "accepted", "path", "body", "file"}
  /\ chan.accepted \in [Servers -> Nat] /\ chan.conns \in Seq(Connections)

ForkShape ==
  /\ DOMAIN pc = Servers \cup Clients
  /\ DOMAIN mem = {"faults", "sock", "tries", "left", "todo", "got", "msize", "move",
                   "zombies", "pending", "killed", "alarm", "silent"}
  /\ mem.sock \in [Clients -> Nat]
  /\ ChanShape
  /\ mem.msize \in Nat

Counts == mem.faults \in 0..MaxFaults /\ mem.zombies \in Nat

(* Every connection is that of one client, which connects once.             *)
OneOwner ==
  /\ \A c \in Clients : mem.sock[c] \in 0..Len(chan.conns)
  /\ \A c \in Clients : pc[c] \in {"main", "connect"} => mem.sock[c] = 0
  /\ \A c, d \in Clients : mem.sock[c] = mem.sock[d] => c = d \/ mem.sock[c] = 0
  /\ \A i \in DOMAIN chan.conns : \E c \in Clients : mem.sock[c] = i

(* A handler is forked once for a connection, after it was taken from the   *)
(* queue.                                                                    *)
OneFork ==
  /\ \A i \in DOMAIN chan.conns : chan.conns[i].server = "queued" => chan.conns[i].handler = "none"
  /\ pc["server"] = "fork" =>
       /\ chan.accepted["server"] \in DOMAIN chan.conns
       /\ chan.conns[chan.accepted["server"]].server # "queued"
       /\ chan.conns[chan.accepted["server"]].handler = "none"

(* The first message of a client that was not killed before it sent one     *)
(* stays unread until the handler takes it; only -S ends without one.       *)
Fresh(connection) == connection.client /\ connection.control = "none"
SizeSent ==
  \A c \in Users : mem.sock[c] # 0 =>
    IF pc[c] = "size" THEN Fresh(chan.conns[mem.sock[c]])
    ELSE \/ chan.conns[mem.sock[c]].control = "size"
         \/ chan.conns[mem.sock[c]].handler \notin {"none", "control"}
         \/ c \in mem.silent

StopSent ==
  /\ pc["stopper"] \in {"main", "connect", "stop", "ended"}
  /\ mem.sock["stopper"] # 0 /\ pc["stopper"] # "ended" => Fresh(chan.conns[mem.sock["stopper"]])
  /\ \A i \in DOMAIN chan.conns :
       chan.conns[i].control = "stop" => i = mem.sock["stopper"] /\ pc["stopper"] = "ended"

Survives ==
  pc["server"] = "ended" =>
    \/ mem.alarm
    \/ pc["stopper"] = "ended" /\ mem.sock["stopper"] # 0
    \/ program = "lat_tcp" /\ mem.silent # {}

ForkState ==
  /\ ForkShape /\ Counts /\ OneOwner /\ OneFork /\ SizeSent /\ StopSent /\ Survives
  /\ mem.pending => mem.zombies > 0

ForkingInv == program \in ForkingNames => ForkState

LEMMA ForkingStart == ForkingInit => ForkingInv
<1> SUFFICES ASSUME ForkingInit PROVE ForkState BY DEF ForkingInv
<1> USE DEF ForkingInit, SocketInit, EmptyChannels, Clients, Users, Servers
<1>1. ForkShape /\ Counts /\ ~ mem.pending
  BY BenchAssumption DEF ForkShape, ChanShape, Counts, Connections
<1>2. OneOwner /\ OneFork BY DEF OneOwner, OneFork
<1>3. SizeSent /\ StopSent /\ Survives BY DEF SizeSent, StopSent, Survives
<1> QED BY <1>1, <1>2, <1>3 DEF ForkState

LEMMA Updated ==
  ASSUME NEW s \in Seq(Connections), NEW i \in DOMAIN s, NEW v \in Connections
  PROVE  /\ [s EXCEPT ![i] = v] \in Seq(Connections)
         /\ Len([s EXCEPT ![i] = v]) = Len(s)
         /\ \A j \in 1..Len(s) : [s EXCEPT ![i] = v][j] = IF j = i THEN v ELSE s[j]
BY ExceptSeq, LenProperties

LEMMA SideClosed ==
  ASSUME NEW s \in Seq(Connections), NEW held
  PROVE  CloseServerSide(s, held) \in Seq(Connections) /\ Len(CloseServerSide(s, held)) = Len(s)
<1>1. PICK n \in Nat : n = Len(s) /\ DOMAIN s = 1..n BY LenProperties
<1>2. \A i \in 1..n : s[i] \in Connections BY <1>1, ElementOfSeq
<1>3. CloseServerSide(s, held) \in [1..n -> Connections]
  BY <1>1, <1>2 DEF CloseServerSide, Connections
<1> QED BY <1>1, <1>3, SeqDef, LenProperties

(* What a step leaves of OneFork, and of StopSent, that forks nothing and    *)
(* asks nobody to stop.                                                      *)
LEMMA OneForkKept ==
  ASSUME OneFork, DOMAIN chan'.conns = DOMAIN chan.conns, chan'.accepted = chan.accepted,
         pc'["server"] = "fork" => pc["server"] = "fork",
         \A j \in DOMAIN chan.conns :
           /\ chan'.conns[j].server = "queued" <=> chan.conns[j].server = "queued"
           /\ chan'.conns[j].handler = chan.conns[j].handler
  PROVE  OneFork'
<1>1. PICK k : k = chan.accepted["server"] OBVIOUS
<1>2. \A j \in DOMAIN chan.conns : chan'.conns[j].server = "queued" => chan'.conns[j].handler = "none"
  BY DEF OneFork
<1>3. pc["server"] = "fork" =>
        k \in DOMAIN chan.conns /\ chan.conns[k].server # "queued" /\ chan.conns[k].handler = "none"
  BY <1>1 DEF OneFork
<1>4. pc'["server"] = "fork" =>
        k \in DOMAIN chan.conns /\ chan'.conns[k].server # "queued" /\ chan'.conns[k].handler = "none"
  BY <1>3
<1> QED BY <1>1, <1>2, <1>4 DEF OneFork

LEMMA StopSentKept ==
  ASSUME StopSent, DOMAIN chan'.conns = DOMAIN chan.conns,
         mem.sock["stopper"] \in {0} \cup DOMAIN chan.conns,
         mem'.sock["stopper"] = mem.sock["stopper"], pc'["stopper"] = pc["stopper"],
         \A j \in DOMAIN chan.conns :
           /\ chan'.conns[j].control = chan.conns[j].control
           /\ j = mem.sock["stopper"] => chan'.conns[j].client = chan.conns[j].client
  PROVE  StopSent'
<1>1. PICK k : k = mem.sock["stopper"] OBVIOUS
<1>2. k # 0 /\ pc["stopper"] # "ended" => k \in DOMAIN chan.conns /\ Fresh(chan.conns[k])
  BY <1>1 DEF StopSent
<1>3. k # 0 /\ pc["stopper"] # "ended" => Fresh(chan'.conns[k]) BY <1>1, <1>2 DEF Fresh
<1>4. \A j \in DOMAIN chan.conns : chan'.conns[j].control = "stop" => j = k /\ pc["stopper"] = "ended"
  BY <1>1 DEF StopSent
<1> QED BY <1>1, <1>3, <1>4 DEF StopSent

(* A step of client c, past its connect, that moves bytes or closes its end. *)
LEMMA ClientMoves ==
  ASSUME ForkState, ForkShape', Counts', UNCHANGED <<program, mem.sock, chan.accepted>>,
         mem'.faults = mem.faults, UNCHANGED <<mem.silent, mem.alarm>>,
         mem'.zombies = mem.zombies, mem'.pending = mem.pending,
         NEW c \in Users, pc[c] \notin {"main", "connect", "size"} \/ Sock(c) = 0,
         NEW l, l \notin {"main", "connect", "size"}, pc'[c] = l,
         \A p \in (Servers \cup Clients) \ {c} : pc'[p] = pc[p],
         Len(chan'.conns) = Len(chan.conns),
         \A i \in 1..Len(chan.conns) :
           /\ chan'.conns[i].control = chan.conns[i].control
           /\ chan'.conns[i].server = chan.conns[i].server
           /\ chan'.conns[i].handler = chan.conns[i].handler
           /\ i # Sock(c) => chan'.conns[i].client = chan.conns[i].client
  PROVE  ForkState'
<1> USE DEF ForkState, Users, Clients, Servers
<1>1. PICK n \in Nat : n = Len(chan.conns) /\ DOMAIN chan.conns = 1..n /\ DOMAIN chan'.conns = 1..n
  BY LenProperties DEF ForkShape, ChanShape
<1>2. /\ \A d \in Clients : mem.sock[d] \in 0..n /\ mem.sock[d] \in Nat
      /\ \A d \in Clients \ {c} : pc'[d] = pc[d]
      /\ pc'[c] = l /\ pc'["server"] = pc["server"] /\ pc'["stopper"] = pc["stopper"]
  BY <1>1 DEF OneOwner, ForkShape, ChanShape
<1>3. OneOwner' BY <1>1, <1>2 DEF OneOwner
<1>4. OneFork' BY <1>1, <1>2, OneForkKept
<1>5. \A d \in Clients \ {c} : mem.sock[d] # 0 => mem.sock[d] # Sock(c) /\ mem.sock[d] \in 1..n
  BY <1>1, <1>2 DEF OneOwner, Sock
<1>6. Sock(c) # 0 => Sock(c) \in 1..n BY <1>2 DEF Sock
<1>7. SizeSent'
  <2> SUFFICES ASSUME NEW d \in Users, mem.sock[d] # 0
               PROVE  IF pc'[d] = "size" THEN Fresh(chan'.conns[mem.sock[d]])
                      ELSE \/ chan'.conns[mem.sock[d]].control = "size"
                           \/ chan'.conns[mem.sock[d]].handler \notin {"none", "control"}
                           \/ d \in mem'.silent
    BY DEF SizeSent
  <2>1. CASE d = c
    <3>1. pc[c] \notin {"main", "connect", "size"} /\ mem.sock[c] # 0 BY <2>1 DEF Sock
    <3>2. \/ chan.conns[mem.sock[c]].control = "size"
          \/ chan.conns[mem.sock[c]].handler \notin {"none", "control"}
          \/ c \in mem.silent
      BY <3>1 DEF SizeSent
    <3>3. mem.sock[c] \in 1..Len(chan.conns) BY <3>1, <1>1, <1>6 DEF Sock
    <3>4. pc'[d] # "size" BY <2>1, <1>2
    <3> QED BY <2>1, <3>2, <3>3, <3>4
  <2>2. CASE d # c
    <3>1. PICK k : k = mem.sock[d] /\ k \in 1..Len(chan.conns) /\ k # Sock(c)
      BY <2>2, <1>1, <1>5
    <3>2. pc'[d] = pc[d] BY <2>2, <1>2
    <3>3. /\ chan'.conns[k].control = chan.conns[k].control
          /\ chan'.conns[k].handler = chan.conns[k].handler
          /\ chan'.conns[k].client = chan.conns[k].client
      BY <3>1
    <3>4. IF pc[d] = "size" THEN Fresh(chan.conns[k])
          ELSE \/ chan.conns[k].control = "size"
               \/ chan.conns[k].handler \notin {"none", "control"}
               \/ d \in mem.silent
      BY <3>1 DEF SizeSent
    <3> QED BY <3>1, <3>2, <3>3, <3>4 DEF Fresh
  <2> QED BY <2>1, <2>2
<1>8. StopSent'
  <2>1. mem.sock["stopper"] # 0 => mem.sock["stopper"] # Sock(c) BY <1>5
  <2>2. mem.sock["stopper"] \in {0} \cup 1..n BY <1>2
  <2>3. \A j \in 1..n : j = mem.sock["stopper"] => chan'.conns[j].client = chan.conns[j].client
    BY <1>1, <2>1
  <2> QED BY <1>1, <1>2, <2>2, <2>3, StopSentKept
<1>9. Survives' BY <1>2 DEF Survives
<1> QED BY <1>3, <1>4, <1>7, <1>8, <1>9

(* A step of handler i.  Nobody is asked to connect again by it; the server *)
(* may end, and what it held is closed then.                                 *)
LEMMA HandlerMoves ==
  ASSUME ForkState, ForkShape', Counts', UNCHANGED <<program, mem.sock, chan.accepted>>,
         mem'.faults = mem.faults, UNCHANGED <<mem.silent, mem.alarm>>,
         mem'.pending => mem'.zombies > 0, Survives',
         pc' = pc \/ pc' = Move("server", "ended"),
         NEW i \in 1..Len(chan.conns), chan.conns[i].handler \in {"control", "serve"},
         Len(chan'.conns) = Len(chan.conns),
         \A j \in 1..Len(chan.conns) :
           /\ chan'.conns[j].client = chan.conns[j].client
           /\ chan'.conns[j].server \in {chan.conns[j].server, "closed"}
           /\ j # i => /\ chan'.conns[j].control = chan.conns[j].control
                       /\ chan'.conns[j].handler = chan.conns[j].handler,
         chan'.conns[i].handler \in {"serve", "gone"},
         chan'.conns[i].control \in {chan.conns[i].control, "none"}
  PROVE  ForkState'
<1> USE DEF ForkState, Users, Clients, Servers
<1>1. PICK n \in Nat : n = Len(chan.conns) /\ DOMAIN chan.conns = 1..n /\ DOMAIN chan'.conns = 1..n
  BY LenProperties DEF ForkShape, ChanShape
<1>2. /\ \A d \in Clients : mem.sock[d] \in 0..n /\ mem.sock[d] \in Nat
      /\ \A d \in Clients : pc'[d] = pc[d]
      /\ pc'["server"] \in {pc["server"], "ended"}
  BY <1>1 DEF OneOwner, ForkShape, ChanShape, Move
<1>3. OneOwner' BY <1>1, <1>2 DEF OneOwner
<1>4. OneFork'
  <2>1. ASSUME NEW j \in 1..n, chan'.conns[j].server = "queued"
        PROVE  chan'.conns[j].handler = "none"
    <3>1. chan.conns[j].server = "queued" BY <1>1, <2>1
    <3>2. chan.conns[j].handler = "none" BY <1>1, <3>1 DEF OneFork
    <3>3. j # i BY <3>2
    <3> QED BY <1>1, <3>2, <3>3
  <2>2. CASE pc'["server"] = "fork"
    <3>1. PICK k : k = chan.accepted["server"] OBVIOUS
    <3>2. pc["server"] = "fork" BY <1>2, <2>2
    <3>3. k \in 1..n /\ chan.conns[k].server # "queued" /\ chan.conns[k].handler = "none"
      BY <1>1, <3>1, <3>2 DEF OneFork
    <3>4. k # i BY <3>3
    <3>5. chan'.conns[k].server # "queued" /\ chan'.conns[k].handler = "none" BY <1>1, <3>3, <3>4
    <3> QED BY <1>1, <2>1, <3>1, <3>3, <3>5 DEF OneFork
  <2>3. CASE pc'["server"] # "fork" BY <1>1, <2>1, <2>3 DEF OneFork
  <2> QED BY <2>2, <2>3
<1>5. \A d \in Clients : mem.sock[d] # 0 => mem.sock[d] \in 1..n BY <1>2
<1>6. SizeSent'
  <2> SUFFICES ASSUME NEW d \in Users, mem.sock[d] # 0
               PROVE  IF pc'[d] = "size" THEN Fresh(chan'.conns[mem.sock[d]])
                      ELSE \/ chan'.conns[mem.sock[d]].control = "size"
                           \/ chan'.conns[mem.sock[d]].handler \notin {"none", "control"}
                           \/ d \in mem'.silent
    BY DEF SizeSent
  <2>0. PICK k : k = mem.sock[d] /\ k # 0 OBVIOUS
  <2>1. k \in 1..Len(chan.conns) /\ pc'[d] = pc[d] BY <2>0, <1>2, <1>5, <1>1
  <2>2. CASE pc[d] = "size"
    <3>1. Fresh(chan.conns[k]) BY <2>0, <2>2 DEF SizeSent
    <3>2. /\ chan'.conns[k].client = chan.conns[k].client
          /\ chan'.conns[k].control \in {chan.conns[k].control, "none"}
      <4>1. CASE k = i BY <2>1, <4>1
      <4>2. CASE k # i BY <2>1, <4>2
      <4> QED BY <4>1, <4>2
    <3>3. Fresh(chan'.conns[k]) BY <3>1, <3>2 DEF Fresh
    <3> QED BY <2>0, <2>1, <2>2, <3>3
  <2>3. CASE pc[d] # "size"
    <3>1. \/ chan.conns[k].control = "size"
          \/ chan.conns[k].handler \notin {"none", "control"}
          \/ d \in mem.silent
      BY <2>0, <2>3 DEF SizeSent
    <3>2. chan'.conns[i].handler \notin {"none", "control"} OBVIOUS
    <3>3. k # i => chan'.conns[k].control = chan.conns[k].control
                   /\ chan'.conns[k].handler = chan.conns[k].handler
      BY <2>1
    <3> QED BY <2>0, <2>1, <2>3, <3>1, <3>2, <3>3
  <2> QED BY <2>2, <2>3
<1>7. StopSent'
  <2>1. mem.sock["stopper"] # 0 /\ pc["stopper"] # "ended" => Fresh(chan'.conns[mem.sock["stopper"]])
    <3> SUFFICES ASSUME mem.sock["stopper"] # 0, pc["stopper"] # "ended"
                 PROVE  Fresh(chan'.conns[mem.sock["stopper"]])
      OBVIOUS
    <3>1. Fresh(chan.conns[mem.sock["stopper"]]) BY DEF StopSent
    <3>2. mem.sock["stopper"] \in 1..Len(chan.conns) BY <1>1, <1>5
    <3>3. PICK q : q = mem.sock["stopper"] OBVIOUS
    <3> QED BY <3>1, <3>2, <3>3 DEF Fresh
  <2>2. \A j \in 1..n : chan'.conns[j].control = "stop" => chan.conns[j].control = "stop"
    BY <1>1
  <2> QED BY <2>1, <2>2, <1>1, <1>2 DEF StopSent
<1> QED BY <1>3, <1>4, <1>6, <1>7

(* The connections after one of them, k, has changed to v.                  *)
LEMMA Changed ==
  ASSUME ChanShape, NEW k \in DOMAIN chan.conns, NEW v \in Connections,
         chan' = [chan EXCEPT !.conns = [@ EXCEPT ![k] = v]]
  PROVE  /\ ChanShape' /\ Len(chan'.conns) = Len(chan.conns) /\ chan'.accepted = chan.accepted
         /\ \A j \in 1..Len(chan.conns) : chan'.conns[j] = IF j = k THEN v ELSE chan.conns[j]
<1>1. chan'.conns = [chan.conns EXCEPT ![k] = v] BY DEF ChanShape
<1> QED BY <1>1, Updated DEF ChanShape

LEMMA SockConn ==
  ASSUME ForkState, NEW c \in Clients, Sock(c) # 0
  PROVE  Sock(c) \in DOMAIN chan.conns /\ Conn(c) \in Connections
<1>1. Sock(c) \in 1..Len(chan.conns) /\ chan.conns \in Seq(Connections)
  BY LenProperties DEF ForkState, OneOwner, ForkShape, ChanShape, Sock
<1> QED BY <1>1, ElementOfSeq, LenProperties DEF Conn

(* A client moves bytes, or closes its end.                                  *)
LEMMA ClientBytes ==
  ASSUME ForkState, UNCHANGED <<program, mem.sock, mem.msize>>, DOMAIN mem' = DOMAIN mem,
         mem'.faults = mem.faults, UNCHANGED <<mem.silent, mem.alarm>>,
         mem'.zombies = mem.zombies, mem'.pending = mem.pending,
         NEW c \in Users, pc[c] \notin {"main", "connect", "size"} \/ Sock(c) = 0,
         NEW l, l \notin {"main", "connect", "size"}, pc' = Move(c, l) \/ (pc' = pc /\ pc[c] = l),
         \/ chan' = chan
         \/ DOMAIN chan' = DOMAIN chan /\ chan'.conns = chan.conns /\ chan'.accepted = chan.accepted
         \/ /\ Sock(c) # 0
            /\ \/ \E x \in Int : chan' = [chan EXCEPT !.conns[Sock(c)].in = x]
               \/ \E x \in Int : chan' = [chan EXCEPT !.conns[Sock(c)].out = x]
               \/ chan' = [chan EXCEPT !.conns[Sock(c)].client = FALSE]
  PROVE  ForkState'
<1>1. Counts' BY DEF ForkState, Counts
<1>9. pc'[c] = l /\ DOMAIN pc' = DOMAIN pc /\ \A p \in (Servers \cup Clients) \ {c} : pc'[p] = pc[p]
  BY DEF Move, ForkState, ForkShape, Clients
<1>2. ASSUME ChanShape' PROVE ForkShape' BY <1>2, <1>9 DEF ForkState, ForkShape
<1>3. CASE DOMAIN chan' = DOMAIN chan /\ chan'.conns = chan.conns /\ chan'.accepted = chan.accepted
  BY <1>1, <1>2, <1>3, <1>9, ClientMoves DEF ForkState, ForkShape, ChanShape
<1>4. ASSUME NEW v \in Connections, Sock(c) # 0,
             chan' = [chan EXCEPT !.conns = [@ EXCEPT ![Sock(c)] = v]],
             v.control = Conn(c).control, v.server = Conn(c).server, v.handler = Conn(c).handler
      PROVE  ForkState'
  <2>1. Sock(c) \in DOMAIN chan.conns BY <1>4, SockConn DEF Clients
  <2>2. /\ ChanShape' /\ Len(chan'.conns) = Len(chan.conns) /\ chan'.accepted = chan.accepted
        /\ \A j \in 1..Len(chan.conns) : chan'.conns[j] = IF j = Sock(c) THEN v ELSE chan.conns[j]
    BY <2>1, <1>4, Changed DEF ForkState, ForkShape
  <2> QED BY <2>2, <1>1, <1>2, <1>4, <1>9, ClientMoves DEF Conn
<1>5. Sock(c) # 0 => Conn(c) \in Connections BY SockConn DEF Clients
<1>6. ASSUME Sock(c) # 0, NEW x \in Int, chan' = [chan EXCEPT !.conns[Sock(c)].in = x]
      PROVE  ForkState'
  <2>1. PICK v : v = [Conn(c) EXCEPT !.in = x] OBVIOUS
  <2>2. v \in Connections /\ v.control = Conn(c).control /\ v.server = Conn(c).server
        /\ v.handler = Conn(c).handler
    BY <1>5, <1>6, <2>1 DEF Connections
  <2>3. chan' = [chan EXCEPT !.conns = [@ EXCEPT ![Sock(c)] = v]] BY <1>6, <2>1 DEF Conn
  <2> QED BY <1>4, <1>6, <2>2, <2>3
<1>7. ASSUME Sock(c) # 0, NEW x \in Int, chan' = [chan EXCEPT !.conns[Sock(c)].out = x]
      PROVE  ForkState'
  <2>1. PICK v : v = [Conn(c) EXCEPT !.out = x] OBVIOUS
  <2>2. v \in Connections /\ v.control = Conn(c).control /\ v.server = Conn(c).server
        /\ v.handler = Conn(c).handler
    BY <1>5, <1>7, <2>1 DEF Connections
  <2>3. chan' = [chan EXCEPT !.conns = [@ EXCEPT ![Sock(c)] = v]] BY <1>7, <2>1 DEF Conn
  <2> QED BY <1>4, <1>7, <2>2, <2>3
<1>8. ASSUME Sock(c) # 0, chan' = [chan EXCEPT !.conns[Sock(c)].client = FALSE]
      PROVE  ForkState'
  <2>1. PICK v : v = [Conn(c) EXCEPT !.client = FALSE] OBVIOUS
  <2>2. v \in Connections /\ v.control = Conn(c).control /\ v.server = Conn(c).server
        /\ v.handler = Conn(c).handler
    BY <1>5, <1>8, <2>1 DEF Connections
  <2>3. chan' = [chan EXCEPT !.conns = [@ EXCEPT ![Sock(c)] = v]] BY <1>8, <2>1 DEF Conn
  <2> QED BY <1>4, <1>8, <2>2, <2>3
<1> QED BY <1>3, <1>6, <1>7, <1>8

LEMMA LatTcpBenchmark ==
  ASSUME ForkState, NEW c \in Users, LatTcpDoclient(c) \/ LatTcpCleanup(c) PROVE ForkState'
<1> USE DEF Stands
<1>1. Sock(c) # 0 => Conn(c) \in Connections BY SockConn DEF Clients, Users
<1>2. mem.msize \in Nat /\ DOMAIN mem = {"faults", "sock", "tries", "left", "todo", "got", "msize",
         "move", "zombies", "pending", "killed", "alarm", "silent"}
  BY DEF ForkState, ForkShape
<1>3. CASE LatTcpCleanup(c)
  BY <1>3, ClientBytes DEF LatTcpCleanup, Close, CloseClient
<1>4. CASE LatTcpDoclient(c)
  <2> USE <1>4
  <2>1. CASE pc[c] = "run" /\ pc' = Move(c, "close") /\ UNCHANGED <<program, mem, chan>>
    BY <2>1, ClientBytes
  <2>2. CASE /\ pc[c] = "run" /\ Sock(c) # 0 /\ UNCHANGED <<program, mem>> /\ pc' = Move(c, "reply")
             /\ chan' = [chan EXCEPT !.conns[Sock(c)].in = @ + mem.msize]
    <3>1. Conn(c).in + mem.msize \in Int BY <1>1, <1>2, <2>2 DEF Connections
    <3>2. chan' = [chan EXCEPT !.conns[Sock(c)].in = Conn(c).in + mem.msize]
      BY <2>2 DEF Conn
    <3>3. \E x \in Int : chan' = [chan EXCEPT !.conns[Sock(c)].in = x] BY <3>1, <3>2
    <3>4. pc[c] = "run" /\ Sock(c) # 0 /\ UNCHANGED <<program, mem>> BY <2>2
    <3>5. PICK l \in {"reply"} : pc' = Move(c, l) BY <2>2
    <3> QED BY <3>3, <3>4, <3>5, ClientBytes
  <2>3. CASE pc[c] = "run" /\ pc' \in {Move(c, "ended"), Move(c, "reply")}
             /\ UNCHANGED <<program, mem, chan>>
    BY <2>3, ClientBytes
  <2>4. CASE /\ pc[c] = "reply" /\ pc' = Move(c, "run") /\ mem' = Iterated(c) /\ program' = program
             /\ Sock(c) # 0
             /\ \E n \in 1..mem.msize : chan' = [chan EXCEPT !.conns[Sock(c)].out = @ - n]
    <3>1. PICK n \in 1..mem.msize : chan' = [chan EXCEPT !.conns[Sock(c)].out = @ - n] BY <2>4
    <3>2. Conn(c).out - n \in Int BY <1>1, <1>2, <2>4 DEF Connections
    <3>3. chan' = [chan EXCEPT !.conns[Sock(c)].out = Conn(c).out - n] BY <3>1 DEF Conn
    <3>4. /\ mem'.sock = mem.sock /\ mem'.msize = mem.msize /\ DOMAIN mem' = DOMAIN mem
          /\ mem'.faults = mem.faults
          /\ UNCHANGED <<mem.silent, mem.alarm>> /\ mem'.zombies = mem.zombies /\ mem'.pending = mem.pending
      BY <1>2, <2>4 DEF Iterated
    <3>5. \E x \in Int : chan' = [chan EXCEPT !.conns[Sock(c)].out = x] BY <3>2, <3>3
    <3>6. pc[c] = "reply" /\ Sock(c) # 0 /\ program' = program BY <2>4
    <3>7. PICK l \in {"run"} : pc' = Move(c, l) BY <2>4
    <3> QED BY <3>4, <3>5, <3>6, <3>7, ClientBytes
  <2>5. CASE pc[c] = "reply" /\ pc' = Move(c, "run") /\ mem' = Iterated(c) /\ UNCHANGED <<program, chan>>
    <3>1. /\ mem'.sock = mem.sock /\ mem'.msize = mem.msize /\ DOMAIN mem' = DOMAIN mem
          /\ mem'.faults = mem.faults
          /\ UNCHANGED <<mem.silent, mem.alarm>> /\ mem'.zombies = mem.zombies /\ mem'.pending = mem.pending
      BY <1>2, <2>5 DEF Iterated
    <3> QED BY <2>5, <3>1, ClientBytes
  <2> QED BY <2>1, <2>2, <2>3, <2>4, <2>5 DEF LatTcpDoclient
<1> QED BY <1>3, <1>4

LEMMA BwTcpBenchmark ==
  ASSUME ForkState, NEW c \in Users, LoopTransfer(c) \/ BwTcpCleanup(c) PROVE ForkState'
<1> USE DEF Stands
<1>1. Sock(c) # 0 => Conn(c) \in Connections BY SockConn DEF Clients, Users
<1>2. mem.msize \in Nat /\ DOMAIN mem = {"faults", "sock", "tries", "left", "todo", "got", "msize",
         "move", "zombies", "pending", "killed", "alarm", "silent"}
  BY DEF ForkState, ForkShape
<1>3. CASE BwTcpCleanup(c)
  BY <1>3, ClientBytes DEF BwTcpCleanup, Close, CloseClient
<1>4. CASE LoopTransfer(c)
  <2> USE <1>4
  <2>1. CASE pc[c] = "run" /\ pc' = Move(c, "close") /\ UNCHANGED <<program, mem, chan>>
    BY <2>1, ClientBytes
  <2>2. CASE /\ pc[c] = "run" /\ pc' = Move(c, "read") /\ UNCHANGED <<program, chan>>
             /\ mem' = [mem EXCEPT !.todo[c] = mem.move]
    <3>1. /\ mem'.sock = mem.sock /\ mem'.msize = mem.msize /\ DOMAIN mem' = DOMAIN mem
          /\ mem'.faults = mem.faults
          /\ UNCHANGED <<mem.silent, mem.alarm>> /\ mem'.zombies = mem.zombies /\ mem'.pending = mem.pending
      BY <1>2, <2>2
    <3> QED BY <2>2, <3>1, ClientBytes
  <2>3. CASE pc[c] = "read" /\ pc' = Move(c, "ended") /\ UNCHANGED <<program, mem, chan>>
    BY <2>3, ClientBytes
  <2>4. ASSUME pc[c] = "read", program' = program, NEW n \in 1..mem.msize,
               chan' = [chan EXCEPT !.conns[Sock(c)].out = @ - n],
               \/ mem' = [mem EXCEPT !.todo[c] = @ - n] /\ UNCHANGED pc
               \/ mem' = [Iterated(c) EXCEPT !.todo[c] = 0] /\ pc' = Move(c, "run")
        PROVE  ForkState'
    <3>1. /\ mem'.sock = mem.sock /\ mem'.msize = mem.msize /\ DOMAIN mem' = DOMAIN mem
          /\ mem'.faults = mem.faults
          /\ UNCHANGED <<mem.silent, mem.alarm>> /\ mem'.zombies = mem.zombies /\ mem'.pending = mem.pending
      BY <1>2, <2>4 DEF Iterated
    <3>2. \/ DOMAIN chan' = DOMAIN chan /\ chan'.conns = chan.conns /\ chan'.accepted = chan.accepted
          \/ Sock(c) # 0 /\ \E x \in Int : chan' = [chan EXCEPT !.conns[Sock(c)].out = x]
      <4>1. CASE Sock(c) = 0
        <5>1. Sock(c) \notin DOMAIN chan.conns /\ chan.conns \in [1..Len(chan.conns) -> Connections]
          BY <4>1, LenProperties DEF ForkState, ForkShape, ChanShape
        <5> QED BY <2>4, <5>1 DEF ForkState, ForkShape, ChanShape
      <4>2. CASE Sock(c) # 0
        <5>1. Conn(c).out - n \in Int BY <1>1, <1>2, <2>4, <4>2 DEF Connections
        <5>2. chan' = [chan EXCEPT !.conns[Sock(c)].out = Conn(c).out - n] BY <2>4 DEF Conn
        <5> QED BY <4>2, <5>1, <5>2
      <4> QED BY <4>1, <4>2
    <3>3. PICK l \in {"read", "run"} : pc' = Move(c, l) \/ (pc' = pc /\ pc[c] = l) BY <2>4
    <3> QED BY <2>4, <3>1, <3>2, <3>3, ClientBytes
  <2> QED BY <2>1, <2>2, <2>3, <2>4 DEF LoopTransfer
<1> QED BY <1>3, <1>4

(* tcp_connect() of a client that has no connection.                         *)
LEMMA Connects ==
  ASSUME ForkState, NEW c \in Clients, NEW l, Stands(c, "connect"), tcp_connect(c, l),
         IF c \in Users THEN l = "size" ELSE l = "stop"
  PROVE  ForkState'
<1> USE DEF Stands, Clients, Users, Servers
<1>1. PICK n \in Nat : n = Len(chan.conns) /\ DOMAIN chan.conns = 1..n
  BY LenProperties DEF ForkState, ForkShape, ChanShape
<1>2. mem.sock[c] = 0 /\ \A d \in Clients : mem.sock[d] \in 0..n
  BY <1>1 DEF ForkState, OneOwner
<1>3. CASE Listening
  <2>1. chan' = [chan EXCEPT !.conns = Append(@, Connection)] /\ pc' = Move(c, l)
        /\ mem' = [mem EXCEPT !.sock[c] = n + 1, !.tries[c] = 0] /\ program' = program
    BY <1>1, <1>3 DEF tcp_connect
  <2>2. Connection \in Connections BY DEF Connection, Connections
  <2>3. chan'.conns = Append(chan.conns, Connection) /\ chan'.accepted = chan.accepted
        /\ DOMAIN chan' = DOMAIN chan
    BY <2>1 DEF ForkState, ForkShape, ChanShape
  <2>4. /\ chan'.conns \in Seq(Connections) /\ Len(chan'.conns) = n + 1
        /\ \A i \in 1..n : chan'.conns[i] = chan.conns[i]
        /\ chan'.conns[n + 1] = Connection
    BY <1>1, <2>2, <2>3, AppendProperties DEF ForkState, ForkShape, ChanShape
  <2>5. DOMAIN chan'.conns = 1..(n + 1) BY <1>1, <2>4, LenProperties
  <2>6. /\ DOMAIN mem' = DOMAIN mem /\ mem'.faults = mem.faults
        /\ UNCHANGED <<mem.silent, mem.alarm>> /\ mem'.zombies = mem.zombies
        /\ mem'.pending = mem.pending /\ mem'.msize = mem.msize
        /\ mem'.sock = [mem.sock EXCEPT ![c] = n + 1]
    BY <2>1 DEF ForkState, ForkShape
  <2>7. mem'.sock \in [Clients -> Nat] /\ mem'.sock[c] = n + 1
        /\ \A d \in Clients \ {c} : mem'.sock[d] = mem.sock[d] /\ mem.sock[d] # n + 1
    BY <1>2, <2>6 DEF ForkState, ForkShape
  <2>8. DOMAIN pc' = DOMAIN pc /\ pc'[c] = l /\ \A p \in (Servers \cup Clients) \ {c} : pc'[p] = pc[p]
    BY <2>1 DEF Move, ForkState, ForkShape
  <2>9. ForkShape' /\ Counts'
    BY <2>3, <2>4, <2>6, <2>7, <2>8 DEF ForkState, ForkShape, ChanShape, Counts
  <2>10. OneOwner'
    <3>1. \A i \in 1..(n + 1) : i = n + 1 \/ i \in 1..n BY <1>1
    <3>2. ASSUME NEW i \in 1..n PROVE \E d \in Clients : mem'.sock[d] = i
      <4>1. PICK d \in Clients : mem.sock[d] = i BY <1>1 DEF ForkState, OneOwner
      <4>2. d # c BY <4>1, <1>2
      <4> QED BY <4>1, <4>2, <2>7
    <3>3. \A d \in Clients : mem'.sock[d] \in 0..(n + 1) BY <1>2, <2>7
    <3> QED BY <3>1, <3>2, <3>3, <1>2, <2>4, <2>5, <2>7, <2>8 DEF ForkState, OneOwner
  <2>11. OneFork'
    BY <1>1, <2>3, <2>4, <2>5, <2>8 DEF ForkState, OneFork, Connection
  <2>12. SizeSent'
    <3> SUFFICES ASSUME NEW d \in Users, mem'.sock[d] # 0
                 PROVE  IF pc'[d] = "size" THEN Fresh(chan'.conns[mem'.sock[d]])
                        ELSE \/ chan'.conns[mem'.sock[d]].control = "size"
                             \/ chan'.conns[mem'.sock[d]].handler \notin {"none", "control"}
                             \/ d \in mem'.silent
      BY DEF SizeSent
    <3>1. CASE d = c BY <3>1, <2>4, <2>7, <2>8 DEF Fresh, Connection
    <3>2. CASE d # c
      <4>1. mem.sock[d] \in 1..n /\ mem'.sock[d] = mem.sock[d] /\ pc'[d] = pc[d]
        BY <3>2, <1>2, <2>7, <2>8
      <4>2. chan'.conns[mem.sock[d]] = chan.conns[mem.sock[d]] BY <4>1, <2>4
      <4> QED BY <4>1, <4>2, <2>6 DEF ForkState, SizeSent, Fresh
    <3> QED BY <3>1, <3>2
  <2>13. StopSent'
    <3>1. mem'.sock["stopper"] # 0 /\ pc'["stopper"] # "ended" => Fresh(chan'.conns[mem'.sock["stopper"]])
      <4>1. CASE c = "stopper" BY <4>1, <2>4, <2>7 DEF Fresh, Connection
      <4>2. CASE c # "stopper"
        <5>1. PICK k : k = mem.sock["stopper"] /\ k \in 0..n /\ k = mem'.sock["stopper"]
          BY <4>2, <1>2, <2>7
        <5>2. pc'["stopper"] = pc["stopper"] BY <4>2, <2>8
        <5>3. k # 0 /\ pc["stopper"] # "ended" => Fresh(chan.conns[k])
          BY <5>1 DEF ForkState, StopSent
        <5>4. k # 0 => chan'.conns[k] = chan.conns[k] BY <5>1, <2>4
        <5> QED BY <5>1, <5>2, <5>3, <5>4
      <4> QED BY <4>1, <4>2
    <3>2. pc'["stopper"] \in {"main", "connect", "stop", "ended"}
      BY <2>8 DEF ForkState, StopSent
    <3>3. ASSUME NEW i \in 1..(n + 1), chan'.conns[i].control = "stop"
          PROVE  i = mem'.sock["stopper"] /\ pc'["stopper"] = "ended"
      <4>1. i \in 1..n BY <3>3, <2>4, <1>1 DEF Connection
      <4>2. i = mem.sock["stopper"] /\ pc["stopper"] = "ended"
        BY <4>1, <3>3, <1>1, <2>4 DEF ForkState, StopSent
      <4> QED BY <4>2, <2>7, <2>8
    <3> QED BY <3>1, <3>2, <3>3, <2>5 DEF StopSent
  <2>14. Survives' BY <2>1, <2>6, <2>7, <2>8 DEF ForkState, Survives
  <2> QED BY <2>6, <2>9, <2>10, <2>11, <2>12, <2>13, <2>14 DEF ForkState
<1>4. CASE ~Listening
  <2>1. /\ chan' = chan /\ program' = program /\ pc' \in {pc, Move(c, l)}
        /\ mem' = [mem EXCEPT !.sock[c] = 0, !.tries[c] = IF @ > MaxTries THEN @ ELSE @ + 1]
    BY <1>4 DEF tcp_connect
  <2>2. /\ DOMAIN mem' = DOMAIN mem /\ mem'.faults = mem.faults
        /\ UNCHANGED <<mem.silent, mem.alarm>> /\ mem'.zombies = mem.zombies
        /\ mem'.pending = mem.pending /\ mem'.msize = mem.msize
        /\ mem'.sock \in [Clients -> Nat] /\ \A d \in Clients : mem'.sock[d] = mem.sock[d]
    BY <1>2, <2>1 DEF ForkState, ForkShape
  <2>3. DOMAIN pc' = DOMAIN pc /\ pc'[c] \in {pc[c], l}
        /\ \A p \in (Servers \cup Clients) \ {c} : pc'[p] = pc[p]
    BY <2>1 DEF Move, ForkState, ForkShape
  <2>4. ForkShape' /\ Counts' BY <2>1, <2>2, <2>3 DEF ForkState, ForkShape, ChanShape, Counts
  <2>5. OneOwner' BY <1>2, <2>1, <2>2, <2>3 DEF ForkState, OneOwner
  <2>6. OneFork' BY <2>1, <2>3 DEF ForkState, OneFork
  <2>7. SizeSent' BY <1>2, <2>1, <2>2, <2>3 DEF ForkState, SizeSent, Fresh
  <2>8. StopSent' BY <1>2, <2>1, <2>2, <2>3 DEF ForkState, StopSent, Fresh
  <2>9. Survives' BY <2>1, <2>2, <2>3 DEF ForkState, Survives
  <2> QED BY <2>2, <2>4, <2>5, <2>6, <2>7, <2>8, <2>9 DEF ForkState
<1> QED BY <1>3, <1>4

(* The first message of a client that has one connection or none.           *)
LEMMA Sends ==
  ASSUME ForkState, NEW c \in Users, Stands(c, "size"), SendSize(c)
  PROVE  ForkState'
<1> USE DEF Stands, Clients, Users, Servers
<1>1. PICK n \in Nat : n = Len(chan.conns) /\ DOMAIN chan.conns = 1..n
  BY LenProperties DEF ForkState, ForkShape, ChanShape
<1>2. program' = program /\ mem' = mem /\ pc' = Move(c, "run") BY DEF SendSize
<1>3. DOMAIN pc' = DOMAIN pc /\ pc'[c] = "run" /\ \A p \in (Servers \cup Clients) \ {c} : pc'[p] = pc[p]
  BY <1>2 DEF Move, ForkState, ForkShape
<1>4. CASE Sock(c) = 0
  <2>1. chan' = chan BY <1>4 DEF SendSize
  <2> QED BY <1>2, <1>4, <2>1, ClientBytes
<1>5. CASE Sock(c) # 0
  <2>1. Sock(c) \in 1..n /\ Conn(c) \in Connections BY <1>1, <1>5, SockConn
  <2>2. PICK v : v = [Conn(c) EXCEPT !.control = "size"] OBVIOUS
  <2>3. /\ v \in Connections /\ v.control = "size" /\ v.client = Conn(c).client
        /\ v.server = Conn(c).server /\ v.handler = Conn(c).handler
    BY <2>1, <2>2 DEF Connections
  <2>4. chan' = [chan EXCEPT !.conns = [@ EXCEPT ![Sock(c)] = v]]
    BY <1>5, <2>2 DEF SendSize, Conn
  <2>5. /\ ChanShape' /\ Len(chan'.conns) = n /\ chan'.accepted = chan.accepted
        /\ \A j \in 1..n : chan'.conns[j] = IF j = Sock(c) THEN v ELSE chan.conns[j]
    BY <1>1, <2>1, <2>3, <2>4, Changed DEF ForkState, ForkShape
  <2>6. DOMAIN chan'.conns = 1..n BY <2>5, LenProperties DEF ChanShape
  <2>7. ForkShape' /\ Counts' BY <1>2, <1>3, <2>5 DEF ForkState, ForkShape, Counts
  <2>8. OneOwner' BY <1>1, <1>2, <1>3, <2>5, <2>6 DEF ForkState, OneOwner
  <2>14. \A j \in 1..n : chan'.conns[j].server = chan.conns[j].server
                          /\ chan'.conns[j].handler = chan.conns[j].handler
    BY <2>3, <2>5 DEF Conn
  <2>9. OneFork' BY <1>1, <1>3, <2>5, <2>6, <2>14 DEF ForkState, OneFork
  <2>10. \A d \in Clients \ {c} : mem.sock[d] # 0 => mem.sock[d] # Sock(c) /\ mem.sock[d] \in 1..n
    BY <1>1, <1>5 DEF ForkState, OneOwner, ForkShape, Sock
  <2>11. SizeSent'
    <3> SUFFICES ASSUME NEW d \in Users, mem.sock[d] # 0
                 PROVE  IF pc'[d] = "size" THEN Fresh(chan'.conns[mem.sock[d]])
                        ELSE \/ chan'.conns[mem.sock[d]].control = "size"
                             \/ chan'.conns[mem.sock[d]].handler \notin {"none", "control"}
                             \/ d \in mem'.silent
      BY <1>2 DEF SizeSent
    <3>1. CASE d = c BY <3>1, <1>3, <2>1, <2>3, <2>5 DEF Sock
    <3>2. CASE d # c
      <4>1. pc'[d] = pc[d] /\ chan'.conns[mem.sock[d]] = chan.conns[mem.sock[d]]
        BY <3>2, <1>3, <2>5, <2>10
      <4> QED BY <4>1, <1>2 DEF ForkState, SizeSent, Fresh
    <3> QED BY <3>1, <3>2
  <2>12. StopSent'
    <3>1. mem.sock["stopper"] # 0 => chan'.conns[mem.sock["stopper"]] = chan.conns[mem.sock["stopper"]]
      BY <2>5, <2>10
    <3>2. \A j \in 1..n : chan'.conns[j].control = "stop" => chan.conns[j].control = "stop"
      BY <2>3, <2>5
    <3> QED BY <3>1, <3>2, <1>1, <1>2, <1>3, <2>6 DEF ForkState, StopSent, Fresh
  <2>13. Survives' BY <1>2, <1>3 DEF ForkState, Survives
  <2> QED BY <1>2, <2>7, <2>8, <2>9, <2>11, <2>12, <2>13 DEF ForkState
<1> QED BY <1>4, <1>5

LEMMA ClientStep ==
  ASSUME ForkState, NEW c \in Users, ForkingClient(c) PROVE ForkState'
<1>1. CASE (Stands(c, "connect") /\ tcp_connect(c, "size")) \/ (Stands(c, "size") /\ SendSize(c))
  BY <1>1, Connects, Sends DEF Clients
<1>2. CASE Stands(c, "size") /\ Sock(c) = 0 /\ pc' = Move(c, "ended") /\ UNCHANGED <<program, mem, chan>>
  BY <1>2, ClientBytes
<1> QED BY <1>1, <1>2, LatTcpBenchmark, BwTcpBenchmark
        DEF ForkingClient, LatTcpInit, BwTcpInitialize

(* A client is killed: it may have sent nothing.                              *)
LEMMA KillStep ==
  ASSUME ForkState, NEW c \in Users, KillClient(c) PROVE ForkState'
<1> USE DEF Clients, Users, Servers
<1>1. PICK n \in Nat : n = Len(chan.conns) /\ DOMAIN chan.conns = 1..n
  BY LenProperties DEF ForkState, ForkShape, ChanShape
<1>2. /\ program' = program /\ mem.faults > 0 /\ pc[c] # "main" /\ pc' = Move(c, "ended")
      /\ mem' = [mem EXCEPT !.faults = @ - 1,
                            !.silent = IF pc[c] = "size" /\ Sock(c) # 0 THEN @ \cup {c} ELSE @]
      /\ chan' = CloseClient(c)
  BY DEF KillClient
<1>3. DOMAIN pc' = DOMAIN pc /\ pc'[c] = "ended" /\ \A p \in (Servers \cup Clients) \ {c} : pc'[p] = pc[p]
  BY <1>2 DEF Move, ForkState, ForkShape
<1>4. /\ DOMAIN mem' = DOMAIN mem /\ mem'.sock = mem.sock /\ mem'.zombies = mem.zombies
      /\ mem'.pending = mem.pending /\ mem'.msize = mem.msize /\ mem'.faults = mem.faults - 1
      /\ mem'.alarm = mem.alarm
      /\ mem'.silent = IF pc[c] = "size" /\ Sock(c) # 0 THEN mem.silent \cup {c} ELSE mem.silent
  BY <1>2 DEF ForkState, ForkShape
<1>5. mem'.faults \in 0..MaxFaults
  BY <1>2, <1>4, BenchAssumption DEF ForkState, Counts
<1>6. /\ ChanShape' /\ Len(chan'.conns) = n /\ chan'.accepted = chan.accepted
      /\ \A j \in 1..n : /\ chan'.conns[j].control = chan.conns[j].control
                         /\ chan'.conns[j].server = chan.conns[j].server
                         /\ chan'.conns[j].handler = chan.conns[j].handler
                         /\ j # Sock(c) => chan'.conns[j].client = chan.conns[j].client
  <2>1. CASE Sock(c) = 0 BY <1>1, <1>2, <2>1 DEF CloseClient, ForkState, ForkShape, ChanShape
  <2>2. CASE Sock(c) # 0
    <3>1. Sock(c) \in 1..n /\ Conn(c) \in Connections BY <1>1, <2>2, SockConn
    <3>2. PICK v : v = [Conn(c) EXCEPT !.client = FALSE] OBVIOUS
    <3>3. v \in Connections /\ v.control = Conn(c).control /\ v.server = Conn(c).server
          /\ v.handler = Conn(c).handler
      BY <3>1, <3>2 DEF Connections
    <3>4. chan' = [chan EXCEPT !.conns = [@ EXCEPT ![Sock(c)] = v]]
      BY <1>2, <2>2, <3>2 DEF CloseClient, Conn
    <3>5. /\ ChanShape' /\ Len(chan'.conns) = n /\ chan'.accepted = chan.accepted
          /\ \A j \in 1..n : chan'.conns[j] = IF j = Sock(c) THEN v ELSE chan.conns[j]
      BY <1>1, <3>1, <3>3, <3>4, Changed DEF ForkState, ForkShape
    <3> QED BY <3>3, <3>5 DEF Conn
  <2> QED BY <2>1, <2>2
<1>7. DOMAIN chan'.conns = 1..n BY <1>6, LenProperties DEF ChanShape
<1>8. ForkShape' /\ Counts' BY <1>3, <1>4, <1>5, <1>6 DEF ForkState, ForkShape, Counts
<1>9. OneOwner' BY <1>1, <1>3, <1>4, <1>6, <1>7 DEF ForkState, OneOwner
<1>10. OneFork'
  <2>1. pc'["server"] = pc["server"] BY <1>3
  <2>2. OneFork BY DEF ForkState
  <2> QED BY <2>1, <2>2, <1>1, <1>6, <1>7, OneForkKept
<1>11. \A d \in Clients \ {c} : mem.sock[d] # 0 => mem.sock[d] # Sock(c) /\ mem.sock[d] \in 1..n
  BY <1>1 DEF ForkState, OneOwner, ForkShape, Sock
<1>12. SizeSent'
  <2> SUFFICES ASSUME NEW d \in Users, mem.sock[d] # 0
               PROVE  IF pc'[d] = "size" THEN Fresh(chan'.conns[mem.sock[d]])
                      ELSE \/ chan'.conns[mem.sock[d]].control = "size"
                           \/ chan'.conns[mem.sock[d]].handler \notin {"none", "control"}
                           \/ d \in mem'.silent
    BY <1>4 DEF SizeSent
  <2>0. PICK k : k = mem.sock[d] /\ k \in 1..n
    BY <1>1 DEF ForkState, OneOwner, ForkShape
  <2>1. /\ chan'.conns[k].control = chan.conns[k].control
        /\ chan'.conns[k].handler = chan.conns[k].handler
    BY <1>6, <2>0
  <2>2. IF pc[d] = "size" THEN Fresh(chan.conns[k])
        ELSE \/ chan.conns[k].control = "size"
             \/ chan.conns[k].handler \notin {"none", "control"}
             \/ d \in mem.silent
    BY <2>0 DEF ForkState, SizeSent
  <2>3. CASE d = c
    <3>1. pc'[d] = "ended" BY <2>3, <1>3
    <3>2. CASE pc[d] = "size"
      <4>1. d \in mem'.silent BY <2>3, <3>2, <1>4 DEF Sock
      <4> QED BY <3>1, <4>1
    <3>3. CASE pc[d] # "size"
      <4>1. d \in mem.silent => d \in mem'.silent BY <1>4
      <4> QED BY <2>0, <2>1, <2>2, <3>1, <3>3, <4>1
    <3> QED BY <3>2, <3>3
  <2>4. CASE d # c
    <3>1. pc'[d] = pc[d] BY <2>4, <1>3
    <3>2. k # Sock(c) BY <2>0, <2>4, <1>11
    <3>3. chan'.conns[k].client = chan.conns[k].client BY <1>6, <2>0, <3>2
    <3>4. d \in mem.silent => d \in mem'.silent BY <1>4
    <3> QED BY <2>0, <2>1, <2>2, <3>1, <3>3, <3>4 DEF Fresh
  <2> QED BY <2>3, <2>4
<1>13. StopSent'
  <2>1. mem.sock["stopper"] # 0 => mem.sock["stopper"] # Sock(c) BY <1>11
  <2>2. mem.sock["stopper"] \in {0} \cup 1..n BY <1>11
  <2>3. \A j \in 1..n : j = mem.sock["stopper"] => chan'.conns[j].client = chan.conns[j].client
    <3> SUFFICES ASSUME NEW j \in 1..n, j = mem.sock["stopper"]
                 PROVE  chan'.conns[j].client = chan.conns[j].client
      OBVIOUS
    <3>1. j # Sock(c) BY <1>1, <2>1
    <3> QED BY <1>6, <3>1
  <2>4. StopSent BY DEF ForkState
  <2>5. pc'["stopper"] = pc["stopper"] /\ mem'.sock = mem.sock BY <1>3, <1>4
  <2> QED BY <1>1, <1>6, <1>7, <2>2, <2>3, <2>4, <2>5, StopSentKept
<1>14. Survives'
  <2>1. pc'["server"] = pc["server"] /\ pc'["stopper"] = pc["stopper"] BY <1>3
  <2>2. mem.silent # {} => mem'.silent # {} BY <1>4
  <2> QED BY <1>2, <1>4, <2>1, <2>2 DEF ForkState, Survives
<1> QED BY <1>4, <1>8, <1>9, <1>10, <1>12, <1>13, <1>14 DEF ForkState

(* main() of the clients, and the -S run.                                    *)
LEMMA MainStep ==
  ASSUME ForkState, LatTcpMain \/ BwTcpMain PROVE ForkState'
<1> USE DEF Stands, Clients, Users, Servers
<1>1. PICK n \in Nat : n = Len(chan.conns) /\ DOMAIN chan.conns = 1..n
  BY LenProperties DEF ForkState, ForkShape, ChanShape
<1>2. ASSUME NEW p, NEW msize \in Nat, NEW move, Arguments(p, msize, move) PROVE ForkState'
  <2>1. /\ UNCHANGED <<program, chan>> /\ \A c \in Clients : pc[c] = "main"
        /\ pc' = [q \in DOMAIN pc |-> IF q \in Users THEN "connect" ELSE pc[q]]
        /\ mem' = [mem EXCEPT !.msize = msize, !.move = move,
                     !.left = [c \in Clients |-> IF c \in Users THEN 1 ELSE 0]]
    BY <1>2 DEF Arguments
  <2>2. /\ DOMAIN mem' = DOMAIN mem /\ mem'.sock = mem.sock /\ mem'.zombies = mem.zombies
        /\ mem'.pending = mem.pending /\ mem'.msize = msize /\ mem'.faults = mem.faults
        /\ UNCHANGED <<mem.silent, mem.alarm>>
    BY <2>1 DEF ForkState, ForkShape
  <2>3. /\ DOMAIN pc' = DOMAIN pc /\ \A q \in Servers \cup {"stopper"} : pc'[q] = pc[q]
        /\ \A q \in Users : pc'[q] = "connect"
    BY <2>1 DEF ForkState, ForkShape
  <2>4. ForkShape' /\ Counts' BY <1>2, <2>1, <2>2, <2>3 DEF ForkState, ForkShape, ChanShape, Counts
  <2>5. OneOwner' BY <2>1, <2>2, <2>3 DEF ForkState, OneOwner
  <2>6. OneFork' BY <2>1, <2>3 DEF ForkState, OneFork
  <2>7. \A c \in Clients : mem.sock[c] = 0 BY <2>1 DEF ForkState, OneOwner
  <2>8. SizeSent' BY <2>2, <2>7 DEF SizeSent
  <2>9. StopSent' BY <2>1, <2>2, <2>3, <2>7 DEF ForkState, StopSent, Fresh
  <2>10. Survives' BY <2>1, <2>2, <2>3 DEF ForkState, Survives
  <2> QED BY <2>2, <2>4, <2>5, <2>6, <2>8, <2>9, <2>10 DEF ForkState
<1>3. ASSUME NEW p, NEW control \in {"none", "stop"}, Stop(p, control) PROVE ForkState'
  <2>1. CASE /\ pc["stopper"] = "main" /\ pc' = Move("stopper", "connect")
             /\ UNCHANGED <<program, mem, chan>>
    <3>1. /\ DOMAIN pc' = DOMAIN pc /\ pc'["stopper"] = "connect"
          /\ \A q \in Servers \cup Users : pc'[q] = pc[q]
      BY <2>1 DEF Move, ForkState, ForkShape
    <3>2. mem.sock["stopper"] = 0 BY <2>1 DEF ForkState, OneOwner
    <3>3. ForkShape' /\ Counts' BY <2>1, <3>1 DEF ForkState, ForkShape, ChanShape, Counts
    <3>4. OneOwner' BY <2>1, <3>1, <3>2 DEF ForkState, OneOwner
    <3>5. OneFork' /\ SizeSent' BY <2>1, <3>1 DEF ForkState, OneFork, SizeSent, Fresh
    <3>6. StopSent' BY <2>1, <3>1, <3>2 DEF ForkState, StopSent, Fresh
    <3>7. Survives' BY <2>1, <3>1 DEF ForkState, Survives
    <3> QED BY <2>1, <3>3, <3>4, <3>5, <3>6, <3>7 DEF ForkState
  <2>2. CASE Stands("stopper", "connect") /\ tcp_connect("stopper", "stop")
    BY <2>2, Connects
  <2>3. CASE /\ pc["stopper"] = "stop" /\ pc' = Move("stopper", "ended") /\ UNCHANGED <<program, mem>>
             /\ chan' = IF Sock("stopper") = 0 THEN chan
                        ELSE [chan EXCEPT !.conns[Sock("stopper")].control = control,
                                          !.conns[Sock("stopper")].client = FALSE]
    <3>1. /\ DOMAIN pc' = DOMAIN pc /\ pc'["stopper"] = "ended"
          /\ \A q \in Servers \cup Users : pc'[q] = pc[q]
      BY <2>3 DEF Move, ForkState, ForkShape
    <3>2. /\ ChanShape' /\ Len(chan'.conns) = n /\ chan'.accepted = chan.accepted
          /\ \A j \in 1..n : /\ chan'.conns[j].server = chan.conns[j].server
                             /\ chan'.conns[j].handler = chan.conns[j].handler
                             /\ j # Sock("stopper") => chan'.conns[j] = chan.conns[j]
      <4>1. CASE Sock("stopper") = 0
        BY <1>1, <2>3, <4>1 DEF ForkState, ForkShape, ChanShape
      <4>2. CASE Sock("stopper") # 0
        <5>1. Sock("stopper") \in 1..n /\ Conn("stopper") \in Connections BY <1>1, <4>2, SockConn
        <5>2. PICK v : v = [Conn("stopper") EXCEPT !.control = control, !.client = FALSE] OBVIOUS
        <5>3. v \in Connections /\ v.server = Conn("stopper").server
              /\ v.handler = Conn("stopper").handler
          BY <1>3, <5>1, <5>2 DEF Connections
        <5>4. chan' = [chan EXCEPT !.conns = [@ EXCEPT ![Sock("stopper")] = v]]
          <6>1. /\ chan.conns \in [1..n -> Connections]
                /\ DOMAIN chan = {"conns", "accepted", "path", "body", "file"}
            BY <1>1, LenProperties DEF ForkState, ForkShape, ChanShape
          <6>2. chan' = [chan EXCEPT !.conns[Sock("stopper")].control = control,
                                     !.conns[Sock("stopper")].client = FALSE]
            BY <2>3, <4>2
          <6> QED BY <5>1, <5>2, <6>1, <6>2 DEF Conn
        <5>5. /\ ChanShape' /\ Len(chan'.conns) = n /\ chan'.accepted = chan.accepted
              /\ \A j \in 1..n : chan'.conns[j] = IF j = Sock("stopper") THEN v ELSE chan.conns[j]
          BY <1>1, <5>1, <5>3, <5>4, Changed DEF ForkState, ForkShape
        <5> QED BY <5>3, <5>5 DEF Conn
      <4> QED BY <4>1, <4>2
    <3>3. DOMAIN chan'.conns = 1..n BY <3>2, LenProperties DEF ChanShape
    <3>4. ForkShape' /\ Counts' BY <2>3, <3>1, <3>2 DEF ForkState, ForkShape, Counts
    <3>5. OneOwner' BY <1>1, <2>3, <3>1, <3>2, <3>3 DEF ForkState, OneOwner
    <3>6. OneFork'
      <4>1. pc'["server"] = pc["server"] BY <3>1
      <4>2. OneFork BY DEF ForkState
      <4> QED BY <4>1, <4>2, <1>1, <3>2, <3>3, OneForkKept
    <3>7. SizeSent'
      <4>1. \A d \in Users : mem.sock[d] # 0 => mem.sock[d] # Sock("stopper") /\ mem.sock[d] \in 1..n
        BY <1>1 DEF ForkState, OneOwner, ForkShape, Sock
      <4> SUFFICES ASSUME NEW d \in Users, NEW k, k = mem.sock[d], k # 0
                   PROVE  IF pc'[d] = "size" THEN Fresh(chan'.conns[k])
                          ELSE \/ chan'.conns[k].control = "size"
                               \/ chan'.conns[k].handler \notin {"none", "control"}
                               \/ d \in mem'.silent
        BY <2>3 DEF SizeSent
      <4>2. chan'.conns[k] = chan.conns[k] /\ pc'[d] = pc[d] BY <4>1, <3>1, <3>2
      <4>3. IF pc[d] = "size" THEN Fresh(chan.conns[k])
            ELSE \/ chan.conns[k].control = "size"
                 \/ chan.conns[k].handler \notin {"none", "control"}
                 \/ d \in mem.silent
        BY DEF ForkState, SizeSent
      <4> QED BY <4>2, <4>3, <2>3
    <3>8. StopSent' BY <1>1, <2>3, <3>1, <3>2, <3>3 DEF ForkState, StopSent, Sock
    <3>9. Survives' BY <2>3, <3>1 DEF ForkState, Survives
    <3> QED BY <2>3, <3>4, <3>5, <3>6, <3>7, <3>8, <3>9 DEF ForkState
  <2> QED BY <1>3, <2>1, <2>2, <2>3 DEF Stop
<1> QED BY <1>2, <1>3 DEF LatTcpMain, BwTcpMain

(* A queue that is not empty has a first connection.                         *)
LEMMA FirstInQueue ==
  ASSUME NEW q \in SUBSET Nat, q # {}
  PROVE  \E i \in q : \A j \in q : i <= j
<1> DEFINE Less == {ss \in Nat \X Nat : ss[1] < ss[2]}
<1>1. IsWellFoundedOn(Less, Nat) BY NatLessThanWellFounded DEF OpToRel
<1>2. PICK i \in q : \A j \in q : <<j, i>> \notin Less
  <2> HIDE DEF Less
  <2> QED BY <1>1, WFMin
<1>3. ASSUME NEW j \in q PROVE i <= j
  <2>1. i \in Nat /\ j \in Nat /\ ~ (j < i) BY <1>2
  <2> QED BY <2>1
<1> QED BY <1>3

LEMMA Accepted ==
  ASSUME ChanShape, NEW s \in Servers, NEW l, tcp_accept(s, l)
  PROVE  \E i \in 1..Len(chan.conns) : \E v \in Connections :
           /\ chan.conns[i].server = "queued" /\ v.server = "open"
           /\ v.control = chan.conns[i].control /\ v.client = chan.conns[i].client
           /\ v.out = chan.conns[i].out /\ v.handler = chan.conns[i].handler
           /\ ChanShape' /\ Len(chan'.conns) = Len(chan.conns)
           /\ \A j \in 1..Len(chan.conns) : chan'.conns[j] = IF j = i THEN v ELSE chan.conns[j]
           /\ chan'.accepted = [chan.accepted EXCEPT ![s] = i]
           /\ chan'.body = chan.body /\ chan'.file = chan.file
<1>1. PICK n \in Nat : /\ n = Len(chan.conns) /\ DOMAIN chan.conns = 1..n
                       /\ \A i \in 1..n : chan.conns[i] \in Connections
  BY LenProperties, ElementOfSeq DEF ChanShape
<1>2. PICK i \in 1..n : /\ chan.conns[i].server = "queued"
                        /\ chan' = [chan EXCEPT !.conns[i].server = "open", !.accepted[s] = i]
  <2> DEFINE k == CHOOSE i \in Queued : \A j \in Queued : i <= j
  <2>1. Queued # {} /\ Queued \subseteq 1..n BY <1>1 DEF tcp_accept, Queued
  <2>2. \E i \in Queued : \A j \in Queued : i <= j
    <3>1. PICK q : q = Queued OBVIOUS
    <3>2. q \in SUBSET Nat /\ q # {} BY <2>1, <3>1
    <3> HIDE DEF Queued
    <3>3. \E i \in q : \A j \in q : i <= j BY <3>2, FirstInQueue
    <3> QED BY <3>1, <3>3
  <2>3. k \in Queued BY <2>2
  <2>4. chan' = [chan EXCEPT !.conns[k].server = "open", !.accepted[s] = k] BY DEF tcp_accept
  <2> HIDE DEF k
  <2> QED BY <2>1, <2>3, <2>4 DEF Queued
<1>3. PICK v : v = [chan.conns[i] EXCEPT !.server = "open"] OBVIOUS
<1>4. /\ v \in Connections /\ v.control = chan.conns[i].control /\ v.client = chan.conns[i].client
      /\ v.server = "open" /\ v.handler = chan.conns[i].handler /\ v.out = chan.conns[i].out
  BY <1>1, <1>3 DEF Connections
<1>5. /\ chan'.conns = [chan.conns EXCEPT ![i] = v] /\ DOMAIN chan' = DOMAIN chan
      /\ chan'.accepted = [chan.accepted EXCEPT ![s] = i]
      /\ chan'.body = chan.body /\ chan'.file = chan.file
  BY <1>2, <1>3 DEF ChanShape
<1>6. /\ chan'.conns \in Seq(Connections) /\ Len(chan'.conns) = n
      /\ \A j \in 1..n : chan'.conns[j] = IF j = i THEN v ELSE chan.conns[j]
  BY <1>1, <1>4, <1>5, Updated DEF ChanShape
<1>7. ChanShape' BY <1>1, <1>5, <1>6 DEF ChanShape
<1>8. chan.conns[i].server = "queued" /\ i \in 1..Len(chan.conns) BY <1>1, <1>2
<1> USE <1>4, <1>8
<1> WITNESS i \in 1..Len(chan.conns)
<1> WITNESS v \in Connections
<1> QED BY <1>1, <1>4, <1>5, <1>6, <1>7, <1>8

(* The server takes a connection from the queue and forks a handler for it, *)
(* or fails to and leaves it without one.                                    *)
LEMMA ServerStep ==
  ASSUME ForkState, ForkingServer PROVE ForkState'
<1> USE DEF Stands, Clients, Users, Servers
<1>1. PICK n \in Nat : n = Len(chan.conns) /\ DOMAIN chan.conns = 1..n
  BY LenProperties DEF ForkState, ForkShape, ChanShape
<1>2. \A i \in 1..n : chan.conns[i] \in Connections
  BY <1>1, ElementOfSeq DEF ForkState, ForkShape, ChanShape
<1>3. chan.conns \in [1..n -> Connections]
  BY <1>1, LenProperties DEF ForkState, ForkShape, ChanShape
<1>4. ASSUME UNCHANGED <<program, mem, chan>>, pc' = Move("server", "accept") PROVE ForkState'
  <2>1. DOMAIN pc' = DOMAIN pc /\ pc'["server"] = "accept" /\ \A q \in Clients : pc'[q] = pc[q]
    BY <1>4 DEF Move, ForkState, ForkShape
  <2>2. ForkShape' /\ Counts' /\ OneFork' /\ Survives'
    BY <1>4, <2>1 DEF ForkState, ForkShape, ChanShape, Counts, OneFork, Survives
  <2>3. OneOwner' /\ SizeSent' /\ StopSent'
    BY <1>4, <2>1 DEF ForkState, OneOwner, SizeSent, StopSent, Fresh
  <2> QED BY <1>4, <2>2, <2>3 DEF ForkState
<1>5. CASE tcp_accept("server", "fork")
  <2>1. PICK i \in 1..n, v \in Connections :
          /\ chan.conns[i].server = "queued" /\ v.server = "open"
          /\ v.control = chan.conns[i].control /\ v.client = chan.conns[i].client
          /\ v.handler = chan.conns[i].handler
          /\ ChanShape' /\ Len(chan'.conns) = n
          /\ \A j \in 1..n : chan'.conns[j] = IF j = i THEN v ELSE chan.conns[j]
          /\ chan'.accepted = [chan.accepted EXCEPT !["server"] = i]
    <3>1. ChanShape /\ "server" \in Servers BY DEF ForkState, ForkShape
    <3> HIDE DEF Clients, Users, Servers
    <3> QED BY <1>1, <1>5, <3>1, Accepted
  <2>2. program' = program /\ mem' = mem /\ pc' = Move("server", "fork") BY <1>5 DEF tcp_accept
  <2>3. DOMAIN pc' = DOMAIN pc /\ pc'["server"] = "fork" /\ \A q \in Clients : pc'[q] = pc[q]
    BY <2>2 DEF Move, ForkState, ForkShape
  <2>5. v.server = "open" BY <2>1
  <2>7. DOMAIN chan'.conns = 1..n BY <2>1, LenProperties DEF ChanShape
  <2>8. \A j \in 1..n : /\ chan'.conns[j].control = chan.conns[j].control
                        /\ chan'.conns[j].client = chan.conns[j].client
                        /\ chan'.conns[j].handler = chan.conns[j].handler
    BY <2>1
  <2>9. ForkShape' /\ Counts' BY <2>1, <2>2, <2>3 DEF ForkState, ForkShape, Counts
  <2>10. OneOwner' BY <1>1, <2>1, <2>2, <2>3, <2>7 DEF ForkState, OneOwner
  <2>11. OneFork'
    <3>1. chan'.accepted["server"] = i BY <2>1 DEF ForkState, ForkShape, ChanShape
    <3>2. chan.conns[i].handler = "none" BY <1>1, <2>1 DEF ForkState, OneFork
    <3> QED BY <3>1, <3>2, <1>1, <2>1, <2>7 DEF ForkState, OneFork
  <2>12. \A d \in Clients : mem.sock[d] # 0 => mem.sock[d] \in 1..n
    BY <1>1 DEF ForkState, OneOwner, ForkShape
  <2>13. SizeSent' BY <2>2, <2>3, <2>8, <2>12 DEF ForkState, SizeSent, Fresh
  <2>14. StopSent' BY <1>1, <2>2, <2>3, <2>7, <2>8, <2>12 DEF ForkState, StopSent, Fresh
  <2>15. Survives' BY <2>3 DEF Survives
  <2> QED BY <2>2, <2>9, <2>10, <2>11, <2>13, <2>14, <2>15 DEF ForkState
<1>6. CASE /\ pc["server"] = "fork" /\ program' = program /\ pc' = Move("server", "accept")
           /\ chan' = [chan EXCEPT !.conns[chan.accepted["server"]].handler = "control"]
           /\ mem' = mem
  <2>1. PICK i \in 1..n : /\ i = chan.accepted["server"] /\ chan.conns[i].server # "queued"
                          /\ chan.conns[i].handler = "none"
    BY <1>1, <1>6 DEF ForkState, OneFork
  <2>2. PICK v : v = [chan.conns[i] EXCEPT !.handler = "control"] OBVIOUS
  <2>3. /\ v \in Connections /\ v.control = chan.conns[i].control /\ v.client = chan.conns[i].client
        /\ v.server = chan.conns[i].server /\ v.handler = "control"
    BY <1>2, <2>2 DEF Connections
  <2>4. chan' = [chan EXCEPT !.conns = [@ EXCEPT ![i] = v]] BY <1>6, <2>1, <2>2
  <2>5. /\ ChanShape' /\ Len(chan'.conns) = n /\ chan'.accepted = chan.accepted
        /\ \A j \in 1..n : chan'.conns[j] = IF j = i THEN v ELSE chan.conns[j]
    BY <1>1, <2>3, <2>4, Changed DEF ForkState, ForkShape
  <2>6. DOMAIN chan'.conns = 1..n BY <2>5, LenProperties DEF ChanShape
  <2>7. DOMAIN pc' = DOMAIN pc /\ pc'["server"] = "accept" /\ \A q \in Clients : pc'[q] = pc[q]
    BY <1>6 DEF Move, ForkState, ForkShape
  <2>8. \A j \in 1..n : /\ chan'.conns[j].control = chan.conns[j].control
                        /\ chan'.conns[j].client = chan.conns[j].client
                        /\ chan'.conns[j].server = chan.conns[j].server
                        /\ \/ chan'.conns[j].handler = chan.conns[j].handler
                           \/ j = i /\ chan.conns[j].handler = "none"
    BY <2>1, <2>3, <2>5
  <2>9. ForkShape' /\ Counts' BY <1>6, <2>5, <2>7 DEF ForkState, ForkShape, Counts
  <2>10. OneOwner' BY <1>1, <1>6, <2>5, <2>6, <2>7 DEF ForkState, OneOwner
  <2>11. OneFork' BY <1>1, <2>1, <2>6, <2>7, <2>8 DEF ForkState, OneFork
  <2>12. \A d \in Clients : mem.sock[d] # 0 => mem.sock[d] \in 1..n
    BY <1>1 DEF ForkState, OneOwner, ForkShape
  <2>13. SizeSent' BY <1>6, <2>7, <2>8, <2>12 DEF ForkState, SizeSent, Fresh
  <2>14. StopSent'
    <3>1. PICK k : k = mem.sock["stopper"] OBVIOUS
    <3>2. k # 0 /\ pc["stopper"] # "ended" => k \in 1..n /\ Fresh(chan.conns[k])
      BY <2>12, <3>1 DEF ForkState, StopSent
    <3>3. k # 0 /\ pc["stopper"] # "ended" => Fresh(chan'.conns[k]) BY <2>8, <3>2 DEF Fresh
    <3>4. \A j \in 1..n : chan'.conns[j].control = "stop" => j = k /\ pc["stopper"] = "ended"
      BY <1>1, <2>8, <3>1 DEF ForkState, StopSent
    <3>5. pc'["stopper"] = pc["stopper"] /\ pc["stopper"] \in {"main", "connect", "stop", "ended"}
      BY <2>7 DEF ForkState, StopSent
    <3> QED BY <1>6, <2>6, <3>1, <3>3, <3>4, <3>5 DEF StopSent
  <2>15. Survives' BY <2>7 DEF Survives
  <2> QED BY <1>6, <2>9, <2>10, <2>11, <2>13, <2>14, <2>15 DEF ForkState
<1>7. CASE /\ pc["server"] = "fork" /\ program' = program /\ pc' = Move("server", "accept")
           /\ mem.faults > 0 /\ mem' = [mem EXCEPT !.faults = @ - 1] /\ chan' = chan
  <2>1. DOMAIN pc' = DOMAIN pc /\ pc'["server"] = "accept" /\ \A q \in Clients : pc'[q] = pc[q]
    BY <1>7 DEF Move, ForkState, ForkShape
  <2>2. /\ DOMAIN mem' = DOMAIN mem /\ mem'.sock = mem.sock /\ mem'.zombies = mem.zombies
        /\ mem'.pending = mem.pending /\ mem'.msize = mem.msize /\ mem'.faults = mem.faults - 1
        /\ UNCHANGED <<mem.silent, mem.alarm>>
    BY <1>7 DEF ForkState, ForkShape
  <2>3. mem'.faults \in 0..MaxFaults
    BY <1>7, <2>2, BenchAssumption DEF ForkState, Counts
  <2>4. ForkShape' /\ Counts' BY <1>7, <2>1, <2>2, <2>3 DEF ForkState, ForkShape, ChanShape, Counts
  <2>5. OneOwner' BY <1>7, <2>1, <2>2 DEF ForkState, OneOwner
  <2>6. OneFork' /\ StopSent' BY <1>7, <2>1, <2>2 DEF ForkState, OneFork, StopSent, Fresh
  <2>7. SizeSent' BY <1>7, <2>1, <2>2, <2>3 DEF ForkState, SizeSent, Fresh
  <2>8. Survives' BY <2>1 DEF Survives
  <2> QED BY <2>2, <2>4, <2>5, <2>6, <2>7, <2>8 DEF ForkState
<1>8. AcceptAndFork("lat_tcp") \/ AcceptAndFork("bw_tcp")
  BY DEF ForkingServer, LatTcpServer, BwTcpServer
<1> QED BY <1>4, <1>5, <1>6, <1>7, <1>8 DEF AcceptAndFork, tcp_server

(* A handler reads, writes or exits, and may end the server.                *)
LEMMA ExitStep ==
  ASSUME ForkState, NEW i \in DOMAIN chan.conns, chan.conns[i].handler \in {"control", "serve"},
         HandlerEnds(i)
  PROVE  ForkState'
<1> USE DEF Servers
<1>1. Len(chan.conns) \in Nat /\ DOMAIN chan.conns = 1..Len(chan.conns)
      /\ chan.conns[i] \in Connections
  BY LenProperties, ElementOfSeq DEF ForkState, ForkShape, ChanShape
<1>2. PICK v : v = [chan.conns[i] EXCEPT !.handler = "gone", !.server = "closed"] OBVIOUS
<1>3. /\ v \in Connections /\ v.control = chan.conns[i].control /\ v.client = chan.conns[i].client
      /\ v.server = "closed" /\ v.handler = "gone"
  BY <1>1, <1>2 DEF Connections
<1>4. chan' = [chan EXCEPT !.conns = [@ EXCEPT ![i] = v]]
  BY <1>1, <1>2 DEF HandlerEnds, HandlerExit
<1>5. /\ ChanShape' /\ Len(chan'.conns) = Len(chan.conns) /\ chan'.accepted = chan.accepted
      /\ \A j \in 1..Len(chan.conns) : chan'.conns[j] = IF j = i THEN v ELSE chan.conns[j]
  BY <1>3, <1>4, Changed DEF ForkState, ForkShape
<1>6. program' = program /\ pc' = pc BY DEF HandlerEnds
<1>7. /\ DOMAIN mem' = DOMAIN mem /\ mem'.sock = mem.sock /\ mem'.msize = mem.msize
      /\ mem'.faults = mem.faults
      /\ UNCHANGED <<mem.silent, mem.alarm>> /\ mem'.zombies \in {mem.zombies, mem.zombies + 1}
      /\ mem'.pending => mem'.zombies > 0
  <2>1. mem.zombies \in Nat BY DEF ForkState, Counts
  <2>2. CASE mem' = mem BY <2>1, <2>2 DEF ForkState
  <2>3. CASE mem' = [mem EXCEPT !.zombies = @ + 1, !.pending = TRUE]
    BY <2>1, <2>3 DEF ForkState, ForkShape
  <2> QED BY <2>2, <2>3 DEF HandlerEnds
<1>8. ForkShape' /\ Counts' BY <1>5, <1>6, <1>7 DEF ForkState, ForkShape, Counts
<1>9. Survives' BY <1>6, <1>7 DEF ForkState, Survives
<1> QED BY <1>1, <1>3, <1>5, <1>6, <1>7, <1>8, <1>9, HandlerMoves

LEMMA ShutDownStep ==
  ASSUME ForkState, NEW i \in DOMAIN chan.conns, chan.conns[i].handler \in {"control", "serve"},
         ShutDown(i),
         \/ pc["stopper"] = "ended" /\ mem.sock["stopper"] # 0
         \/ program = "lat_tcp" /\ mem.silent # {}
  PROVE  ForkState'
<1> USE DEF Servers
<1>1. Len(chan.conns) \in Nat /\ DOMAIN chan.conns = 1..Len(chan.conns)
      /\ chan.conns[i] \in Connections /\ chan.conns \in Seq(Connections)
  BY LenProperties, ElementOfSeq DEF ForkState, ForkShape, ChanShape
<1>2. PICK v : v = [chan.conns[i] EXCEPT !.handler = "gone", !.server = "closed"] OBVIOUS
<1>3. /\ v \in Connections /\ v.control = chan.conns[i].control /\ v.client = chan.conns[i].client
      /\ v.server = "closed" /\ v.handler = "gone"
  BY <1>1, <1>2 DEF Connections
<1>4. PICK s : s = HandlerExit(i) OBVIOUS
<1>5. s = [chan.conns EXCEPT ![i] = v] BY <1>1, <1>2, <1>4 DEF HandlerExit
<1>6. /\ s \in Seq(Connections) /\ Len(s) = Len(chan.conns)
      /\ \A j \in 1..Len(chan.conns) : s[j] = IF j = i THEN v ELSE chan.conns[j]
  BY <1>1, <1>3, <1>5, Updated
<1>7. CASE ServerAlive
  <2>1. PICK held : held = ServerHeld(chan.conns) OBVIOUS
  <2>2. PICK t : t = CloseServerSide(s, held) OBVIOUS
  <2>3. t \in Seq(Connections) /\ Len(t) = Len(chan.conns) BY <1>6, <2>2, SideClosed
  <2>4. \A j \in 1..Len(chan.conns) :
          t[j] = IF j \in held THEN [s[j] EXCEPT !.server = "closed"] ELSE s[j]
    BY <1>6, <2>2, LenProperties DEF CloseServerSide
  <2>5. \A j \in 1..Len(chan.conns) :
          /\ t[j].control = s[j].control /\ t[j].client = s[j].client /\ t[j].handler = s[j].handler
          /\ t[j].server \in {s[j].server, "closed"}
    <3>1. \A j \in 1..Len(chan.conns) : s[j] \in Connections BY <1>6, ElementOfSeq
    <3> QED BY <2>4, <3>1 DEF Connections
  <2>6. /\ program' = program /\ pc' = Move("server", "ended")
        /\ chan' = [chan EXCEPT !.conns = t]
        /\ mem' = [mem EXCEPT !.zombies = 0, !.pending = FALSE]
    BY <1>4, <1>7, <2>1, <2>2 DEF ShutDown
  <2>7. chan'.conns = t /\ ChanShape' /\ chan'.accepted = chan.accepted
    BY <2>3, <2>6 DEF ForkState, ForkShape, ChanShape
  <2>8. /\ DOMAIN mem' = DOMAIN mem /\ mem'.sock = mem.sock /\ mem'.msize = mem.msize
        /\ mem'.faults = mem.faults
        /\ UNCHANGED <<mem.silent, mem.alarm>> /\ mem'.zombies = 0 /\ mem'.pending = FALSE
    BY <2>6 DEF ForkState, ForkShape
  <2>9. DOMAIN pc' = DOMAIN pc /\ pc'["stopper"] = pc["stopper"]
    BY <2>6 DEF Move, ForkState, ForkShape, Clients
  <2>10. ForkShape' /\ Counts' BY <2>7, <2>8, <2>9 DEF ForkState, ForkShape, Counts
  <2>11. Survives' BY <2>6, <2>8, <2>9 DEF Survives
  <2>12. \A j \in 1..Len(chan.conns) :
           /\ chan'.conns[j].client = chan.conns[j].client
           /\ chan'.conns[j].server \in {chan.conns[j].server, "closed"}
           /\ j # i => /\ chan'.conns[j].control = chan.conns[j].control
                       /\ chan'.conns[j].handler = chan.conns[j].handler
    BY <1>3, <1>6, <2>5, <2>7
  <2>13. chan'.conns[i].handler = "gone" /\ chan'.conns[i].control = chan.conns[i].control
    BY <1>1, <1>3, <1>6, <2>5, <2>7
  <2> QED BY <1>1, <2>3, <2>6, <2>7, <2>8, <2>10, <2>11, <2>12, <2>13, HandlerMoves
<1>8. CASE ~ServerAlive
  <2>1. /\ program' = program /\ pc' = pc /\ chan' = [chan EXCEPT !.conns = [@ EXCEPT ![i] = v]]
        /\ mem' = [mem EXCEPT !.killed = @ \cup {"init"}]
    BY <1>4, <1>5, <1>8 DEF ShutDown
  <2>2. /\ ChanShape' /\ Len(chan'.conns) = Len(chan.conns) /\ chan'.accepted = chan.accepted
        /\ \A j \in 1..Len(chan.conns) : chan'.conns[j] = IF j = i THEN v ELSE chan.conns[j]
    BY <1>3, <2>1, Changed DEF ForkState, ForkShape
  <2>3. /\ DOMAIN mem' = DOMAIN mem /\ mem'.sock = mem.sock /\ mem'.msize = mem.msize
        /\ mem'.faults = mem.faults
        /\ UNCHANGED <<mem.silent, mem.alarm>> /\ mem'.zombies = mem.zombies /\ mem'.pending = mem.pending
    BY <2>1 DEF ForkState, ForkShape
  <2>4. ForkShape' /\ Counts' BY <2>1, <2>2, <2>3 DEF ForkState, ForkShape, Counts
  <2>5. Survives' BY <2>1, <2>3 DEF ForkState, Survives
  <2>6. mem'.pending => mem'.zombies > 0 BY <2>3 DEF ForkState
  <2> QED BY <1>1, <1>3, <2>1, <2>2, <2>3, <2>4, <2>5, <2>6, HandlerMoves
<1> QED BY <1>7, <1>8

(* A handler that moves bytes, or takes the first message.                   *)
LEMMA ServeStep ==
  ASSUME ForkState, NEW i \in DOMAIN chan.conns, chan.conns[i].handler \in {"control", "serve"},
         UNCHANGED <<program, pc, mem>>, NEW v \in Connections,
         v.client = chan.conns[i].client, v.server = chan.conns[i].server, v.handler = "serve",
         v.control \in {chan.conns[i].control, "none"},
         chan' = [chan EXCEPT !.conns = [@ EXCEPT ![i] = v]]
  PROVE  ForkState'
<1>1. Len(chan.conns) \in Nat /\ DOMAIN chan.conns = 1..Len(chan.conns)
  BY LenProperties DEF ForkState, ForkShape, ChanShape
<1>2. /\ ChanShape' /\ Len(chan'.conns) = Len(chan.conns) /\ chan'.accepted = chan.accepted
      /\ \A j \in 1..Len(chan.conns) : chan'.conns[j] = IF j = i THEN v ELSE chan.conns[j]
  BY Changed DEF ForkState, ForkShape
<1>3. ForkShape' /\ Counts' BY <1>2 DEF ForkState, ForkShape, Counts
<1>4. Survives' BY DEF ForkState, Survives
<1>5. mem'.pending => mem'.zombies > 0 BY DEF ForkState
<1> QED BY <1>1, <1>2, <1>3, <1>4, <1>5, HandlerMoves

LEMMA HandlerStep ==
  ASSUME ForkState, NEW i \in DOMAIN chan.conns, Doserver(i) \/ Source(i) PROVE ForkState'
<1>1. Len(chan.conns) \in Nat /\ DOMAIN chan.conns = 1..Len(chan.conns)
      /\ chan.conns[i] \in Connections
  BY LenProperties, ElementOfSeq DEF ForkState, ForkShape, ChanShape
<1>0. PICK n \in Nat : i \in 1..n /\ chan.conns \in [1..n -> Connections]
                       /\ DOMAIN chan = {"conns", "accepted", "path", "body", "file"}
  BY <1>1, LenProperties DEF ForkState, ForkShape, ChanShape
<1>2. CASE ReadControl(i)
  <2>1. PICK v : v = [chan.conns[i] EXCEPT !.control = "none", !.handler = "serve"] OBVIOUS
  <2>2. /\ v \in Connections /\ v.control = "none" /\ v.client = chan.conns[i].client
        /\ v.server = chan.conns[i].server /\ v.handler = "serve"
    BY <1>1, <2>1 DEF Connections
  <2>3. chan' = [chan EXCEPT !.conns = [@ EXCEPT ![i] = v]]
    <3>1. chan' = [chan EXCEPT !.conns[i].control = "none", !.conns[i].handler = "serve"]
      BY <1>2 DEF ReadControl
    <3> QED BY <1>0, <2>1, <3>1
  <2>4. chan.conns[i].handler = "control" /\ UNCHANGED <<program, pc, mem>>
    BY <1>2 DEF ReadControl, Control
  <2> QED BY <2>2, <2>3, <2>4, ServeStep
<1>3. CASE program = "lat_tcp" /\ NoControl(i) /\ ShutDown(i)
  <2>1. /\ chan.conns[i].handler = "control" /\ chan.conns[i].control = "none"
        /\ ~ chan.conns[i].client
    BY <1>3 DEF NoControl, Control, ServerEof
  <2>2. PICK c \in Clients : mem.sock[c] = i BY DEF ForkState, OneOwner
  <2>3. mem.sock[c] # 0 BY <1>1, <2>2
  <2>4. CASE c \in Users
    BY <1>3, <2>1, <2>2, <2>3, <2>4, ShutDownStep DEF ForkState, SizeSent, Fresh
  <2>5. CASE c = "stopper"
    BY <1>3, <2>1, <2>2, <2>3, <2>5, ShutDownStep DEF ForkState, StopSent, Fresh
  <2> QED BY <2>4, <2>5 DEF Clients
<1>4. CASE Control(i) /\ chan.conns[i].control = "stop" /\ ShutDown(i)
  <2>1. pc["stopper"] = "ended" /\ mem.sock["stopper"] # 0 BY <1>1, <1>4 DEF ForkState, StopSent
  <2> QED BY <1>4, <2>1, ShutDownStep DEF Control
<1>5. CASE chan.conns[i].handler \in {"control", "serve"} /\ HandlerEnds(i)
  BY <1>5, ExitStep
<1>6. ASSUME chan.conns[i].handler = "serve", UNCHANGED <<program, pc, mem>>,
             NEW x \in Int, NEW y \in Int,
             chan' = [chan EXCEPT !.conns = [@ EXCEPT ![i] = [chan.conns[i] EXCEPT !.in = x, !.out = y]]]
      PROVE  ForkState'
  <2>1. PICK v : v = [chan.conns[i] EXCEPT !.in = x, !.out = y] OBVIOUS
  <2>2. /\ v \in Connections /\ v.control = chan.conns[i].control
        /\ v.client = chan.conns[i].client /\ v.server = chan.conns[i].server
        /\ v.handler = "serve"
    BY <1>1, <1>6, <2>1 DEF Connections
  <2>3. chan' = [chan EXCEPT !.conns = [@ EXCEPT ![i] = v]] BY <1>6, <2>1
  <2> QED BY <1>6, <2>2, <2>3, ServeStep
<1>7. mem.msize \in Nat /\ chan.conns[i].in \in Int /\ chan.conns[i].out \in Int
  BY <1>1 DEF ForkState, ForkShape, Connections
<1>8. ASSUME chan.conns[i].handler = "serve", UNCHANGED <<program, pc, mem>>, NEW k \in 1..mem.msize,
             chan' = [chan EXCEPT !.conns[i].in = @ - k, !.conns[i].out = @ + mem.msize]
      PROVE  ForkState'
  <2>1. PICK x \in Int, y \in Int : x = chan.conns[i].in - k /\ y = chan.conns[i].out + mem.msize
    BY <1>7
  <2>2. chan' = [chan EXCEPT !.conns = [@ EXCEPT ![i] = [chan.conns[i] EXCEPT !.in = x, !.out = y]]]
    <3>1. PICK r : r = chan.conns[i] /\ r \in Connections BY <1>1
    <3>2. [[r EXCEPT !.in = x] EXCEPT !.out = y] = [r EXCEPT !.in = x, !.out = y] OBVIOUS
    <3> QED BY <1>0, <1>8, <2>1, <3>1, <3>2 DEF Connections
  <2> QED BY <1>6, <1>8, <2>2
<1>9. ASSUME chan.conns[i].handler = "serve", UNCHANGED <<program, pc, mem>>,
             chan' = [chan EXCEPT !.conns[i].out = @ + 1]
      PROVE  ForkState'
  <2>1. PICK x \in Int, y \in Int : x = chan.conns[i].in /\ y = chan.conns[i].out + 1 BY <1>7
  <2>2. chan' = [chan EXCEPT !.conns = [@ EXCEPT ![i] = [chan.conns[i] EXCEPT !.in = x, !.out = y]]]
    <3>1. PICK r : r = chan.conns[i] /\ r \in Connections BY <1>1
    <3>2. [r EXCEPT !.out = y] = [r EXCEPT !.in = x, !.out = y] BY <2>1, <3>1 DEF Connections
    <3> QED BY <1>0, <1>9, <2>1, <3>1, <3>2
  <2> QED BY <1>6, <1>9, <2>2
<1>10. CASE Doserver(i)
  BY <1>10, <1>2, <1>3, <1>5, <1>8 DEF Doserver, LastRead
<1>11. CASE Source(i)
  BY <1>11, <1>2, <1>4, <1>5, <1>9 DEF Source, NoControl, Control
<1> QED BY <1>10, <1>11

LEMMA SigchldStep ==
  ASSUME ForkState, sigchld_wait_handler PROVE ForkState'
<1>1. /\ UNCHANGED <<program, pc, chan>>
      /\ mem' = [mem EXCEPT !.pending = FALSE, !.zombies = IF @ = 0 THEN 0 ELSE @ - 1]
  BY DEF sigchld_wait_handler
<1>2. /\ DOMAIN mem' = DOMAIN mem /\ mem'.sock = mem.sock /\ mem'.msize = mem.msize
      /\ mem'.faults = mem.faults
      /\ UNCHANGED <<mem.silent, mem.alarm>> /\ mem'.pending = FALSE
      /\ mem'.zombies = IF mem.zombies = 0 THEN 0 ELSE mem.zombies - 1
  BY <1>1 DEF ForkState, ForkShape
<1>3. ForkShape' /\ Counts' BY <1>1, <1>2 DEF ForkState, ForkShape, ChanShape, Counts
<1>4. OneOwner' /\ OneFork' /\ SizeSent' /\ StopSent' /\ Survives'
  BY <1>1, <1>2 DEF ForkState, OneOwner, OneFork, SizeSent, StopSent, Survives, Fresh
<1> QED BY <1>2, <1>3, <1>4 DEF ForkState

(* The alarm ends the server, and what it held is closed.                   *)
LEMMA GoAwayStep ==
  ASSUME ForkState, GoAway PROVE ForkState'
<1> USE DEF Clients, Users, Servers
<1>1. PICK n \in Nat : n = Len(chan.conns) /\ DOMAIN chan.conns = 1..n
                       /\ \A j \in 1..n : chan.conns[j] \in Connections
  BY LenProperties, ElementOfSeq DEF ForkState, ForkShape, ChanShape
<1>2. PICK held : held = ServerHeld(chan.conns) OBVIOUS
<1>3. PICK t : t = CloseServerSide(chan.conns, held) OBVIOUS
<1>4. t \in Seq(Connections) /\ Len(t) = n
  BY <1>1, <1>3, SideClosed DEF ForkState, ForkShape, ChanShape
<1>5. \A j \in 1..n : /\ t[j].control = chan.conns[j].control /\ t[j].client = chan.conns[j].client
                      /\ t[j].handler = chan.conns[j].handler
                      /\ t[j].server \in {chan.conns[j].server, "closed"}
  BY <1>1, <1>3 DEF CloseServerSide, Connections
<1>6. /\ program' = program /\ pc' = Move("server", "ended") /\ chan' = [chan EXCEPT !.conns = t]
      /\ mem' = [mem EXCEPT !.zombies = 0, !.pending = FALSE, !.alarm = TRUE]
  BY <1>2, <1>3 DEF GoAway, ForkState, ForkShape, ChanShape
<1>7. chan'.conns = t /\ ChanShape' BY <1>4, <1>6 DEF ForkState, ForkShape, ChanShape
<1>8. DOMAIN chan'.conns = 1..n BY <1>4, <1>7, LenProperties
<1>9. /\ DOMAIN mem' = DOMAIN mem /\ mem'.sock = mem.sock /\ mem'.msize = mem.msize
      /\ mem'.faults = mem.faults /\ mem'.zombies = 0 /\ mem'.pending = FALSE
      /\ mem'.alarm = TRUE /\ mem'.silent = mem.silent
  BY <1>6 DEF ForkState, ForkShape
<1>10. DOMAIN pc' = DOMAIN pc /\ pc'["server"] = "ended" /\ \A q \in Clients : pc'[q] = pc[q]
  BY <1>6 DEF Move, ForkState, ForkShape
<1>11. ForkShape' /\ Counts' BY <1>7, <1>9, <1>10 DEF ForkState, ForkShape, Counts
<1>12. OneOwner' BY <1>1, <1>4, <1>7, <1>8, <1>9, <1>10 DEF ForkState, OneOwner
<1>13. OneFork' BY <1>1, <1>5, <1>7, <1>8, <1>10 DEF ForkState, OneFork
<1>14. \A d \in Clients : mem.sock[d] # 0 => mem.sock[d] \in 1..n
  BY <1>1 DEF ForkState, OneOwner, ForkShape
<1>15. SizeSent' BY <1>5, <1>7, <1>9, <1>10, <1>14 DEF ForkState, SizeSent, Fresh
<1>16. StopSent' BY <1>1, <1>5, <1>7, <1>8, <1>9, <1>10, <1>14 DEF ForkState, StopSent, Fresh
<1>17. Survives' BY <1>9 DEF Survives
<1> QED BY <1>9, <1>11, <1>12, <1>13, <1>15, <1>16, <1>17 DEF ForkState

LEMMA ForkingStep == ForkingInv /\ [ForkingNext]_childvars => ForkingInv'
<1> SUFFICES ASSUME ForkingInv, [ForkingNext]_childvars PROVE ForkingInv' OBVIOUS
<1>1. CASE UNCHANGED childvars
  <2>1. ForkState => ForkState'
    BY <1>1 DEF childvars, ForkState, ForkShape, ChanShape, Counts, OneOwner, OneFork, SizeSent,
                StopSent, Survives, Fresh
  <2> QED BY <1>1, <2>1 DEF childvars, ForkingInv
<1>2. CASE ForkingNext
  <2>1. ForkState BY <1>2 DEF ForkingInv, ForkingNext
  <2>2. \A i \in DOMAIN chan.conns : Doserver(i) \/ Source(i) => ForkState' BY <2>1, HandlerStep
  <2> QED BY <1>2, <2>1, <2>2, MainStep, ClientStep, ServerStep, SigchldStep, GoAwayStep, KillStep
          DEF ForkingNext, ForkingInv
<1> QED BY <1>1, <1>2

(* What holds of lat_tcp's and bw_tcp's server, its handlers and its clients *)
(* in every state, for any number of deaths and failing forks.               *)
THEOREM ForkingCorrect == ForkingSpec => []ForkingInv
<1> QED BY ForkingStart, ForkingStep, PTL DEF ForkingSpec

(* sigchld_wait_handler() calls wait() once for each delivery of SIGCHLD.   *)
(* There is a dead handler each time: the server is never blocked there.     *)
THEOREM WaitCorrect == ForkingSpec => []WaitNeverBlocks
<1>1. ForkingInv => WaitNeverBlocks BY DEF ForkingInv, ForkState, WaitNeverBlocks
<1> QED BY <1>1, ForkingCorrect, PTL

(* Nothing that a client does, and no failing fork or signal, ends the       *)
(* server but a -S run or, with lat_tcp, a client that died after it had      *)
(* connected and before it wrote its size; the alarm does.                     *)
THEOREM SurvivalCorrect == ForkingSpec => []ServerSurvives
<1>1. ForkingInv => ServerSurvives
  BY DEF ForkingInv, ForkState, Survives, ServerSurvives, Stands
<1> QED BY <1>1, ForkingCorrect, PTL

-----------------------------------------------------------------------------
(* lmhttp and lat_http, whichever clients are killed.                       *)
SequentialSpec == SequentialInit /\ [][SequentialNext]_childvars

HttpShape ==
  /\ DOMAIN pc = Servers \cup Clients
  /\ DOMAIN mem = {"faults", "sock", "tries", "left", "todo", "got", "msize", "move",
                   "zombies", "pending", "killed", "alarm", "silent"}
  /\ mem.sock \in [Clients -> Nat] /\ DOMAIN mem.got = Clients
  /\ mem.faults \in 0..MaxFaults
  /\ ChanShape /\ chan.body \in [Servers -> 0..Small] /\ chan.file \in Files
  /\ pc["server"] = "main" => pc["worker"] = "none"

(* Process s serves a connection.                                           *)
Busy == {"read", "small", "large"}

(* No two clients have the same connection, and a process that serves one   *)
(* is the only one that does.                                               *)
Present ==
  /\ \A c \in Clients : mem.sock[c] \in 0..Len(chan.conns)
  /\ \A c, d \in Clients : mem.sock[c] = mem.sock[d] => c = d \/ mem.sock[c] = 0
  /\ \A s \in Servers : pc[s] \in Busy =>
       /\ chan.accepted[s] \in DOMAIN chan.conns
       /\ chan.conns[chan.accepted[s]].server = "open"
       /\ \A t \in Servers : pc[t] \in Busy /\ chan.accepted[t] = chan.accepted[s] => s = t

(* The -S run comes when the clients are done.                              *)
LastComes ==
  /\ pc["stopper"] \in {"main", "connect", "stop", "ended"}
  /\ pc["stopper"] # "main" => \A c \in Users : pc[c] = "ended"
  /\ pc["stopper"] \in {"main", "connect"} => mem.sock["stopper"] = 0
  /\ \A i \in DOMAIN chan.conns : i # mem.sock["stopper"] => chan.conns[i].control # "stop"
  /\ mem.sock["stopper"] # 0 => chan.conns[mem.sock["stopper"]].control # "get"

(* A process sends a file only to a client that asked for one.              *)
Requested ==
  \A s \in Servers : pc[s] \in {"small", "large"} => chan.conns[chan.accepted[s]].control = "get"

(* What a client has, what is on its way and what is still to be sent make  *)
(* the file.                                                                *)
Part(c) ==
  LET i == mem.sock[c] IN
  /\ mem.got[c] \in Int
  /\ pc[c] \in {"main", "connect", "get"} => mem.got[c] = 0
  /\ pc[c] = "close" => mem.got[c] \in {0, Small}
  /\ pc[c] = "read" /\ i = 0 => mem.got[c] = 0
  /\ pc[c] \in {"get", "read"} /\ i # 0 =>
       /\ chan.conns[i].client
       /\ pc[c] = "get" => chan.conns[i].control = "none"
       /\ chan.conns[i].server = "closed" => mem.got[c] + chan.conns[i].out \in {0, Small}
       /\ chan.conns[i].server = "queued" => mem.got[c] + chan.conns[i].out = 0
       /\ \A s \in Servers : chan.accepted[s] = i /\ chan.conns[i].server = "open" =>
            /\ pc[s] = "read" => mem.got[c] + chan.conns[i].out = 0
            /\ pc[s] \in {"small", "large"} =>
                 mem.got[c] + chan.conns[i].out + chan.body[s] = Small

Parts == \A c \in Users : Part(c)

HttpGood == Present /\ LastComes /\ Requested /\ Parts
HttpState == HttpShape /\ HttpGood

HttpInv == program = "lat_http" => HttpState

LEMMA HttpStart == SequentialInit => HttpInv
<1> SUFFICES ASSUME SequentialInit PROVE HttpState BY DEF HttpInv
<1> USE DEF SequentialInit, SocketInit, EmptyChannels, Clients, Users, Servers
<1>1. HttpShape BY BenchAssumption DEF HttpShape, ChanShape, Connections, Files, Small
<1>2. Present /\ LastComes BY DEF Present, LastComes, Busy
<1>3. Requested /\ Parts BY DEF Requested, Parts, Part
<1> QED BY <1>1, <1>2, <1>3 DEF HttpState, HttpGood

(* The connection a process serves.                                         *)
LEMMA Served ==
  ASSUME HttpState, NEW s \in Servers, pc[s] \in Busy
  PROVE  /\ Serving(s) \in 1..Len(chan.conns) /\ Request(s) \in Connections
         /\ Request(s).server = "open"
<1> USE DEF HttpState, HttpGood, Serving, Request
<1>1. chan.conns \in Seq(Connections) BY DEF HttpShape, ChanShape
<1>2. Serving(s) \in 1..Len(chan.conns) /\ Request(s).server = "open"
  BY <1>1, LenProperties DEF Present
<1> QED BY <1>1, <1>2, ElementOfSeq

(* What is left of Present by a step that makes no new connection.          *)
LEMMA PresentKept ==
  ASSUME HttpShape, HttpShape', Present, mem'.sock = mem.sock, chan'.accepted = chan.accepted,
         Len(chan'.conns) = Len(chan.conns),
         \A s \in Servers :
           pc'[s] \in Busy => pc[s] \in Busy /\ chan'.conns[chan.accepted[s]].server = "open"
  PROVE  Present'
<1>1. PICK n \in Nat : n = Len(chan.conns) /\ DOMAIN chan.conns = 1..n /\ DOMAIN chan'.conns = 1..n
  BY LenProperties DEF HttpShape, ChanShape
<1>2. \A c \in Clients : mem.sock[c] \in 0..n BY <1>1 DEF Present
<1>3. \A s \in Servers : pc'[s] \in Busy =>
        /\ chan.accepted[s] \in 1..n /\ chan'.conns[chan.accepted[s]].server = "open"
        /\ \A t \in Servers : pc'[t] \in Busy /\ chan.accepted[t] = chan.accepted[s] => s = t
  BY <1>1 DEF Present
<1> QED BY <1>1, <1>2, <1>3 DEF Present

LEMMA LastKept ==
  ASSUME HttpShape, HttpShape', Present, LastComes, mem'.sock = mem.sock,
         Len(chan'.conns) = Len(chan.conns),
         pc'["stopper"] \in {"main", "connect", "stop", "ended"},
         pc'["stopper"] # "main" => \A c \in Users : pc'[c] = "ended",
         pc'["stopper"] \in {"main", "connect"} => pc["stopper"] \in {"main", "connect"},
         \A j \in 1..Len(chan.conns) :
           IF j = mem.sock["stopper"] THEN chan'.conns[j].control \in {chan.conns[j].control, "stop"}
           ELSE chan'.conns[j].control \in {chan.conns[j].control, "get"}
  PROVE  LastComes'
<1>1. PICK n \in Nat : n = Len(chan.conns) /\ DOMAIN chan.conns = 1..n /\ DOMAIN chan'.conns = 1..n
  BY LenProperties DEF HttpShape, ChanShape
<1>2. PICK k : k = mem.sock["stopper"] OBVIOUS
<1>3. k \in 0..n BY <1>1, <1>2 DEF Present, Clients
<1>4. \A j \in 1..n : j # k => chan'.conns[j].control # "stop" BY <1>1, <1>2 DEF LastComes
<1>5. k # 0 => chan'.conns[k].control # "get" BY <1>1, <1>2, <1>3 DEF LastComes
<1> QED BY <1>1, <1>2, <1>4, <1>5 DEF LastComes

LEMMA PartKept ==
  ASSUME Parts, NEW c \in Users, NEW k, k = mem.sock[c], mem'.sock[c] = k,
         pc'[c] = pc[c], mem'.got[c] = mem.got[c],
         k # 0 =>
           /\ chan'.conns[k].control = chan.conns[k].control
           /\ chan'.conns[k].client = chan.conns[k].client
           /\ chan'.conns[k].server = chan.conns[k].server
           /\ chan'.conns[k].out = chan.conns[k].out,
         \A s \in Servers : pc'[s] \in Busy /\ chan'.accepted[s] = k =>
           pc[s] = pc'[s] /\ chan.accepted[s] = k /\ chan'.body[s] = chan.body[s]
  PROVE  Part(c)'
<1>1. Part(c) BY DEF Parts
<1> QED BY <1>1 DEF Part, Busy

LEMMA PartsFromPart ==
  ASSUME \A c \in Users : Part(c)' PROVE Parts'
BY DEF Parts

(* The length and the members of a sequence of connections that one of them *)
(* is replaced in, or that there is none to replace in.                     *)
LEMMA Replaced ==
  ASSUME ChanShape, NEW k, NEW v, k \in DOMAIN chan.conns => v \in Connections,
         DOMAIN chan' = DOMAIN chan, chan'.accepted = chan.accepted,
         chan'.conns = [chan.conns EXCEPT ![k] = v]
  PROVE  /\ ChanShape' /\ Len(chan'.conns) = Len(chan.conns)
         /\ \A j \in 1..Len(chan.conns) : chan'.conns[j] = IF j = k THEN v ELSE chan.conns[j]
<1>1. CASE k \in DOMAIN chan.conns BY <1>1, Updated DEF ChanShape
<1>2. CASE k \notin DOMAIN chan.conns
  <2>1. DOMAIN chan.conns = 1..Len(chan.conns) BY LenProperties DEF ChanShape
  <2>2. chan'.conns = chan.conns
    <3>1. PICK n \in Nat : chan.conns \in [1..n -> Connections] /\ n = Len(chan.conns)
      BY LenProperties DEF ChanShape
    <3> QED BY <1>2, <3>1
  <2> QED BY <1>2, <2>1, <2>2 DEF ChanShape
<1> QED BY <1>1, <1>2

(* A process takes a connection from the queue.                             *)
LEMMA HttpAccept ==
  ASSUME HttpState, NEW s \in Servers, tcp_accept(s, "read") PROVE HttpState'
<1> USE DEF Stands, Clients, Users, Servers, HttpState
<1>1. PICK n \in Nat : n = Len(chan.conns) /\ DOMAIN chan.conns = 1..n
  BY LenProperties DEF HttpShape, ChanShape
<1>2. PICK i \in 1..n, v \in Connections :
        /\ chan.conns[i].server = "queued" /\ v.server = "open"
        /\ v.control = chan.conns[i].control /\ v.client = chan.conns[i].client
        /\ v.out = chan.conns[i].out
        /\ ChanShape' /\ Len(chan'.conns) = n
        /\ \A j \in 1..n : chan'.conns[j] = IF j = i THEN v ELSE chan.conns[j]
        /\ chan'.accepted = [chan.accepted EXCEPT ![s] = i]
        /\ chan'.body = chan.body /\ chan'.file = chan.file
  <2>1. ChanShape BY DEF HttpShape
  <2> HIDE DEF HttpState, Servers, Clients, Users
  <2> QED BY <1>1, <2>1, Accepted
<1>3. program' = program /\ mem' = mem /\ pc' = Move(s, "read") /\ pc[s] = "accept"
  BY DEF tcp_accept
<1>4. DOMAIN pc' = DOMAIN pc /\ pc'[s] = "read" /\ \A p \in (Servers \cup Clients) \ {s} : pc'[p] = pc[p]
  BY <1>3 DEF Move, HttpShape
<1>5. HttpShape' BY <1>2, <1>3, <1>4 DEF HttpShape
<1>6. DOMAIN chan'.conns = 1..n BY <1>2, LenProperties DEF ChanShape
<1>7. chan'.accepted[s] = i /\ \A t \in Servers \ {s} : chan'.accepted[t] = chan.accepted[t]
  BY <1>2 DEF HttpShape, ChanShape
<1> SUFFICES ASSUME HttpGood PROVE HttpGood'
  BY <1>3, <1>5
<1>8. \A t \in Servers : pc[t] \in Busy => t # s /\ chan.accepted[t] \in 1..n /\ chan.accepted[t] # i
  BY <1>1, <1>2, <1>3 DEF HttpGood, Present, Busy
<1>9. Present'
  <2>3. \A t \in Servers \ {s} : pc'[t] \in Busy =>
          chan'.conns[chan.accepted[t]].server = "open" /\ chan.accepted[t] # i
    BY <1>1, <1>2, <1>4, <1>8 DEF HttpGood, Present
  <2>4. \A c \in Clients : mem'.sock[c] \in 0..n BY <1>1, <1>3 DEF HttpGood, Present
  <2>7. \A t \in Servers : pc'[t] \in Busy =>
          /\ chan'.accepted[t] \in 1..n /\ chan'.conns[chan'.accepted[t]].server = "open"
          /\ \A u \in Servers : pc'[u] \in Busy /\ chan'.accepted[u] = chan'.accepted[t] => t = u
    BY <1>1, <1>2, <1>4, <1>7, <1>8, <2>3 DEF HttpGood, Present
  <2>8. /\ Len(chan'.conns) = n /\ mem' = mem
        /\ \A c, d \in Clients : mem.sock[c] = mem.sock[d] => c = d \/ mem.sock[c] = 0
    BY <1>2, <1>3 DEF HttpGood, Present
  <2> HIDE DEF HttpState, Clients, Users, Servers, Busy
  <2> QED BY <2>8, <1>6, <2>4, <2>7 DEF Present
<1>10. LastComes'
  <2>1. \A j \in 1..n : chan'.conns[j].control = chan.conns[j].control BY <1>2
  <2>2. /\ pc'["stopper"] = pc["stopper"] /\ \A c \in Users : pc'[c] = pc[c]
        /\ Len(chan'.conns) = n /\ mem' = mem
    BY <1>2, <1>3, <1>4
  <2>3. /\ pc["stopper"] \in {"main", "connect", "stop", "ended"}
        /\ pc["stopper"] # "main" => \A c \in Users : pc[c] = "ended"
        /\ Present /\ LastComes
    BY DEF HttpGood, LastComes
  <2>4. HttpShape /\ HttpShape' BY <1>5
  <2> HIDE DEF HttpState, Clients, Users, Servers
  <2> QED BY <1>1, <2>1, <2>2, <2>3, <2>4, LastKept
<1>11. Requested' BY <1>1, <1>2, <1>4, <1>7, <1>8 DEF HttpGood, Requested, Busy
<1>12. Parts'
  <2> SUFFICES ASSUME NEW c \in Users PROVE Part(c)' BY PartsFromPart
  <2>0. PICK k : k = mem.sock[c] OBVIOUS
  <2>1. k \in 0..n BY <1>1, <2>0 DEF HttpGood, Present
  <2>2. CASE k = i
    <3>1. \A t \in Servers : chan'.accepted[t] = k => t = s \/ pc'[t] \notin Busy
      BY <2>2, <1>4, <1>7, <1>8
    <3>2. Part(c) BY DEF HttpGood, Parts
    <3>3. /\ pc'[c] = pc[c] /\ mem'.sock[c] = k /\ mem'.got[c] = mem.got[c] /\ k # 0
          /\ chan'.conns[k].server = "open" /\ chan'.conns[k].control = chan.conns[k].control
          /\ chan'.conns[k].client = chan.conns[k].client /\ chan'.conns[k].out = chan.conns[k].out
      <4>1. pc'[c] = pc[c] BY <1>4
      <4>2. mem'.sock[c] = k /\ mem'.got[c] = mem.got[c] BY <2>0, <1>3
      <4>4. k # 0 BY <2>2
      <4>3. chan'.conns[k] = v BY <2>2, <1>2
      <4> QED BY <2>2, <4>1, <4>2, <4>3, <4>4, <1>2
    <3>4. pc[c] \in {"get", "read"} => mem.got[c] + chan.conns[k].out = 0
      <4>1. chan.conns[k].server = "queued" BY <2>2, <1>2
      <4>2. k = mem.sock[c] /\ k # 0 BY <2>0, <2>2
      <4> QED BY <3>2, <4>1, <4>2 DEF Part
    <3>5. \A t \in Servers : chan'.accepted[t] = k => pc'[t] \notin {"small", "large"}
      BY <3>1, <1>4 DEF Busy
    <3> QED BY <2>0, <3>2, <3>3, <3>4, <3>5 DEF Part
  <2>3. CASE k # i
    <3>1. \A t \in Servers : chan'.accepted[t] = k => t # s /\ chan.accepted[t] = k
      BY <2>3, <1>7
    <3>2. k # 0 => chan'.conns[k] = chan.conns[k] BY <2>1, <2>3, <1>2
    <3>3. pc'[c] = pc[c] /\ \A t \in Servers \ {s} : pc'[t] = pc[t] BY <1>4
    <3>4. mem' = mem /\ Parts /\ chan'.body = chan.body BY <1>2, <1>3 DEF HttpGood
    <3> HIDE DEF HttpState, Clients, Users, Servers
    <3> QED BY <2>0, <3>1, <3>2, <3>3, <3>4, PartKept
  <2> QED BY <2>2, <2>3
<1> QED BY <1>9, <1>10, <1>11, <1>12 DEF HttpGood

(* A process leaves the connection it serves, and closes that one and, if   *)
(* it was the last, those that nobody will accept any more.                 *)
LEMMA HttpLeaves ==
  ASSUME HttpState, mem' = mem, NEW s \in Servers, pc[s] \in Busy,
         NEW l, l \in {"accept", "ended"}, pc' = Move(s, l),
         ChanShape', chan'.body \in [Servers -> 0..Small],
         \A t \in Servers \ {s} : chan'.body[t] = chan.body[t], chan'.file = chan.file,
         chan'.accepted = chan.accepted, Len(chan'.conns) = Len(chan.conns),
         NEW held, Serving(s) \in held,
         \A j \in held : j = Serving(s) \/ chan.conns[j].server = "queued",
         \A j \in 1..Len(chan.conns) :
           /\ chan'.conns[j].server = IF j \in held THEN "closed" ELSE chan.conns[j].server
           /\ chan'.conns[j].control = chan.conns[j].control
           /\ chan'.conns[j].client = chan.conns[j].client
           /\ chan'.conns[j].out = chan.conns[j].out,
         \A c \in Users : mem.sock[c] = Serving(s) /\ pc[c] \in {"get", "read"} =>
           mem.got[c] + Request(s).out \in {0, Small}
  PROVE  HttpState'
<1> USE DEF Clients, Users, Servers, HttpState
<1>1. PICK n \in Nat : n = Len(chan.conns) /\ DOMAIN chan.conns = 1..n /\ DOMAIN chan'.conns = 1..n
  BY LenProperties DEF HttpShape, ChanShape
<1>2. DOMAIN pc' = DOMAIN pc /\ pc'[s] = l /\ \A p \in (Servers \cup Clients) \ {s} : pc'[p] = pc[p]
  BY DEF Move, HttpShape
<1>3. HttpShape' BY <1>2 DEF HttpShape, Busy
<1> SUFFICES ASSUME HttpGood PROVE HttpGood'
  BY <1>3
<1>4. /\ Serving(s) \in 1..n /\ Serving(s) = chan.accepted[s]
      /\ \A t \in Servers \ {s} : pc[t] \in Busy =>
           chan.accepted[t] \in 1..n /\ chan.accepted[t] \notin held
  BY <1>1 DEF HttpGood, Present, Serving
<1>5. Present'
  <2>1. \A t \in Servers :
          pc'[t] \in Busy => pc[t] \in Busy /\ chan'.conns[chan.accepted[t]].server = "open"
    <3> TAKE t \in Servers
    <3>1. CASE t = s BY <3>1, <1>1, <1>2, <1>4 DEF Busy
    <3>2. CASE t # s
      <4>1. pc'[t] = pc[t] BY <3>2, <1>2
      <4>2. PICK j : j = chan.accepted[t] OBVIOUS
      <4>3. pc[t] \in Busy => j \in 1..n /\ j \notin held /\ chan.conns[j].server = "open"
        BY <3>2, <4>2, <1>4 DEF HttpGood, Present
      <4>4. pc[t] \in Busy => chan'.conns[j].server = "open" BY <4>3, <1>1
      <4> QED BY <4>1, <4>2, <4>4
    <3> QED BY <3>1, <3>2
  <2> QED BY <1>3, <2>1, PresentKept DEF HttpGood
<1>6. LastComes'
  <2>1. \A c \in Users : pc'[c] = pc[c] BY <1>2
  <2>2. pc'["stopper"] = pc["stopper"] BY <1>2
  <2> QED BY <1>3, <2>1, <2>2, LastKept DEF HttpGood, LastComes
<1>7. Requested'
  <2> SUFFICES ASSUME NEW t \in Servers, pc'[t] \in {"small", "large"}
               PROVE  chan'.conns[chan'.accepted[t]].control = "get"
    BY DEF Requested
  <2>1. t # s /\ pc[t] = pc'[t] BY <1>2
  <2>2. chan.accepted[t] \in 1..n BY <2>1, <1>4 DEF Busy
  <2> QED BY <2>1, <2>2, <1>1 DEF HttpGood, Requested
<1>8. Parts'
  <2> SUFFICES ASSUME NEW c \in Users PROVE Part(c)' BY PartsFromPart
  <2>0. PICK k : k = mem.sock[c] OBVIOUS
  <2>1. k \in 0..n BY <1>1, <2>0 DEF HttpGood, Present
  <2>2. CASE k # 0 /\ k \in held
    <3>1. Part(c) BY DEF HttpGood, Parts
    <3>2. /\ chan'.conns[k].server = "closed" /\ chan'.conns[k].client = chan.conns[k].client
          /\ chan'.conns[k].control = chan.conns[k].control /\ chan'.conns[k].out = chan.conns[k].out
      BY <2>1, <2>2, <1>1
    <3>3. pc'[c] = pc[c] BY <1>2
    <3>4. pc[c] \in {"get", "read"} => mem.got[c] + chan.conns[k].out \in {0, Small}
      <4>1. CASE k = Serving(s) BY <2>0, <4>1 DEF Request
      <4>2. CASE chan.conns[k].server = "queued"
        <5>1. k = mem.sock[c] /\ k # 0 BY <2>0, <2>2
        <5>2. pc[c] \in {"get", "read"} => mem.got[c] + chan.conns[k].out = 0
          BY <3>1, <4>2, <5>1 DEF Part
        <5> QED BY <5>2
      <4> QED BY <2>2, <4>1, <4>2
    <3> QED BY <2>0, <2>2, <3>1, <3>2, <3>3, <3>4 DEF Part
  <2>3. CASE k = 0 \/ k \notin held
    <3>1. \A t \in Servers : pc'[t] \in Busy /\ chan'.accepted[t] = k =>
            pc[t] = pc'[t] /\ chan.accepted[t] = k /\ chan'.body[t] = chan.body[t]
      BY <1>2 DEF Busy
    <3>2. k # 0 =>
            /\ chan'.conns[k].control = chan.conns[k].control
            /\ chan'.conns[k].client = chan.conns[k].client
            /\ chan'.conns[k].server = chan.conns[k].server
            /\ chan'.conns[k].out = chan.conns[k].out
      BY <1>1, <2>1, <2>3
    <3>3. pc'[c] = pc[c] /\ mem'.sock[c] = k /\ mem'.got[c] = mem.got[c] BY <1>2, <2>0
    <3>4. Parts BY DEF HttpGood
    <3> HIDE DEF HttpState, Clients, Users, Servers
    <3> QED BY <2>0, <3>1, <3>2, <3>3, <3>4, PartKept
  <2> QED BY <2>2, <2>3
<1> QED BY <1>5, <1>6, <1>7, <1>8 DEF HttpGood

(* When a process closes a connection, its client has nothing or all.       *)
LEMMA NothingOrAll ==
  ASSUME HttpState, NEW s \in Servers, pc[s] \in Busy,
         pc[s] \in {"small", "large"} => chan.body[s] = 0 \/ HungUp(s),
         NEW c \in Users, mem.sock[c] = Serving(s), pc[c] \in {"get", "read"}
  PROVE  mem.got[c] + Request(s).out \in {0, Small}
<1>1. Serving(s) \in 1..Len(chan.conns) /\ Request(s) \in Connections /\ Request(s).server = "open"
  BY Served
<1>2. PICK k : k = mem.sock[c] OBVIOUS
<1>3. k # 0 /\ chan.conns[k] = Request(s) /\ chan.accepted[s] = k
  BY <1>1, <1>2 DEF Request, Serving
<1>4. Part(c) BY DEF HttpState, HttpGood, Parts
<1>5. mem.got[c] \in Int BY <1>4 DEF Part
<1>6. chan.conns[k].client /\ chan.conns[k].server = "open" BY <1>1, <1>2, <1>3, <1>4 DEF Part
<1>7. CASE pc[s] = "read"
  <2>1. mem.got[c] + chan.conns[k].out = 0 BY <1>2, <1>3, <1>4, <1>6, <1>7 DEF Part
  <2> QED BY <2>1, <1>3
<1>8. CASE pc[s] \in {"small", "large"}
  <2>1. chan.body[s] = 0 BY <1>3, <1>6, <1>8 DEF HungUp
  <2>2. mem.got[c] + chan.conns[k].out + chan.body[s] = Small
    BY <1>2, <1>3, <1>4, <1>6, <1>8 DEF Part
  <2>3. chan.conns[k].out \in Int BY <1>1, <1>3 DEF Connections
  <2>4. mem.got[c] + chan.conns[k].out = Small BY <1>5, <2>1, <2>2, <2>3
  <2> QED BY <2>4, <1>3
<1> QED BY <1>7, <1>8 DEF Busy

LEMMA HttpClose ==
  ASSUME HttpState, NEW s \in Servers, pc[s] \in Busy, CloseAndAccept(s),
         pc[s] \in {"small", "large"} => chan.body[s] = 0 \/ HungUp(s)
  PROVE  HttpState'
<1>1. PICK k, v : k = Serving(s) /\ v = [chan.conns[k] EXCEPT !.server = "closed"] OBVIOUS
<1>2. k \in DOMAIN chan.conns => /\ v \in Connections /\ v.server = "closed"
                                 /\ v.control = chan.conns[k].control
                                 /\ v.client = chan.conns[k].client /\ v.out = chan.conns[k].out
  <2>1. k \in DOMAIN chan.conns => chan.conns[k] \in Connections
    BY ElementOfSeq, LenProperties DEF HttpState, HttpShape, ChanShape
  <2> QED BY <1>1, <2>1 DEF Connections
<1>3. /\ DOMAIN chan' = DOMAIN chan /\ chan'.accepted = chan.accepted /\ chan'.file = chan.file
      /\ chan'.conns = [chan.conns EXCEPT ![k] = v]
      /\ chan'.body = [chan.body EXCEPT ![s] = 0]
      /\ mem' = mem /\ pc' = Move(s, "accept")
  BY <1>1 DEF CloseAndAccept, HttpState, HttpShape, ChanShape
<1>4. /\ ChanShape' /\ Len(chan'.conns) = Len(chan.conns)
      /\ \A j \in 1..Len(chan.conns) : chan'.conns[j] = IF j = k THEN v ELSE chan.conns[j]
  <2>1. ChanShape /\ (k \in DOMAIN chan.conns => v \in Connections)
    BY <1>2 DEF HttpState, HttpShape
  <2>2. DOMAIN chan' = DOMAIN chan /\ chan'.accepted = chan.accepted
        /\ chan'.conns = [chan.conns EXCEPT ![k] = v]
    BY <1>3
  <2> QED BY <2>1, <2>2, Replaced
<1>5. chan'.body \in [Servers -> 0..Small] /\ \A t \in Servers \ {s} : chan'.body[t] = chan.body[t]
  BY <1>3 DEF HttpState, HttpShape, Small
<1>6. \A j \in 1..Len(chan.conns) :
        /\ chan'.conns[j].server = IF j \in {k} THEN "closed" ELSE chan.conns[j].server
        /\ chan'.conns[j].control = chan.conns[j].control
        /\ chan'.conns[j].client = chan.conns[j].client
        /\ chan'.conns[j].out = chan.conns[j].out
  <2>1. DOMAIN chan.conns = 1..Len(chan.conns) BY LenProperties DEF HttpState, HttpShape, ChanShape
  <2> QED BY <1>2, <1>4, <2>1
<1>7. \A c \in Users : mem.sock[c] = Serving(s) /\ pc[c] \in {"get", "read"} =>
        mem.got[c] + Request(s).out \in {0, Small}
  BY NothingOrAll
<1> QED BY <1>1, <1>3, <1>4, <1>5, <1>6, <1>7, HttpLeaves

LEMMA HttpEnds ==
  ASSUME HttpState, NEW s \in Servers, pc[s] \in Busy, ServerEnds(s, "ended"),
         pc[s] \in {"small", "large"} => chan.body[s] = 0 \/ HungUp(s)
  PROVE  HttpState'
<1>1. PICK held : /\ Serving(s) \in held /\ \A j \in held : j = Serving(s) \/ j \in Queued
                  /\ chan' = [chan EXCEPT !.conns = CloseServerSide(@, held)]
                  /\ mem' = mem /\ pc' = Move(s, "ended")
  <2>1. PICK q : /\ \A j \in q : j \in Queued
                 /\ chan' = [chan EXCEPT !.conns = CloseServerSide(@, {Serving(s)} \cup q)]
    <3> DEFINE q == IF \A t \in Servers \ {s} : pc[t] \in {"none", "ended"} THEN Queued ELSE {}
    <3>1. chan' = [chan EXCEPT !.conns = CloseServerSide(@, {Serving(s)} \cup q)]
      BY DEF ServerEnds
    <3>2. \A j \in q : j \in Queued OBVIOUS
    <3> HIDE DEF q
    <3> QED BY <3>1, <3>2
  <2>2. PICK held : held = {Serving(s)} \cup q OBVIOUS
  <2>3. Serving(s) \in held /\ \A j \in held : j = Serving(s) \/ j \in Queued BY <2>1, <2>2
  <2>4. chan' = [chan EXCEPT !.conns = CloseServerSide(@, held)] BY <2>1, <2>2
  <2>5. mem' = mem /\ pc' = Move(s, "ended") BY DEF ServerEnds
  <2> QED BY <2>3, <2>4, <2>5
<1>2. /\ DOMAIN chan' = DOMAIN chan /\ chan'.accepted = chan.accepted /\ chan'.file = chan.file
      /\ chan'.body = chan.body /\ chan'.conns = CloseServerSide(chan.conns, held)
  BY <1>1 DEF HttpState, HttpShape, ChanShape
<1>3. ChanShape' /\ Len(chan'.conns) = Len(chan.conns)
  BY <1>2, SideClosed DEF HttpState, HttpShape, ChanShape
<1>4. \A j \in 1..Len(chan.conns) :
        /\ chan'.conns[j].server = IF j \in held THEN "closed" ELSE chan.conns[j].server
        /\ chan'.conns[j].control = chan.conns[j].control
        /\ chan'.conns[j].client = chan.conns[j].client
        /\ chan'.conns[j].out = chan.conns[j].out
  <2>1. DOMAIN chan.conns = 1..Len(chan.conns) BY LenProperties DEF HttpState, HttpShape, ChanShape
  <2>2. \A j \in 1..Len(chan.conns) : chan.conns[j] \in Connections
    BY ElementOfSeq DEF HttpState, HttpShape, ChanShape
  <2> QED BY <1>2, <2>1, <2>2 DEF CloseServerSide, Connections
<1>5. \A j \in held : j = Serving(s) \/ chan.conns[j].server = "queued" BY <1>1 DEF Queued
<1>6. \A c \in Users : mem.sock[c] = Serving(s) /\ pc[c] \in {"get", "read"} =>
        mem.got[c] + Request(s).out \in {0, Small}
  BY NothingOrAll
<1>7. chan'.body \in [Servers -> 0..Small] BY <1>2 DEF HttpState, HttpShape
<1> QED BY <1>1, <1>2, <1>3, <1>4, <1>5, <1>6, <1>7, HttpLeaves

(* A process that was asked for a file begins to send it.                   *)
LEMMA HttpBegins ==
  ASSUME HttpState, NEW s \in Servers, pc[s] = "read", Request(s).control = "get",
         NEW l \in {"small", "large"}, mem' = mem, pc' = Move(s, l),
         chan' = [chan EXCEPT !.body[s] = Small]
  PROVE  HttpState'
<1> USE DEF Clients, Users, Servers, HttpState
<1>1. PICK n \in Nat : n = Len(chan.conns) /\ DOMAIN chan.conns = 1..n
  BY LenProperties DEF HttpShape, ChanShape
<1>2. DOMAIN pc' = DOMAIN pc /\ pc'[s] = l /\ \A p \in (Servers \cup Clients) \ {s} : pc'[p] = pc[p]
  BY DEF Move, HttpShape
<1>3. /\ DOMAIN chan' = DOMAIN chan /\ chan'.accepted = chan.accepted /\ chan'.file = chan.file
      /\ chan'.conns = chan.conns /\ chan'.body = [chan.body EXCEPT ![s] = Small]
  BY DEF HttpShape, ChanShape
<1>4. /\ chan'.body \in [Servers -> 0..Small] /\ chan'.body[s] = Small
      /\ \A t \in Servers \ {s} : chan'.body[t] = chan.body[t]
  BY <1>3 DEF HttpShape, Small
<1>5. HttpShape' BY <1>2, <1>3, <1>4 DEF HttpShape, ChanShape
<1> SUFFICES ASSUME HttpGood PROVE HttpGood'
  BY <1>5
<1>6. Present'
  <2>1. \A t \in Servers : pc[t] \in Busy => chan.conns[chan.accepted[t]].server = "open"
    BY DEF HttpGood, Present
  <2>2. \A t \in Servers : pc'[t] \in Busy <=> pc[t] \in Busy BY <1>2 DEF Busy
  <2>4. HttpShape /\ HttpShape' /\ Present BY <1>5 DEF HttpGood
  <2> HIDE DEF HttpState, Clients, Users, Servers
  <2> QED BY <2>1, <2>2, <2>4, <1>3, PresentKept
<1>7. LastComes' BY <1>2, <1>3 DEF HttpGood, LastComes
<1>8. Requested' BY <1>2, <1>3 DEF HttpGood, Requested, Request, Serving
<1>9. Parts'
  <2> SUFFICES ASSUME NEW c \in Users PROVE Part(c)' BY PartsFromPart
  <2>0. PICK k : k = mem.sock[c] OBVIOUS
  <2>1. pc'[c] = pc[c] BY <1>2
  <2>2. CASE k = Serving(s) /\ k # 0 /\ pc[c] \in {"get", "read"}
    <3>1. Part(c) BY DEF HttpGood, Parts
    <3>2. chan.accepted[s] = k BY <2>2 DEF Serving
    <3>3. chan.conns[k].server = "open" => mem.got[c] + chan.conns[k].out = 0
      BY <2>0, <2>2, <3>1, <3>2 DEF Part
    <3>4. \A t \in Servers \ {s} :
            chan.accepted[t] = k /\ chan.conns[k].server = "open" /\ pc'[t] \in {"small", "large"} =>
              mem.got[c] + chan.conns[k].out + chan'.body[t] = Small
      BY <2>0, <2>2, <3>1, <1>2, <1>4 DEF Part
    <3>5. mem.got[c] + chan.conns[k].out = 0 =>
            mem.got[c] + chan.conns[k].out + chan'.body[s] = Small
      BY <1>4 DEF Small
    <3>6. \A t \in Servers : chan.accepted[t] = k /\ chan.conns[k].server = "open" =>
            /\ pc'[t] = "read" => mem.got[c] + chan.conns[k].out = 0
            /\ pc'[t] \in {"small", "large"} =>
                 mem.got[c] + chan.conns[k].out + chan'.body[t] = Small
      BY <3>3, <3>4, <3>5
    <3> QED BY <2>0, <2>1, <2>2, <3>1, <3>6, <1>3 DEF Part
  <2>3. CASE k = 0 \/ pc[c] \notin {"get", "read"}
    <3>1. Part(c) BY DEF HttpGood, Parts
    <3> QED BY <2>0, <2>1, <2>3, <3>1 DEF Part
  <2>4. CASE k # Serving(s)
    <3>1. \A t \in Servers : pc'[t] \in Busy /\ chan'.accepted[t] = k =>
            pc[t] = pc'[t] /\ chan.accepted[t] = k /\ chan'.body[t] = chan.body[t]
      BY <2>4, <1>2, <1>3, <1>4 DEF Serving
    <3> QED BY <2>0, <2>1, <3>1, <1>3, PartKept DEF HttpGood
  <2> QED BY <2>2, <2>3, <2>4
<1> QED BY <1>6, <1>7, <1>8, <1>9 DEF HttpGood

LEMMA HttpSends ==
  ASSUME HttpState, NEW s \in Servers, pc[s] \in {"small", "large"}, SendByte(s)
  PROVE  HttpState'
<1> USE DEF Clients, Users, Servers, HttpState
<1>1. PICK n \in Nat : n = Len(chan.conns) /\ DOMAIN chan.conns = 1..n
  BY LenProperties DEF HttpShape, ChanShape
<1>2. PICK k, v : k = Serving(s) /\ v = [chan.conns[k] EXCEPT !.out = @ + 1] OBVIOUS
<1>3. k \in DOMAIN chan.conns => chan.conns[k] \in Connections
  BY ElementOfSeq, LenProperties DEF HttpShape, ChanShape
<1>4. k \in DOMAIN chan.conns => /\ v \in Connections /\ v.out = chan.conns[k].out + 1
                                 /\ v.control = chan.conns[k].control
                                 /\ v.client = chan.conns[k].client
                                 /\ v.server = chan.conns[k].server
  BY <1>2, <1>3 DEF Connections
<1>5. chan' = [chan EXCEPT !.conns[k] = v, !.body[s] = @ - 1] /\ chan.body[s] > 0
      /\ pc' = pc /\ mem' = mem
  BY <1>2 DEF SendByte
<1>6. /\ DOMAIN chan' = DOMAIN chan /\ chan'.accepted = chan.accepted /\ chan'.file = chan.file
      /\ chan'.conns = [chan.conns EXCEPT ![k] = v]
      /\ chan'.body = [chan.body EXCEPT ![s] = chan.body[s] - 1]
  BY <1>5 DEF HttpShape, ChanShape
<1>7. /\ ChanShape' /\ Len(chan'.conns) = n
      /\ \A j \in 1..n : chan'.conns[j] = IF j = k THEN v ELSE chan.conns[j]
  <2>1. ChanShape /\ (k \in DOMAIN chan.conns => v \in Connections) BY <1>4 DEF HttpShape
  <2> QED BY <2>1, <1>1, <1>6, Replaced
<1>8. chan.body[s] \in 1..Small BY <1>5 DEF HttpShape, Small
<1>9. /\ chan'.body \in [Servers -> 0..Small] /\ chan'.body[s] = chan.body[s] - 1
      /\ \A t \in Servers \ {s} : chan'.body[t] = chan.body[t]
  <2>1. chan.body[s] - 1 \in 0..Small BY <1>8 DEF Small
  <2> QED BY <2>1, <1>6 DEF HttpShape
<1>10. HttpShape' BY <1>5, <1>6, <1>7, <1>9 DEF HttpShape
<1> SUFFICES ASSUME HttpGood PROVE HttpGood'
  BY <1>5, <1>10
<1>11. k \in 1..n /\ chan.conns[k].server = "open"
  BY <1>1, <1>2, Served DEF Busy, Request
<1>12. \A j \in 1..n : /\ chan'.conns[j].server = chan.conns[j].server
                       /\ chan'.conns[j].control = chan.conns[j].control
                       /\ chan'.conns[j].client = chan.conns[j].client
                       /\ j # k => chan'.conns[j].out = chan.conns[j].out
  BY <1>1, <1>4, <1>7, <1>11
<1>13. DOMAIN chan'.conns = 1..n BY <1>7, LenProperties DEF ChanShape
<1>14. Present'
  <2>1. \A t \in Servers : pc[t] \in Busy =>
          chan.accepted[t] \in 1..n /\ chan.conns[chan.accepted[t]].server = "open"
    BY <1>1 DEF HttpGood, Present
  <2>2. \A t \in Servers : pc[t] \in Busy => chan'.conns[chan.accepted[t]].server = "open"
    BY <1>12, <2>1
  <2>3. HttpShape /\ HttpShape' /\ Present BY <1>10 DEF HttpGood
  <2> HIDE DEF HttpState, Clients, Users, Servers
  <2> QED BY <2>2, <2>3, <1>1, <1>5, <1>6, <1>7, <1>12, PresentKept
<1>15. LastComes'
  <2>1. mem.sock["stopper"] \in 0..n BY <1>1 DEF HttpGood, Present
  <2> QED BY <1>1, <1>5, <1>12, <1>13, <2>1 DEF HttpGood, LastComes
<1>16. Requested'
  <2>1. \A t \in Servers : pc[t] \in {"small", "large"} => chan.accepted[t] \in 1..n
    BY <1>1 DEF HttpGood, Present, Busy
  <2> QED BY <1>5, <1>6, <1>12, <2>1 DEF HttpGood, Requested
<1>17. Parts'
  <2> SUFFICES ASSUME NEW c \in Users PROVE Part(c)' BY PartsFromPart
  <2>0. PICK m : m = mem.sock[c] OBVIOUS
  <2>1. m \in 0..n BY <1>1, <2>0 DEF HttpGood, Present
  <2>2. CASE m = k /\ pc[c] \in {"get", "read"}
    <3>1. Part(c) BY DEF HttpGood, Parts
    <3>2. chan.accepted[s] = m /\ m # 0 BY <2>2, <1>2, <1>11 DEF Serving
    <3>3. PICK got, out, body : got = mem.got[c] /\ out = chan.conns[m].out /\ body = chan.body[s]
      OBVIOUS
    <3>4. got \in Int /\ out \in Int /\ body \in Int
      <4>1. got \in Int BY <3>1, <3>3 DEF Part
      <4>2. chan.conns[m] \in Connections BY <1>1, <1>3, <1>11, <2>2
      <4>3. out \in Int BY <3>3, <4>2 DEF Connections
      <4>4. body \in Int BY <1>8, <3>3 DEF Small
      <4> QED BY <4>1, <4>3, <4>4
    <3>5. got + out + body = Small BY <1>11, <2>0, <2>2, <3>1, <3>2, <3>3 DEF Part
    <3>6. chan'.conns[m].out = out + 1 /\ chan'.body[s] = body - 1
      BY <1>4, <1>1, <1>7, <1>9, <1>11, <2>2, <3>3
    <3>7. got + (out + 1) + (body - 1) = Small BY <3>4, <3>5
    <3>8. \A t \in Servers : chan.accepted[t] = m /\ pc[t] \in Busy => t = s
      BY <1>11, <2>2, <3>2 DEF HttpGood, Present, Busy
    <3>9. /\ chan'.conns[m].server = "open" /\ chan'.conns[m].client = chan.conns[m].client
          /\ chan'.conns[m].control = chan.conns[m].control
      BY <1>11, <1>12, <2>2
    <3>10. \A t \in Servers : chan'.accepted[t] = m =>
             /\ pc'[t] # "read"
             /\ pc'[t] \in {"small", "large"} => mem'.got[c] + chan'.conns[m].out + chan'.body[t] = Small
      BY <1>5, <1>6, <3>3, <3>6, <3>7, <3>8 DEF Busy
    <3> QED BY <1>5, <2>0, <2>2, <3>1, <3>2, <3>9, <3>10 DEF Part
  <2>3. CASE pc[c] \notin {"get", "read"}
    <3>1. Part(c) BY DEF HttpGood, Parts
    <3> QED BY <1>5, <2>3, <3>1 DEF Part
  <2>4. CASE m # k
    <3>1. \A t \in Servers : pc'[t] \in Busy /\ chan'.accepted[t] = m =>
            pc[t] = pc'[t] /\ chan.accepted[t] = m /\ chan'.body[t] = chan.body[t]
      BY <2>4, <1>2, <1>5, <1>6, <1>9 DEF Serving
    <3>2. m # 0 => chan'.conns[m] = chan.conns[m] BY <2>1, <2>4, <1>7
    <3> QED BY <2>0, <3>1, <3>2, <1>5, PartKept DEF HttpGood
  <2> QED BY <2>2, <2>3, <2>4
<1> QED BY <1>14, <1>15, <1>16, <1>17 DEF HttpGood

LEMMA HttpWorkerStep ==
  ASSUME HttpState, NEW s \in Servers, LmhttpWorker(s) PROVE HttpState'
<1> USE DEF Stands, Small
<1>1. CASE pc[s] = "read"
  <2>1. pc[s] \in Busy BY <1>1 DEF Busy
  <2>2. CASE CloseAndAccept(s) BY <1>1, <2>1, <2>2, HttpClose
  <2>3. CASE ServerEnds(s, "ended") BY <1>1, <2>1, <2>3, HttpEnds
  <2>4. CASE /\ Request(s).control = "get" /\ chan.file # "none"
             /\ chan' = [chan EXCEPT !.body[s] = Small] /\ pc' = Move(s, chan.file) /\ mem' = mem
    <3>1. PICK l \in {"small", "large"} : l = chan.file
      BY <2>4 DEF HttpState, HttpShape, Files
    <3> HIDE DEF Small
    <3> QED BY <1>1, <2>4, <3>1, HttpBegins
  <2> QED BY <1>1, <2>2, <2>3, <2>4 DEF LmhttpWorker, LmhttpSource, Rdwr, MmapRdwr, tcp_accept
<1>2. CASE pc[s] \in {"small", "large"}
  <2>1. pc[s] \in Busy BY <1>2 DEF Busy
  <2>2. CASE SendByte(s) BY <1>2, <2>2, HttpSends
  <2>3. CASE CloseAndAccept(s) /\ (chan.body[s] = 0 \/ HungUp(s)) BY <2>1, <2>3, HttpClose
  <2>4. CASE ServerEnds(s, "ended") /\ HungUp(s) BY <2>1, <2>4, HttpEnds
  <2> QED BY <1>2, <2>2, <2>3, <2>4 DEF LmhttpWorker, LmhttpSource, Rdwr, MmapRdwr, tcp_accept
<1>3. CASE pc[s] \notin {"read", "small", "large"}
  <2>1. tcp_accept(s, "read") BY <1>3 DEF LmhttpWorker, LmhttpSource, Rdwr, MmapRdwr
  <2> QED BY <2>1, HttpAccept
<1> QED BY <1>1, <1>2, <1>3

(* The processes begin to accept.                                            *)
LEMMA HttpMainStep ==
  ASSUME HttpState, LmhttpMain PROVE HttpState'
<1> USE DEF Clients, Users, Servers, HttpState, Stands
<1>1. PICK forked \in {"accept", "none"} :
        /\ pc' = [Move("server", "accept") EXCEPT !["worker"] = forked]
        /\ mem' = mem /\ chan' = chan /\ pc["server"] = "main"
  BY DEF LmhttpMain
<1>2. /\ DOMAIN pc' = DOMAIN pc /\ pc'["server"] = "accept" /\ pc'["worker"] = forked
      /\ \A c \in Clients : pc'[c] = pc[c]
  BY <1>1 DEF Move, HttpShape
<1>3. \A s \in Servers : pc[s] \notin Busy /\ pc'[s] \notin Busy
  BY <1>1, <1>2 DEF HttpShape, Busy
<1>4. HttpShape' BY <1>1, <1>2 DEF HttpShape, ChanShape
<1> SUFFICES ASSUME HttpGood PROVE HttpGood'
  BY <1>1, <1>4
<1>5. Present' BY <1>1, <1>2, <1>3 DEF HttpGood, Present
<1>6. LastComes' BY <1>1, <1>2 DEF HttpGood, LastComes
<1>7. Requested' BY <1>3 DEF Requested, Busy
<1>8. Parts'
  <2> SUFFICES ASSUME NEW c \in Users PROVE Part(c)' BY PartsFromPart
  <2>1. Part(c) BY DEF HttpGood, Parts
  <2> QED BY <1>1, <1>2, <1>3, <2>1 DEF Part, Busy
<1> QED BY <1>5, <1>6, <1>7, <1>8 DEF HttpGood

(* A step of client c that makes no connection.                              *)
LEMMA HttpClient ==
  ASSUME HttpState, HttpShape', NEW c \in Users, pc[c] \notin {"main", "ended"},
         \A p \in (Servers \cup Clients) \ {c} : pc'[p] = pc[p],
         \A d \in Clients \ {c} : mem'.sock[d] = mem.sock[d] /\ mem'.got[d] = mem.got[d],
         mem'.sock[c] = mem.sock[c] \/ (mem'.sock[c] = 0 /\ pc[c] = "connect"),
         chan'.accepted = chan.accepted, chan'.body = chan.body,
         Len(chan'.conns) = Len(chan.conns),
         \A j \in 1..Len(chan.conns) :
           /\ chan'.conns[j].server = chan.conns[j].server
           /\ chan'.conns[j].control \in {chan.conns[j].control, "get"}
           /\ j # mem.sock[c] => chan'.conns[j] = chan.conns[j],
         Part(c)'
  PROVE  HttpState'
<1> USE DEF Clients, Users, Servers, HttpState
<1>1. PICK n \in Nat : n = Len(chan.conns) /\ DOMAIN chan.conns = 1..n /\ DOMAIN chan'.conns = 1..n
  BY LenProperties DEF HttpShape, ChanShape
<1> SUFFICES ASSUME HttpGood PROVE HttpGood'
  OBVIOUS
<1>2. /\ \A d \in Clients : mem.sock[d] \in 0..n
      /\ \A d, e \in Clients : mem.sock[d] = mem.sock[e] => d = e \/ mem.sock[d] = 0
  BY <1>1 DEF HttpGood, Present
<1>3. Present'
  <2>1. \A d \in Clients : mem'.sock[d] \in 0..n BY <1>2
  <2>2. \A d, e \in Clients : mem'.sock[d] = mem'.sock[e] => d = e \/ mem'.sock[d] = 0
    BY <1>2
  <2>4. \A s \in Servers : pc'[s] = pc[s] OBVIOUS
  <2>6. \A s \in Servers : pc'[s] \in Busy =>
          /\ chan'.accepted[s] \in 1..n /\ chan'.conns[chan'.accepted[s]].server = "open"
          /\ \A t \in Servers : pc'[t] \in Busy /\ chan'.accepted[t] = chan'.accepted[s] => s = t
    BY <1>1, <2>4 DEF HttpGood, Present
  <2> QED BY <1>1, <2>1, <2>2, <2>6 DEF Present
<1>4. LastComes'
  <2>1. pc["stopper"] = "main" /\ mem.sock["stopper"] = 0 BY DEF HttpGood, LastComes
  <2>2. pc'["stopper"] = "main" /\ mem'.sock["stopper"] = 0 BY <2>1
  <2>3. \A j \in 1..n : chan'.conns[j].control # "stop" BY <1>1, <2>1 DEF HttpGood, LastComes
  <2> QED BY <1>1, <2>2, <2>3 DEF LastComes
<1>5. Requested'
  <2>1. \A s \in Servers : pc'[s] = pc[s] OBVIOUS
  <2>2. \A s \in Servers : pc[s] \in {"small", "large"} => chan.accepted[s] \in 1..n
    BY <1>1 DEF HttpGood, Present, Busy
  <2> QED BY <1>1, <2>1, <2>2 DEF HttpGood, Requested
<1>6. Parts'
  <2> SUFFICES ASSUME NEW d \in Users PROVE Part(d)' BY PartsFromPart
  <2>1. CASE d = c BY <2>1
  <2>2. CASE d # c
    <3>0. PICK k : k = mem.sock[d] OBVIOUS
    <3>1. k # 0 => k \in 1..n /\ k # mem.sock[c] BY <1>2, <2>2, <3>0
    <3>2. k # 0 => chan'.conns[k] = chan.conns[k] BY <1>1, <3>1
    <3>3. pc'[d] = pc[d] /\ mem'.sock[d] = k /\ mem'.got[d] = mem.got[d] BY <2>2, <3>0
    <3>4. \A s \in Servers : pc'[s] = pc[s] OBVIOUS
    <3> QED BY <3>0, <3>2, <3>3, <3>4, PartKept DEF HttpGood
  <2> QED BY <2>1, <2>2
<1> QED BY <1>3, <1>4, <1>5, <1>6 DEF HttpGood

(* Client c is queued.                                                       *)
LEMMA HttpConnects ==
  ASSUME HttpState, NEW c \in Clients, pc[c] = "connect",
         NEW l, l = IF c \in Users THEN "get" ELSE "stop", pc' = Move(c, l),
         chan' = [chan EXCEPT !.conns = Append(@, Connection)],
         DOMAIN mem' = DOMAIN mem, mem'.faults = mem.faults, mem'.got = mem.got,
         mem'.sock = [mem.sock EXCEPT ![c] = Len(chan.conns) + 1]
  PROVE  HttpState'
<1> USE DEF Clients, Users, Servers, HttpState
<1>1. PICK n \in Nat : n = Len(chan.conns) /\ DOMAIN chan.conns = 1..n
  BY LenProperties DEF HttpShape, ChanShape
<1>2. PICK m \in Nat : m = n + 1 /\ m # 0 /\ m \notin 1..n BY <1>1
<1>3. Connection \in Connections BY DEF Connection, Connections
<1>4. /\ DOMAIN chan' = DOMAIN chan /\ chan'.accepted = chan.accepted
      /\ chan'.body = chan.body /\ chan'.file = chan.file
      /\ chan'.conns = Append(chan.conns, Connection)
  BY DEF HttpShape, ChanShape
<1>5. /\ chan'.conns \in Seq(Connections) /\ Len(chan'.conns) = m /\ chan'.conns[m] = Connection
      /\ \A j \in 1..n : chan'.conns[j] = chan.conns[j]
  BY <1>1, <1>2, <1>3, <1>4, AppendProperties DEF HttpShape, ChanShape
<1>6. DOMAIN chan'.conns = 1..m BY <1>5, LenProperties
<1>7. DOMAIN pc' = DOMAIN pc /\ pc'[c] = l /\ \A p \in (Servers \cup Clients) \ {c} : pc'[p] = pc[p]
  BY DEF Move, HttpShape
<1>8. /\ mem'.sock \in [Clients -> Nat] /\ mem'.sock[c] = m
      /\ \A d \in Clients \ {c} : mem'.sock[d] = mem.sock[d]
  BY <1>1, <1>2 DEF HttpShape
<1>9. ChanShape' BY <1>4, <1>5 DEF HttpShape, ChanShape
<1>10. HttpShape' BY <1>4, <1>7, <1>8, <1>9 DEF HttpShape
<1> SUFFICES ASSUME HttpGood PROVE HttpGood'
  BY <1>10
<1>11. \A d \in Clients : mem.sock[d] \in 0..n BY <1>1 DEF HttpGood, Present
<1>12. \A s \in Servers : pc'[s] = pc[s] BY <1>7
<1>13. \A s \in Servers : pc[s] \in Busy => chan.accepted[s] \in 1..n
  BY <1>1 DEF HttpGood, Present
<1>14. /\ chan'.conns[m].server = "queued" /\ chan'.conns[m].control = "none"
       /\ chan'.conns[m].client = TRUE /\ chan'.conns[m].out = 0
  BY <1>5 DEF Connection
<1>15. \A j \in 1..m : j = m \/ (j \in 1..n /\ chan'.conns[j] = chan.conns[j]) BY <1>2, <1>5
<1>16. Present'
  <2>1. \A d \in Clients : mem'.sock[d] \in 0..m BY <1>2, <1>8, <1>11
  <2>2. \A d, e \in Clients : mem'.sock[d] = mem'.sock[e] => d = e \/ mem'.sock[d] = 0
    <3>1. \A d \in Clients \ {c} : mem'.sock[d] # m BY <1>2, <1>8, <1>11
    <3> QED BY <1>8, <3>1 DEF HttpGood, Present
  <2>5. \A s \in Servers : pc'[s] \in Busy =>
          /\ chan'.accepted[s] \in 1..m /\ chan'.conns[chan'.accepted[s]].server = "open"
          /\ \A t \in Servers : pc'[t] \in Busy /\ chan'.accepted[t] = chan'.accepted[s] => s = t
    BY <1>1, <1>2, <1>4, <1>5, <1>12, <1>13 DEF HttpGood, Present
  <2> QED BY <1>5, <1>6, <2>1, <2>2, <2>5 DEF Present
<1>17. LastComes'
  <2>1. CASE c = "stopper"
    <3>1. pc'["stopper"] = "stop" /\ mem'.sock["stopper"] = m BY <2>1, <1>7, <1>8
    <3>2. \A d \in Users : pc[d] = "ended" /\ pc'[d] = "ended" BY <2>1, <1>7 DEF HttpGood, LastComes
    <3>3. mem.sock["stopper"] = 0 BY <2>1 DEF HttpGood, LastComes
    <3>4. \A j \in 1..n : chan.conns[j].control # "stop" BY <1>1, <3>3 DEF HttpGood, LastComes
    <3>5. \A j \in 1..m : j # m => chan'.conns[j].control # "stop" BY <1>15, <3>4
    <3> QED BY <1>6, <1>14, <3>1, <3>2, <3>5 DEF LastComes
  <2>2. CASE c # "stopper"
    <3>1. pc["stopper"] = "main" /\ mem.sock["stopper"] = 0 BY <2>2 DEF HttpGood, LastComes
    <3>2. pc'["stopper"] = "main" /\ mem'.sock["stopper"] = 0 BY <2>2, <1>7, <1>8, <3>1
    <3>3. \A j \in 1..n : chan.conns[j].control # "stop" BY <1>1, <3>1 DEF HttpGood, LastComes
    <3>4. \A j \in 1..m : chan'.conns[j].control # "stop"
      <4> TAKE j \in 1..m
      <4>1. CASE j = m BY <4>1, <1>14
      <4>2. CASE j # m BY <4>2, <1>15, <3>3
      <4> QED BY <4>1, <4>2
    <3> QED BY <1>6, <3>2, <3>4 DEF LastComes
  <2> QED BY <2>1, <2>2
<1>18. Requested' BY <1>1, <1>4, <1>5, <1>12, <1>13 DEF HttpGood, Requested, Busy
<1>19. Parts'
  <2> SUFFICES ASSUME NEW d \in Users PROVE Part(d)' BY PartsFromPart
  <2>1. CASE d = c
    <3>1. Part(c) BY <2>1 DEF HttpGood, Parts
    <3>2. mem'.got[c] = 0 BY <2>1, <3>1 DEF Part
    <3>3. pc'[c] = "get" BY <2>1, <1>7
    <3>4. mem'.sock[c] = m BY <1>8
    <3>5. mem'.got[c] + chan'.conns[m].out = 0
      <4>1. chan'.conns[m].out = 0 BY <1>14
      <4>2. 0 + 0 = 0 OBVIOUS
      <4> QED BY <3>2, <4>1, <4>2
    <3>6. /\ chan'.conns[m].client /\ chan'.conns[m].server = "queued"
          /\ chan'.conns[m].control = "none"
      BY <1>14
    <3>7. m # 0 BY <1>2
    <3>8. mem'.got[c] \in Int BY <3>2
    <3> HIDE DEF HttpState, Users, Clients, Servers
    <3> QED BY <2>1, <3>2, <3>3, <3>4, <3>6, <3>7, <3>5, <3>8 DEF Part
  <2>2. CASE d # c
    <3>0. PICK k : k = mem.sock[d] OBVIOUS
    <3>1. k # 0 => k \in 1..n BY <1>11, <3>0
    <3>2. k # 0 => chan'.conns[k] = chan.conns[k] BY <1>5, <3>1
    <3>3. pc'[d] = pc[d] /\ mem'.sock[d] = k /\ mem'.got[d] = mem.got[d] BY <2>2, <3>0, <1>7, <1>8
    <3>4. \A s \in Servers : pc'[s] \in Busy /\ chan'.accepted[s] = k =>
            pc[s] = pc'[s] /\ chan.accepted[s] = k /\ chan'.body[s] = chan.body[s]
      BY <1>4, <1>12
    <3>5. Parts /\ d \in Users BY DEF HttpGood
    <3> HIDE DEF HttpState, Users, Clients, Servers
    <3> QED BY <3>0, <3>2, <3>3, <3>4, <3>5, PartKept
  <2> QED BY <2>1, <2>2
<1> QED BY <1>16, <1>17, <1>18, <1>19 DEF HttpGood

(* Client c has changed its connection, if it has one, to v.                 *)
Writes(c, v) ==
  /\ ChanShape' /\ Len(chan'.conns) = Len(chan.conns) /\ chan'.accepted = chan.accepted
  /\ chan'.body = chan.body /\ chan'.file = chan.file
  /\ \A j \in 1..Len(chan.conns) :
       chan'.conns[j] = IF j = mem.sock[c] THEN v ELSE chan.conns[j]

LEMMA Touched ==
  ASSUME HttpShape, NEW c \in Clients, NEW v, Conn(c) \in Connections => v \in Connections,
         chan' = IF Sock(c) = 0 THEN chan ELSE [chan EXCEPT !.conns[Sock(c)] = v]
  PROVE  Writes(c, v)
<1>1. PICK n \in Nat : chan.conns \in [1..n -> Connections] /\ n = Len(chan.conns)
  BY LenProperties DEF HttpShape, ChanShape
<1>2. PICK k : k = mem.sock[c] /\ k = Sock(c) BY DEF Sock
<1>3. DOMAIN chan' = DOMAIN chan /\ chan'.accepted = chan.accepted
      /\ chan'.body = chan.body /\ chan'.file = chan.file
      /\ chan'.conns = [chan.conns EXCEPT ![k] = v]
  <2>1. CASE Sock(c) = 0
    <3>1. chan.conns = [chan.conns EXCEPT ![0] = v] BY <1>1
    <3> QED BY <1>2, <2>1, <3>1
  <2>2. CASE Sock(c) # 0 BY <1>2, <2>2 DEF HttpShape, ChanShape
  <2> QED BY <2>1, <2>2
<1>4. k \in DOMAIN chan.conns => v \in Connections BY <1>1, <1>2 DEF Conn
<1>5. ChanShape BY DEF HttpShape
<1>6. /\ ChanShape' /\ Len(chan'.conns) = Len(chan.conns)
      /\ \A j \in 1..Len(chan.conns) : chan'.conns[j] = IF j = k THEN v ELSE chan.conns[j]
  <2>1. PICK q \in Seq(Connections) : q = chan.conns BY <1>5 DEF ChanShape
  <2>2. PICK r : r = [q EXCEPT ![k] = v] OBVIOUS
  <2>3. CASE k \in DOMAIN q
    <3>1. v \in Connections BY <1>4, <2>1, <2>3
    <3>2. /\ r \in Seq(Connections) /\ Len(r) = Len(q)
          /\ \A j \in 1..Len(q) : r[j] = IF j = k THEN v ELSE q[j]
      BY <2>2, <2>3, <3>1, Updated
    <3> QED BY <1>3, <1>5, <2>1, <2>2, <3>2 DEF ChanShape
  <2>4. CASE k \notin DOMAIN q
    <3>1. r = q BY <1>1, <2>1, <2>2, <2>4
    <3>2. DOMAIN q = 1..Len(q) BY <2>1, LenProperties
    <3> QED BY <1>3, <1>5, <2>1, <2>2, <2>4, <3>1, <3>2 DEF ChanShape
  <2> QED BY <2>3, <2>4
<1> QED BY <1>2, <1>3, <1>6 DEF Writes

(* Client c, at label l now, has got bytes, and v is its connection: what   *)
(* it has and what is on its way are together what they were.               *)
Passes(c, l, got, v) ==
  /\ got \in Int
  /\ IF l = "connect" \/ Sock(c) = 0 THEN got = 0
     ELSE got + v.out = mem.got[c] + Conn(c).out /\ v.client = Conn(c).client

(* A client closes its end of a connection, asks for the file, or takes     *)
(* what has come.                                                            *)
LEMMA HttpTouches ==
  ASSUME HttpState, NEW c \in Users, pc[c] \notin {"main", "connect", "ended"},
         NEW l, l \in {"connect", "read"}, pc' = Move(c, l) \/ (pc' = pc /\ pc[c] = l),
         l = "read" <=> pc[c] \in {"get", "read"},
         DOMAIN mem' = DOMAIN mem, mem'.faults = mem.faults, mem'.sock = mem.sock,
         DOMAIN mem'.got = Clients,
         \A d \in Clients \ {c} : mem'.got[d] = mem.got[d],
         NEW v, Writes(c, v),
         Conn(c) \in Connections =>
           v.server = Conn(c).server /\ v.control \in {Conn(c).control, "get"},
         Passes(c, l, mem'.got[c], v)
  PROVE  HttpState'
<1> USE DEF Clients, Users, Servers
<1>0. HttpShape BY DEF HttpState
<1>1. PICK n \in Nat : n = Len(chan.conns) /\ DOMAIN chan.conns = 1..n
  BY <1>0, LenProperties DEF HttpShape, ChanShape
<1>2. PICK k : k = mem.sock[c] /\ k = Sock(c) BY DEF Sock
<1>3. /\ ChanShape' /\ Len(chan'.conns) = n /\ chan'.accepted = chan.accepted
      /\ chan'.body = chan.body /\ chan'.file = chan.file
      /\ \A j \in 1..n : chan'.conns[j] = IF j = k THEN v ELSE chan.conns[j]
  BY <1>1, <1>2 DEF Writes
<1>4. DOMAIN pc' = DOMAIN pc /\ pc'[c] = l /\ \A p \in (Servers \cup Clients) \ {c} : pc'[p] = pc[p]
  BY <1>0 DEF Move, HttpShape
<1>5. HttpShape' BY <1>0, <1>4, <1>3 DEF HttpShape
<1>6. k \in 1..n => Conn(c) \in Connections /\ Conn(c) = chan.conns[k]
  BY <1>0, <1>1, <1>2, ElementOfSeq DEF Conn, HttpShape, ChanShape
<1>7. \A j \in 1..n : /\ chan'.conns[j].server = chan.conns[j].server
                      /\ chan'.conns[j].control \in {chan.conns[j].control, "get"}
                      /\ j # mem.sock[c] => chan'.conns[j] = chan.conns[j]
  BY <1>1, <1>2, <1>6, <1>3
<1>8. Part(c)'
  <2>0. HttpGood BY DEF HttpState
  <2>1. Part(c) /\ k \in 0..n
    <3>1. Part(c) BY <2>0 DEF HttpGood, Parts, Part
    <3>2. \A d \in Clients : mem.sock[d] \in 0..n BY <1>1, <2>0 DEF HttpGood, Present
    <3>3. k \in 0..n BY <1>2, <3>2
    <3> QED BY <3>1, <3>3
  <2>2. mem'.sock[c] = k /\ mem'.got[c] \in Int BY <1>2 DEF Passes
  <2>3. CASE l = "connect" \/ k = 0
    <3>1. mem'.got[c] = 0 BY <1>2, <2>3 DEF Passes
    <3> QED BY <1>4, <2>2, <2>3, <3>1 DEF Part
  <2>4. CASE l = "read" /\ k # 0
    <3>2. PICK old, new : old = chan.conns[k] /\ new = chan'.conns[k] OBVIOUS
    <3>3. /\ new.server = old.server /\ new.client = old.client
          /\ mem'.got[c] + new.out = mem.got[c] + old.out
      <4>1. new = v /\ old = Conn(c) BY <1>1, <1>2, <1>3, <2>1, <2>4, <3>2 DEF Conn
      <4>2. v.server = Conn(c).server /\ Passes(c, l, mem'.got[c], v) BY <1>6, <2>1, <2>4
      <4> QED BY <1>2, <2>4, <4>1, <4>2 DEF Passes
    <3>4. \A s \in Servers : pc'[s] = pc[s] BY <1>4
    <3>5. PICK sum : sum = mem.got[c] + old.out /\ sum = mem'.got[c] + new.out BY <3>3
    <3>6. pc[c] \in {"get", "read"}
      BY <2>4
    <3>7. /\ old.client /\ (old.server = "closed" => sum \in {0, Small})
          /\ old.server = "queued" => sum = 0
          /\ \A s \in Servers : chan.accepted[s] = k /\ old.server = "open" =>
               /\ pc[s] = "read" => sum = 0
               /\ pc[s] \in {"small", "large"} => sum + chan.body[s] = Small
      BY <1>2, <2>1, <2>4, <3>2, <3>5, <3>6 DEF Part
    <3>8. mem'.got[c] + chan'.conns[k].out = sum BY <3>2, <3>5
    <3>9. /\ chan'.conns[k].client
          /\ chan'.conns[k].server = "closed" => sum \in {0, Small}
          /\ chan'.conns[k].server = "queued" => sum = 0
          /\ \A s \in Servers : chan'.accepted[s] = k /\ chan'.conns[k].server = "open" =>
               /\ pc'[s] = "read" => sum = 0
               /\ pc'[s] \in {"small", "large"} => sum + chan'.body[s] = Small
      <4>1. chan'.conns[k].client BY <3>2, <3>3, <3>7
      <4>2. chan'.conns[k].server = old.server BY <3>2, <3>3
      <4> QED BY <1>3, <3>4, <3>7, <4>1, <4>2
    <3>10. pc'[c] = "read" BY <1>4, <2>4
    <3> HIDE DEF Users, Clients, Servers
    <3> QED BY <2>2, <2>4, <3>8, <3>9, <3>10 DEF Part
  <2> QED BY <2>3, <2>4
<1>9. mem'.sock[c] = mem.sock[c] /\ \A d \in Clients \ {c} : mem'.sock[d] = mem.sock[d]
  OBVIOUS
<1> QED BY <1>1, <1>4, <1>3, <1>5, <1>7, <1>8, <1>9, HttpClient

(* A step of a client that leaves the connections as they are.               *)
LEMMA HttpStays ==
  ASSUME HttpState, NEW c \in Users, pc[c] \notin {"main", "ended"},
         NEW l, pc' = Move(c, l) \/ (pc' = pc /\ pc[c] = l), chan' = chan,
         DOMAIN mem' = DOMAIN mem, mem'.faults = mem.faults, mem'.got = mem.got,
         mem'.sock \in [Clients -> Nat],
         \A d \in Clients \ {c} : mem'.sock[d] = mem.sock[d],
         mem'.sock[c] = mem.sock[c] \/ (mem'.sock[c] = 0 /\ pc[c] = "connect"),
         Part(c) => Part(c)'
  PROVE  HttpState'
<1> USE DEF Clients, Users, Servers
<1>0. HttpShape BY DEF HttpState
<1>1. DOMAIN pc' = DOMAIN pc /\ pc'[c] = l /\ \A p \in (Servers \cup Clients) \ {c} : pc'[p] = pc[p]
  BY <1>0 DEF Move, HttpShape
<1>2. HttpShape' BY <1>0, <1>1 DEF HttpShape, ChanShape
<1>3. Part(c)' BY DEF HttpState, HttpGood, Parts
<1> QED BY <1>1, <1>2, <1>3, HttpClient

LEMMA HttpRefused ==
  ASSUME HttpState, NEW c \in Users, pc[c] = "connect", chan' = chan, ~Listening,
         tcp_connect(c, "get")
  PROVE  HttpState'
<1> USE DEF Clients, Users, Servers
<1>1. PICK tries : mem' = [mem EXCEPT !.sock[c] = 0, !.tries[c] = tries] BY DEF tcp_connect
<1>2. PICK l \in {"connect", "get"} : pc' = Move(c, l) \/ (pc' = pc /\ pc[c] = l)
  BY DEF tcp_connect
<1>3. HttpShape BY DEF HttpState
<1>4. /\ DOMAIN mem' = DOMAIN mem /\ mem'.faults = mem.faults /\ mem'.got = mem.got
      /\ mem'.sock = [mem.sock EXCEPT ![c] = 0]
  BY <1>1, <1>3 DEF HttpShape
<1>5. /\ mem'.sock \in [Clients -> Nat] /\ mem'.sock[c] = 0
      /\ \A d \in Clients \ {c} : mem'.sock[d] = mem.sock[d]
  BY <1>3, <1>4 DEF HttpShape
<1>6. pc'[c] = l BY <1>2, <1>3 DEF Move, HttpShape
<1>7. Part(c) => Part(c)'
  <2>1. Part(c) => mem'.got[c] = 0 BY <1>4 DEF Part
  <2> QED BY <2>1, <1>5, <1>6 DEF Part
<1>8. pc[c] \notin {"main", "ended", "get", "read"} OBVIOUS
<1> QED BY <1>2, <1>4, <1>5, <1>7, <1>8, HttpStays

(* tcp_connect() of a client or of the -S run.                               *)
LEMMA HttpListening ==
  ASSUME HttpState, NEW c \in Clients, pc[c] = "connect", Listening,
         NEW l, l = IF c \in Users THEN "get" ELSE "stop", tcp_connect(c, l)
  PROVE  HttpState'
<1>1. /\ chan' = [chan EXCEPT !.conns = Append(@, Connection)] /\ pc' = Move(c, l)
      /\ mem' = [mem EXCEPT !.sock[c] = Len(chan.conns) + 1, !.tries[c] = 0]
  BY DEF tcp_connect
<1>2. /\ DOMAIN mem' = DOMAIN mem /\ mem'.faults = mem.faults /\ mem'.got = mem.got
      /\ mem'.sock = [mem.sock EXCEPT ![c] = Len(chan.conns) + 1]
  BY <1>1 DEF HttpState, HttpShape
<1> QED BY <1>1, <1>2, HttpConnects

LEMMA OwnConn ==
  ASSUME HttpState, NEW c \in Clients, Sock(c) # 0
  PROVE  Conn(c) \in Connections
<1>1. PICK n \in Nat : n = Len(chan.conns) /\ \A j \in 1..n : chan.conns[j] \in Connections
  BY LenProperties, ElementOfSeq DEF HttpState, HttpShape, ChanShape
<1>2. \A d \in Clients : mem.sock[d] \in 0..n BY <1>1 DEF HttpState, HttpGood, Present
<1>3. mem.sock[c] \in 1..n BY <1>2 DEF Sock
<1> QED BY <1>1, <1>3 DEF Conn, Sock

LEMMA HttpGets ==
  ASSUME HttpState, NEW c \in Users, Stands(c, "get"), pc' = Move(c, "read"), mem' = mem,
         chan' = IF Sock(c) = 0 THEN chan ELSE [chan EXCEPT !.conns[Sock(c)].control = "get"]
  PROVE  HttpState'
<1>0. HttpShape BY DEF HttpState
<1>1. PICK v : v = [Conn(c) EXCEPT !.control = "get"] OBVIOUS
<1>2. chan' = IF Sock(c) = 0 THEN chan ELSE [chan EXCEPT !.conns[Sock(c)] = v]
  BY <1>1 DEF Conn
<1>3. Conn(c) \in Connections => /\ v \in Connections /\ v.server = Conn(c).server
                                 /\ v.control = "get"
  BY <1>1 DEF Connections
<1>4. Writes(c, v) BY <1>0, <1>2, <1>3, Touched DEF Clients
<1>5. Passes(c, "read", mem'.got[c], v)
  <2> SUFFICES Passes(c, "read", mem.got[c], v) OBVIOUS
  <2>1. mem.got[c] = 0 BY DEF HttpState, HttpGood, Parts, Part, Stands
  <2>2. Sock(c) # 0 => v.out = Conn(c).out /\ v.client = Conn(c).client
    BY <1>1, OwnConn DEF Connections, Clients
  <2> QED BY <2>1, <2>2 DEF Passes
<1>6. DOMAIN mem'.got = Clients BY <1>0 DEF HttpShape
<1>7. pc[c] = "get" BY DEF Stands
<1> QED BY <1>3, <1>4, <1>5, <1>6, <1>7, HttpTouches

(* read() of a client, with something there.                                 *)
TakeBytes(c) ==
  /\ Stands(c, "read") /\ Sock(c) # 0 /\ pc' = pc
  /\ mem' = [mem EXCEPT !.got[c] = @ + Conn(c).out]
  /\ chan' = [chan EXCEPT !.conns[Sock(c)].out = 0]

LEMMA HttpTakes ==
  ASSUME HttpState, NEW c \in Users, TakeBytes(c)
  PROVE  HttpState'
<1>0. HttpShape BY DEF HttpState
<1>1. PICK v : v = [Conn(c) EXCEPT !.out = 0] OBVIOUS
<1>2. chan' = IF Sock(c) = 0 THEN chan ELSE [chan EXCEPT !.conns[Sock(c)] = v]
  BY <1>1 DEF Conn, TakeBytes
<1>3. Conn(c) \in Connections => /\ v \in Connections /\ v.server = Conn(c).server
                                 /\ v.control = Conn(c).control
  BY <1>1 DEF Connections
<1>4. Writes(c, v) BY <1>0, <1>2, <1>3, Touched DEF Clients
<1>5. /\ DOMAIN mem' = DOMAIN mem /\ mem'.faults = mem.faults /\ mem'.sock = mem.sock
      /\ mem'.got = [mem.got EXCEPT ![c] = mem.got[c] + Conn(c).out]
  BY <1>0 DEF HttpShape, TakeBytes
<1>6. /\ DOMAIN mem'.got = Clients /\ mem'.got[c] = mem.got[c] + Conn(c).out
      /\ \A d \in Clients \ {c} : mem'.got[d] = mem.got[d]
  BY <1>0, <1>5 DEF HttpShape, Clients
<1>7. Passes(c, "read", mem'.got[c], v)
  <2>0. Sock(c) # 0 BY DEF TakeBytes
  <2>1. Conn(c) \in Connections BY <2>0, OwnConn DEF Clients
  <2>2. v.out = 0 /\ v.client = Conn(c).client BY <1>1, <2>1 DEF Connections
  <2>3. mem'.got[c] + v.out = mem.got[c] + Conn(c).out /\ mem'.got[c] \in Int
    <3>1. PICK got, out : got = mem.got[c] /\ out = Conn(c).out OBVIOUS
    <3>2. got \in Int /\ out \in Int
      BY <2>1, <3>1 DEF HttpState, HttpGood, Parts, Part, Connections
    <3>3. (got + out) + 0 = got + out /\ got + out \in Int BY <3>2
    <3> QED BY <1>6, <2>2, <3>1, <3>3
  <2> QED BY <2>0, <2>2, <2>3 DEF Passes
<1>8. pc[c] = "read" /\ pc' = pc BY DEF Stands, TakeBytes
<1>9. DOMAIN mem' = DOMAIN mem /\ mem'.faults = mem.faults /\ mem'.sock = mem.sock BY <1>5
<1>10. PICK l \in {"read"} : pc[c] = l /\ pc' = pc /\ Passes(c, l, mem'.got[c], v)
  BY <1>7, <1>8
<1>11. DOMAIN mem'.got = Clients /\ \A d \in Clients \ {c} : mem'.got[d] = mem.got[d] BY <1>6
<1> QED BY <1>3, <1>4, <1>9, <1>10, <1>11, HttpTouches

LEMMA HttpCloses ==
  ASSUME HttpState, NEW c \in Users, CloseAndIterate(c)
  PROVE  HttpState'
<1>0. HttpShape BY DEF HttpState
<1>1. PICK v : v = [Conn(c) EXCEPT !.client = FALSE] OBVIOUS
<1>2. chan' = IF Sock(c) = 0 THEN chan ELSE [chan EXCEPT !.conns[Sock(c)] = v]
  BY <1>1 DEF CloseAndIterate, CloseClient, Conn
<1>3. Conn(c) \in Connections => /\ v \in Connections /\ v.server = Conn(c).server
                                 /\ v.control = Conn(c).control
  BY <1>1 DEF Connections
<1>4. Writes(c, v) BY <1>0, <1>2, <1>3, Touched DEF Clients
<1>5. PICK left : mem' = [mem EXCEPT !.left[c] = left, !.got[c] = 0] BY DEF CloseAndIterate
<1>6. /\ DOMAIN mem' = DOMAIN mem /\ mem'.faults = mem.faults /\ mem'.sock = mem.sock
      /\ mem'.got = [mem.got EXCEPT ![c] = 0]
  BY <1>0, <1>5 DEF HttpShape
<1>7. /\ DOMAIN mem'.got = Clients /\ mem'.got[c] = 0
      /\ \A d \in Clients \ {c} : mem'.got[d] = mem.got[d]
  BY <1>0, <1>6 DEF HttpShape, Clients
<1>8. Passes(c, "connect", mem'.got[c], v) BY <1>7 DEF Passes
<1>9. pc[c] = "close" /\ pc' = Move(c, "connect") BY DEF CloseAndIterate, Stands
<1>10. DOMAIN mem' = DOMAIN mem /\ mem'.faults = mem.faults /\ mem'.sock = mem.sock BY <1>6
<1>11. PICK l \in {"connect"} : pc' = Move(c, l) /\ Passes(c, l, mem'.got[c], v) BY <1>8, <1>9
<1>12. DOMAIN mem'.got = Clients /\ \A d \in Clients \ {c} : mem'.got[d] = mem.got[d] BY <1>7
<1> QED BY <1>3, <1>4, <1>9, <1>10, <1>11, <1>12, HttpTouches

LEMMA HttpUserStep ==
  ASSUME HttpState, program = "lat_http", NEW c \in Users, Http(c)
  PROVE  HttpState'
<1> USE DEF Stands
<1>0. HttpShape BY DEF HttpState
<1>1. CASE Stands(c, "connect") /\ tcp_connect(c, "get")
  <2>1. CASE Listening BY <1>1, <2>1, HttpListening DEF Clients
  <2>2. CASE ~Listening BY <1>1, <2>2, HttpRefused DEF tcp_connect
  <2> QED BY <2>1, <2>2
<1>2. CASE Stands(c, "connect") /\ pc' = Move(c, "ended") /\ mem' = mem /\ chan' = chan
  <2>1. pc'[c] = "ended" BY <1>0, <1>2 DEF Move, HttpShape, Clients
  <2>2. Part(c) => Part(c)' BY <1>2, <2>1 DEF Part
  <2> QED BY <1>0, <1>2, <2>2, HttpStays DEF HttpShape
<1>3. CASE Stands(c, "read") /\ ClientEof(c) /\ pc' = Move(c, "close") /\ mem' = mem /\ chan' = chan
  <2>1. pc'[c] = "close" BY <1>0, <1>3 DEF Move, HttpShape, Clients
  <2>2. ASSUME Part(c) PROVE Part(c)'
    <3>1. CASE mem.sock[c] = 0
      <4>1. mem.got[c] = 0 BY <1>3, <2>2, <3>1 DEF Part
      <4> QED BY <1>3, <2>1, <4>1 DEF Part
    <3>2. CASE mem.sock[c] # 0
      <4>1. Conn(c).server = "closed" /\ Conn(c).out = 0 BY <1>3, <3>2 DEF ClientEof, Sock
      <4>2. mem.got[c] + Conn(c).out \in {0, Small}
        BY <1>3, <2>2, <3>2, <4>1 DEF Part, Conn, Sock
      <4>3. mem.got[c] \in Int BY <2>2 DEF Part
      <4>4. mem.got[c] \in {0, Small} BY <4>1, <4>2, <4>3 DEF Small
      <4> QED BY <1>3, <2>1, <4>3, <4>4 DEF Part
    <3> QED BY <3>1, <3>2
  <2>4. mem'.sock \in [Clients -> Nat] BY <1>0, <1>3 DEF HttpShape
  <2> QED BY <1>3, <2>2, <2>4, HttpStays
<1>4. ConnectBy(c, "get") => tcp_connect(c, "get") BY DEF ConnectBy
<1> QED BY <1>1, <1>2, <1>3, <1>4, HttpGets, HttpTakes, HttpCloses
        DEF Http, Iterate, TakeBytes

(* The connection of a client that is killed is closed at its end: nobody   *)
(* reads from it any more, and no other one is touched.                     *)
LEMMA HttpKill ==
  ASSUME HttpState, NEW c \in Users, KillClient(c) PROVE HttpState'
<1> USE DEF Clients, Users, Servers
<1>0. HttpShape BY DEF HttpState
<1>1. PICK silent : /\ mem' = [mem EXCEPT !.faults = mem.faults - 1, !.silent = silent]
                    /\ mem.faults > 0 /\ chan' = CloseClient(c)
                    /\ pc' = Move(c, "ended") /\ pc[c] \notin {"main", "ended"}
  BY DEF KillClient
<1>2. PICK v : v = [Conn(c) EXCEPT !.client = FALSE] OBVIOUS
<1>3. chan' = IF Sock(c) = 0 THEN chan ELSE [chan EXCEPT !.conns[Sock(c)] = v]
  BY <1>1, <1>2 DEF CloseClient, Conn
<1>4. Conn(c) \in Connections => /\ v \in Connections /\ v.server = Conn(c).server
                                 /\ v.control = Conn(c).control
  BY <1>2 DEF Connections
<1>5. Writes(c, v) BY <1>0, <1>3, <1>4, Touched
<1>6. /\ DOMAIN mem' = DOMAIN mem /\ mem'.sock = mem.sock /\ mem'.got = mem.got
      /\ mem'.faults = mem.faults - 1
  BY <1>0, <1>1 DEF HttpShape
<1>7. mem'.faults \in 0..MaxFaults BY <1>0, <1>1, <1>6, BenchAssumption DEF HttpShape
<1>8. /\ DOMAIN pc' = DOMAIN pc /\ pc'[c] = "ended"
      /\ \A p \in (Servers \cup Clients) \ {c} : pc'[p] = pc[p]
  BY <1>0, <1>1 DEF Move, HttpShape
<1>9. HttpShape' BY <1>0, <1>5, <1>6, <1>7, <1>8 DEF HttpShape, Writes
<1>10. PICK n \in Nat : n = Len(chan.conns) /\ DOMAIN chan.conns = 1..n
  BY <1>0, LenProperties DEF HttpShape, ChanShape
<1>11. PICK k : k = mem.sock[c] /\ k = Sock(c) BY DEF Sock
<1>12. k \in 1..n => Conn(c) \in Connections /\ Conn(c) = chan.conns[k]
  BY <1>0, <1>10, <1>11, ElementOfSeq DEF Conn, HttpShape, ChanShape
<1>13. \A j \in 1..n : /\ chan'.conns[j].server = chan.conns[j].server
                       /\ chan'.conns[j].control \in {chan.conns[j].control, "get"}
                       /\ j # mem.sock[c] => chan'.conns[j] = chan.conns[j]
  BY <1>4, <1>5, <1>10, <1>11, <1>12 DEF Writes
<1>14. Part(c)'
  <2>1. mem.got[c] \in Int BY DEF HttpState, HttpGood, Parts, Part
  <2> QED BY <1>6, <1>8, <2>1 DEF Part
<1>15. /\ Len(chan'.conns) = n /\ chan'.accepted = chan.accepted /\ chan'.body = chan.body
       /\ \A d \in Clients \ {c} : mem'.sock[d] = mem.sock[d] /\ mem'.got[d] = mem.got[d]
       /\ mem'.sock[c] = mem.sock[c]
  BY <1>5, <1>6, <1>10 DEF Writes
<1> QED BY <1>1, <1>8, <1>9, <1>10, <1>13, <1>14, <1>15, HttpClient

LEMMA HttpStartUsers ==
  ASSUME HttpState, NEW n, StartUsers("lat_http", n) PROVE HttpState'
<1> USE DEF Clients, Users, Servers
<1>0. HttpShape BY DEF HttpState
<1>1. PICK left : mem' = [mem EXCEPT !.left = left] BY DEF StartUsers
<1>2. /\ DOMAIN mem' = DOMAIN mem /\ mem'.sock = mem.sock /\ mem'.got = mem.got
      /\ mem'.faults = mem.faults
  BY <1>0, <1>1 DEF HttpShape
<1>3. /\ chan' = chan /\ \A c \in Users : pc[c] = "main"
      /\ pc' = [q \in DOMAIN pc |-> IF q \in Users THEN "connect" ELSE pc[q]]
  BY DEF StartUsers, Stands
<1>4. /\ DOMAIN pc' = DOMAIN pc /\ \A q \in Servers \cup {"stopper"} : pc'[q] = pc[q]
      /\ \A q \in Users : pc'[q] = "connect"
  BY <1>0, <1>3 DEF HttpShape
<1>5. HttpShape' BY <1>0, <1>2, <1>3, <1>4 DEF HttpShape, ChanShape
<1> SUFFICES ASSUME HttpGood PROVE HttpGood'
  BY <1>2, <1>5 DEF HttpState
<1>6. Present'
  <2>1. \A q \in Servers : pc'[q] = pc[q] BY <1>4
  <2>3. \A q \in Servers : pc[q] \in Busy => chan.conns[chan.accepted[q]].server = "open"
    BY DEF HttpGood, Present
  <2> QED BY <1>0, <1>2, <1>3, <1>5, <2>1, <2>3, PresentKept DEF HttpGood
<1>7. LastComes' BY <1>2, <1>3, <1>4 DEF HttpGood, LastComes
<1>8. Requested' BY <1>3, <1>4 DEF HttpGood, Requested
<1>9. Parts'
  <2> SUFFICES ASSUME NEW c \in Users PROVE Part(c)' BY PartsFromPart
  <2>1. Part(c) BY DEF HttpGood, Parts
  <2>2. mem.got[c] = 0 BY <1>3, <2>1 DEF Part
  <2> QED BY <1>2, <1>4, <2>2 DEF Part
<1> QED BY <1>6, <1>7, <1>8, <1>9 DEF HttpGood

(* The -S run before it has a connection, or without one.                    *)
LEMMA StopperStays ==
  ASSUME HttpState, pc["stopper"] \in {"main", "connect"},
         pc["stopper"] = "main" => \A c \in Users : pc[c] = "ended",
         NEW l \in {"connect", "stop"}, pc' = Move("stopper", l) \/ (pc' = pc /\ pc["stopper"] = l),
         chan' = chan, DOMAIN mem' = DOMAIN mem, mem'.faults = mem.faults, mem'.got = mem.got,
         mem'.sock = mem.sock \/ mem'.sock = [mem.sock EXCEPT !["stopper"] = 0]
  PROVE  HttpState'
<1> USE DEF Clients, Users, Servers
<1>0. HttpShape BY DEF HttpState
<1>1. /\ DOMAIN pc' = DOMAIN pc /\ pc'["stopper"] = l
      /\ \A p \in Servers \cup Users : pc'[p] = pc[p]
  BY <1>0 DEF Move, HttpShape
<1>2. mem'.sock \in [Clients -> Nat] /\ \A c \in Users : mem'.sock[c] = mem.sock[c]
      /\ mem'.sock["stopper"] \in {mem.sock["stopper"], 0}
  BY <1>0 DEF HttpShape
<1>3. HttpShape' BY <1>0, <1>1, <1>2 DEF HttpShape, ChanShape
<1> SUFFICES ASSUME HttpGood PROVE HttpGood'
  BY <1>3 DEF HttpState
<1>4. mem.sock["stopper"] = 0 /\ mem'.sock["stopper"] = 0 BY <1>2 DEF HttpGood, LastComes
<1>5. \A c \in Clients : mem'.sock[c] = mem.sock[c] BY <1>2, <1>4
<1>6. Present' BY <1>1, <1>5 DEF HttpGood, Present, Busy
<1>7. LastComes' BY <1>1, <1>4 DEF HttpGood, LastComes
<1>8. Requested' BY <1>1 DEF HttpGood, Requested
<1>9. Parts'
  <2> SUFFICES ASSUME NEW c \in Users PROVE Part(c)' BY PartsFromPart
  <2>1. PICK k : k = mem.sock[c] OBVIOUS
  <2>2. mem'.sock[c] = k /\ pc'[c] = pc[c] /\ \A s \in Servers : pc'[s] = pc[s]
    BY <1>1, <1>2, <2>1
  <2> QED BY <2>1, <2>2, PartKept DEF HttpGood
<1> QED BY <1>6, <1>7, <1>8, <1>9 DEF HttpGood

(* It asks its process to stop, and closes.                                  *)
LEMMA StopperAsks ==
  ASSUME HttpState, pc["stopper"] = "stop", pc' = Move("stopper", "ended"), mem' = mem,
         NEW v, Writes("stopper", v),
         Conn("stopper") \in Connections => v.server = Conn("stopper").server /\ v.control = "stop"
  PROVE  HttpState'
<1> USE DEF Clients, Users, Servers
<1>0. HttpShape BY DEF HttpState
<1>1. PICK n \in Nat : n = Len(chan.conns) /\ DOMAIN chan.conns = 1..n
  BY <1>0, LenProperties DEF HttpShape, ChanShape
<1>2. PICK k : k = mem.sock["stopper"] /\ k = Sock("stopper") BY DEF Sock
<1>3. /\ ChanShape' /\ Len(chan'.conns) = n /\ chan'.accepted = chan.accepted
      /\ chan'.body = chan.body /\ chan'.file = chan.file
      /\ \A j \in 1..n : chan'.conns[j] = IF j = k THEN v ELSE chan.conns[j]
  BY <1>1, <1>2 DEF Writes
<1>4. /\ DOMAIN pc' = DOMAIN pc /\ pc'["stopper"] = "ended"
      /\ \A p \in Servers \cup Users : pc'[p] = pc[p]
  BY <1>0 DEF Move, HttpShape
<1>5. k \in 1..n => Conn("stopper") \in Connections /\ Conn("stopper") = chan.conns[k]
  BY <1>0, <1>1, <1>2, ElementOfSeq DEF Conn, HttpShape, ChanShape
<1>6. HttpShape' BY <1>0, <1>3, <1>4 DEF HttpShape
<1> SUFFICES ASSUME HttpGood PROVE HttpGood'
  BY <1>6 DEF HttpState
<1>7. \A j \in 1..n : /\ chan'.conns[j].server = chan.conns[j].server
                      /\ j = k => chan'.conns[j].control = "stop"
                      /\ j # k => chan'.conns[j] = chan.conns[j]
  BY <1>3, <1>5
<1>8. DOMAIN chan'.conns = 1..n BY <1>3, LenProperties DEF ChanShape
<1>9. \A c \in Clients : mem.sock[c] \in 0..n BY <1>1 DEF HttpGood, Present
<1>10. Present'
  <2>1. \A s \in Servers : pc'[s] = pc[s] /\ (pc[s] \in Busy =>
          chan.accepted[s] \in 1..n /\ chan.conns[chan.accepted[s]].server = "open")
    BY <1>1, <1>4 DEF HttpGood, Present
  <2>2. \A s \in Servers : pc[s] \in Busy => chan'.conns[chan.accepted[s]].server = "open"
    BY <1>7, <2>1
  <2> QED BY <1>0, <1>1, <1>3, <1>6, <2>1, <2>2, PresentKept DEF HttpGood
<1>11. LastComes'
  <2>1. k \in 0..n BY <1>2, <1>9
  <2>2. \A j \in 1..n : j # k => chan'.conns[j].control # "stop"
    BY <1>1, <1>2, <1>7 DEF HttpGood, LastComes
  <2>3. \A c \in Users : pc'[c] = "ended" BY <1>4 DEF HttpGood, LastComes
  <2>4. k # 0 => chan'.conns[k].control # "get" BY <1>7, <2>1
  <2> QED BY <1>2, <1>4, <1>8, <2>2, <2>3, <2>4 DEF LastComes
<1>12. \A s \in Servers : pc[s] \in {"small", "large"} => chan.accepted[s] \in 1..n /\ chan.accepted[s] # k
  <2> SUFFICES ASSUME NEW s \in Servers, pc[s] \in {"small", "large"}
               PROVE  chan.accepted[s] \in 1..n /\ chan.accepted[s] # k
    OBVIOUS
  <2>1. chan.accepted[s] \in 1..n BY <1>1 DEF HttpGood, Present, Busy
  <2>2. chan.conns[chan.accepted[s]].control = "get" BY DEF HttpGood, Requested
  <2>3. k # 0 => chan.conns[k].control # "get" BY <1>2 DEF HttpGood, LastComes
  <2> QED BY <2>1, <2>2, <2>3
<1>13. Requested' BY <1>3, <1>4, <1>7, <1>12 DEF HttpGood, Requested
<1>14. Parts'
  <2> SUFFICES ASSUME NEW c \in Users PROVE Part(c)' BY PartsFromPart
  <2>1. Part(c) BY DEF HttpGood, Parts
  <2>2. pc'[c] = "ended" BY <1>4 DEF HttpGood, LastComes
  <2> QED BY <2>1, <2>2 DEF Part
<1> QED BY <1>10, <1>11, <1>13, <1>14 DEF HttpGood

LEMMA HttpStopperStep ==
  ASSUME HttpState, AskToStop("lat_http") PROVE HttpState'
<1> USE DEF Stands
<1>0. HttpShape /\ program = "lat_http" BY DEF HttpState, AskToStop
<1>1. CASE /\ Stands("stopper", "main") /\ \A c \in Users : Stands(c, "ended")
           /\ pc' = Move("stopper", "connect") /\ UNCHANGED <<program, mem, chan>>
  <2>1. PICK l \in {"connect"} : pc' = Move("stopper", l) BY <1>1
  <2> QED BY <1>1, <2>1, StopperStays
<1>2. CASE Stands("stopper", "connect") /\ tcp_connect("stopper", "stop")
  <2>1. CASE Listening
    <3>1. PICK l : l = "stop" OBVIOUS
    <3>2. l = IF "stopper" \in Users THEN "get" ELSE "stop" BY <3>1 DEF Users
    <3> QED BY <1>2, <2>1, <3>1, <3>2, HttpListening DEF Clients
  <2>2. CASE ~Listening
    <3>1. PICK tries : mem' = [mem EXCEPT !.sock["stopper"] = 0, !.tries["stopper"] = tries]
      BY <1>2, <2>2 DEF tcp_connect
    <3>2. PICK l \in {"connect", "stop"} :
            pc' = Move("stopper", l) \/ (pc' = pc /\ pc["stopper"] = l)
      BY <1>2, <2>2 DEF tcp_connect
    <3>3. /\ DOMAIN mem' = DOMAIN mem /\ mem'.faults = mem.faults /\ mem'.got = mem.got
          /\ mem'.sock = [mem.sock EXCEPT !["stopper"] = 0]
      BY <1>0, <3>1 DEF HttpShape
    <3>4. chan' = chan BY <1>2, <2>2 DEF tcp_connect
    <3> QED BY <1>2, <3>2, <3>3, <3>4, StopperStays
  <2> QED BY <2>1, <2>2
<1>3. CASE /\ Stands("stopper", "stop") /\ pc' = Move("stopper", "ended") /\ mem' = mem
           /\ chan' = IF Sock("stopper") = 0 THEN chan
                      ELSE [chan EXCEPT !.conns[Sock("stopper")].control = "stop",
                                        !.conns[Sock("stopper")].client = FALSE]
  <2>1. PICK v : v = [Conn("stopper") EXCEPT !.control = "stop", !.client = FALSE] OBVIOUS
  <2>2. Conn("stopper") \in Connections =>
          v \in Connections /\ v.server = Conn("stopper").server /\ v.control = "stop"
    BY <2>1 DEF Connections
  <2>3. chan' = IF Sock("stopper") = 0 THEN chan ELSE [chan EXCEPT !.conns[Sock("stopper")] = v]
    <3>1. CASE Sock("stopper") = 0 BY <1>3, <3>1
    <3>2. CASE Sock("stopper") # 0
      <4>1. chan' = [chan EXCEPT !.conns[Sock("stopper")].control = "stop",
                                 !.conns[Sock("stopper")].client = FALSE]
        BY <1>3, <3>2
      <4>2. PICK n \in Nat : chan.conns \in [1..n -> Connections]
        BY <1>0, LenProperties DEF HttpShape, ChanShape
      <4>3. DOMAIN chan = {"conns", "accepted", "path", "body", "file"} BY <1>0 DEF HttpShape, ChanShape
      <4> QED BY <2>1, <3>2, <4>1, <4>2, <4>3 DEF Conn
    <3> QED BY <3>1, <3>2
  <2>4. Writes("stopper", v) BY <1>0, <2>2, <2>3, Touched DEF Clients
  <2> QED BY <1>3, <2>2, <2>4, StopperAsks
<1> QED BY <1>0, <1>1, <1>2, <1>3 DEF AskToStop, ConnectBy

(* Every step of the servers, of the clients and of the -S run, and a client *)
(* that is killed.                                                           *)
LEMMA HttpStep == HttpInv /\ [SequentialNext]_childvars => HttpInv'
<1> SUFFICES ASSUME HttpInv, [SequentialNext]_childvars PROVE HttpInv' OBVIOUS
<1>1. CASE UNCHANGED childvars
  <2>0. /\ program' = program /\ mem' = mem /\ chan' = chan /\ pc' = pc BY <1>1 DEF childvars
  <2>1. HttpShape => HttpShape' BY <2>0 DEF HttpShape, ChanShape
  <2>2. Present => Present' BY <2>0 DEF Present
  <2>3. LastComes => LastComes' BY <2>0 DEF LastComes
  <2>4. Requested => Requested' BY <2>0 DEF Requested
  <2>5. Parts => Parts' BY <2>0 DEF Parts, Part
  <2>6. HttpState => HttpState'
    BY <2>0, <2>1, <2>2, <2>3, <2>4, <2>5 DEF HttpState, HttpGood
  <2> QED BY <2>0, <2>6 DEF HttpInv
<1>2. ASSUME SequentialNext PROVE program' = program
  <2>1. \A s, l : tcp_accept(s, l) \/ tcp_server(s) \/ unix_server(s) \/ unix_done(s)
                  \/ ServerEnds(s, l) \/ CloseAndAccept(s) => program' = program
    BY DEF tcp_accept, tcp_server, unix_server, unix_done, ServerEnds, CloseAndAccept
  <2>2. \A c, l : ConnectBy(c, l) \/ Iterate(c, l) => program' = program
    BY DEF ConnectBy, tcp_connect, unix_connect, Iterate, CloseAndIterate
  <2>3. \A p, n : StartUsers(p, n) \/ AskToStop(p) => program' = program
    BY <2>2 DEF StartUsers, AskToStop
  <2>4. \A c : LatConnectDoclient(c) \/ UnixConnectBenchmark(c) \/ Http(c) => program' = program
    BY <2>2 DEF LatConnectDoclient, UnixConnectBenchmark, Http
  <2>5. SequentialClient => program' = program
    BY <2>3, <2>4 DEF SequentialClient, LatConnectMain, UnixConnectMain, LatHttpMain, Killhttp
  <2>6. \A s : LmhttpWorker(s) => program' = program
    BY <2>1 DEF LmhttpWorker, LmhttpSource, Rdwr, MmapRdwr, SendByte
  <2>7. SequentialServer => program' = program
    BY <2>1, <2>6 DEF SequentialServer, LatConnectServer, UnixConnectServer, AcceptAndRead, LmhttpMain
  <2> QED BY <1>2, <2>5, <2>7 DEF SequentialNext, KillClient, KillServer
<1>3. ASSUME SequentialNext, program = "lat_http" PROVE HttpState'
  <2>0. HttpState BY <1>3 DEF HttpInv
  <2>1. CASE SequentialServer
    <3>1. ~LatConnectServer /\ ~UnixConnectServer
      BY <1>3 DEF LatConnectServer, UnixConnectServer, AcceptAndRead
    <3> QED BY <2>0, <2>1, <3>1, HttpMainStep, HttpWorkerStep DEF SequentialServer
  <2>2. CASE SequentialClient
    <3>1. ~LatConnectMain /\ ~UnixConnectMain
      BY <1>3 DEF LatConnectMain, UnixConnectMain, StartUsers, AskToStop
    <3>2. \A c \in Users : ~LatConnectDoclient(c) /\ ~UnixConnectBenchmark(c)
      BY <1>3 DEF LatConnectDoclient, UnixConnectBenchmark
    <3>3. CASE LatHttpMain BY <2>0, <3>3, HttpStartUsers DEF LatHttpMain
    <3>4. CASE Killhttp BY <2>0, <3>4, HttpStopperStep DEF Killhttp
    <3>5. CASE \E c \in Users : Http(c) BY <1>3, <2>0, <3>5, HttpUserStep
    <3> QED BY <2>2, <3>1, <3>2, <3>3, <3>4, <3>5 DEF SequentialClient
  <2>3. CASE \E c \in Users : KillClient(c) BY <2>0, <2>3, HttpKill
  <2> QED BY <1>3, <2>1, <2>2, <2>3 DEF SequentialNext
<1> QED BY <1>1, <1>2, <1>3 DEF HttpInv

(* A client of lmhttp that read to the end of file got the whole file or     *)
(* nothing, whichever of the two processes served it, whichever clients were *)
(* killed, and whatever the process they were served by did then.            *)
THEOREM HttpCorrect == SequentialSpec => []HttpWhole
<1>1. HttpInv => HttpWhole
  BY DEF HttpInv, HttpState, HttpGood, Parts, Part, HttpWhole, Stands
<1> QED BY <1>1, HttpStart, HttpStep, PTL DEF SequentialSpec
=============================================================================
