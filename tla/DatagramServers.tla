--------------------------- MODULE DatagramServers ---------------------------
(***************************************************************************)
(* lat_udp, bw_udp and lat_rpc: one server process and its clients over       *)
(* datagrams that may be lost or overtake each other.                          *)
(***************************************************************************)
EXTENDS StreamSockets, Integers

CONSTANT MaxLost   \* bound: datagrams lost in a behaviour

ASSUME DatagramAssumption == MaxLost \in Nat

DatagramNames == {"lat_udp", "bw_udp", "lat_rpc"}
RequestsOne == 1..1   \* MUTANT: only one is sent
Requests == 1..4      \* the shutdown requests of -S

(* to[c], from[c]: datagrams between client c and the server.  seq[c]: the next    *)
(* sequence number of client c (lat_rpc: the call's xid, which the RPC library      *)
(* matches); got[c]: the number in the last reply.  last: the server's own seq.     *)
DatagramInit ==
  /\ program \in DatagramNames
  /\ pc = [p \in {"server"} \cup Clients |-> "main"]
  /\ mem = [faults |-> MaxFaults, lost |-> MaxLost, left |-> [c \in Clients |-> 0],
            seq |-> [c \in Clients |-> 0], got |-> [c \in Clients |-> -1], last |-> 0,
            proto |-> [c \in Clients |-> "tcp"], killed |-> {}]
  /\ chan = [to |-> [c \in Clients |-> {}], from |-> [c \in Clients |-> {}]]

Up == pc["server"] \notin {"main", "ended"}
Goes(p, label) == pc' = Move(p, label) /\ UNCHANGED program

(* udp_server(): a bound socket.                                                     *)
udp_server(p) ==
  /\ program = p /\ Stands("server", "main")
  /\ Goes("server", "recv") /\ UNCHANGED <<mem, chan>>

(* udp_connect() only names the peer; datagrams for a server that is not up are gone, *)
(* and the next recv() fails (ECONNREFUSED).                                          *)
SendTo(c, datagrams) == chan' = [chan EXCEPT !.to[c] = IF Up THEN @ \cup datagrams ELSE @]

BeginClients(p, label) ==
  /\ program = p /\ \A c \in Users : Stands(c, "main")
  /\ pc' = [q \in DOMAIN pc |-> IF q \in Users THEN label ELSE pc[q]]
  /\ mem' = [mem EXCEPT !.left = [c \in Clients |-> IF c = "client1" THEN BatchSize ELSE 1]]
  /\ UNCHANGED <<program, chan>>

ShutDownRun(p, datagrams) ==
  /\ program = p /\ Stands("stopper", "main") /\ \A c \in Users : Stands(c, "ended")
  /\ SendTo("stopper", datagrams)
  /\ Goes("stopper", "ended") /\ UNCHANGED mem

(* -S sends -1 to -4, so that one at least arrives.                                   *)
LatUdpMain ==
  \/ BeginClients("lat_udp", "run")
  \/ ShutDownRun("lat_udp", {-n : n \in Requests})

BwUdpMain == BeginClients("bw_udp", "run") \/ ShutDownRun("bw_udp", {-n : n \in Requests})

ClientDone(p, c) ==
  /\ program = p /\ Stands(c, "run") /\ mem.left[c] = 0
  /\ Goes(c, "close") /\ UNCHANGED <<mem, chan>>

(* doit(): send the next number, take any reply; its number is not looked at.          *)
LatUdpDoit(c) ==
  \/ ClientDone("lat_udp", c)
  \/ /\ program = "lat_udp" /\ Stands(c, "run") /\ mem.left[c] > 0
     /\ SendTo(c, {mem.seq[c]})
     /\ mem' = [mem EXCEPT !.seq[c] = @ + 1]
     /\ Goes(c, "recv")
  \/ /\ program = "lat_udp" /\ Stands(c, "recv")
     /\ \E n \in chan.from[c] :
          /\ chan' = [chan EXCEPT !.from[c] = @ \ {n}]
          /\ mem' = [mem EXCEPT !.got[c] = n, !.left[c] = @ - 1]
     /\ Goes(c, "run")
  \/ /\ program = "lat_udp" /\ Stands(c, "recv") /\ ~Up
     /\ Goes(c, "ended") /\ UNCHANGED <<mem, chan>>

(* alarm(15), set by init() and at the start of every interval and never taken back:    *)
(* it ends the client wherever it stands.                                               *)
LatUdpTimeout(c) ==
  /\ program = "lat_udp" /\ pc[c] \in {"run", "recv", "close"}
  /\ Goes(c, "ended") /\ UNCHANGED <<mem, chan>>

CleanupSocket(p, c) ==
  /\ program = p /\ Stands(c, "close")
  /\ Goes(c, "ended") /\ UNCHANGED <<mem, chan>>

LatUdpCleanup(c) == CleanupSocket("lat_udp", c)
BwUdpCleanup(c) == CleanupSocket("bw_udp", c)

(* The server sends back the number it got; one out of the order it expects it takes     *)
(* for a new start.  A negative number is a request to stop.                             *)
ResyncNever(sent) == mem.last + 1   \* MUTANT: the server counts on
Resync(sent) == IF sent # mem.last + 1 THEN sent ELSE mem.last + 1

LatUdpServer ==
  \/ udp_server("lat_udp")
  \/ /\ program = "lat_udp" /\ Stands("server", "recv")
     /\ \E c \in Clients : \E n \in chan.to[c] :
          IF n < 0 THEN Goes("server", "ended") /\ UNCHANGED <<mem, chan>>
          ELSE /\ mem' = [mem EXCEPT !.last = Resync(n)]
               /\ chan' = [chan EXCEPT !.to[c] = @ \ {n}, !.from[c] = @ \cup {Resync(n)}]
               /\ UNCHANGED <<program, pc>>

(* loop_transfer(): the sizes go out as longs in the client's byte order, and nbytes is   *)
(* set once for all iterations: only the first one reads (the number 0).  There is no     *)
(* alarm.                                                                                 *)
BwUdpLoopTransfer(c) ==
  \/ ClientDone("bw_udp", c)
  \/ /\ program = "bw_udp" /\ Stands(c, "run") /\ mem.left[c] > 0
     /\ SendTo(c, {mem.seq[c]})
     /\ mem' = [mem EXCEPT !.seq[c] = @ + 1, !.left[c] = @ - 1]
     /\ Goes(c, IF mem.seq[c] = 0 THEN "recv" ELSE "run")
  \/ (* a datagram that has not the client's size: exit(5), as when there is no server *)
     /\ program = "bw_udp" /\ Stands(c, "recv") /\ (chan.from[c] # {} \/ ~Up)
     /\ Goes(c, "ended") /\ UNCHANGED <<mem, chan>>

(* The server swaps the bytes of both sizes (ntohl of a little-endian long): what it        *)
(* sends is of another size than the client's, or too large to send, exit(9).  It knows      *)
(* no request to stop: -1 is 4294967295 bytes, which it goes on sending ("flood").           *)
BwUdpServer ==
  \/ udp_server("bw_udp")
  \/ /\ program = "bw_udp" /\ Stands("server", "recv")
     /\ \E c \in Clients : \E n \in chan.to[c] :
          \/ /\ n >= 0
             /\ chan' = [chan EXCEPT !.to[c] = @ \ {n}, !.from[c] = @ \cup {n}]
             /\ UNCHANGED <<program, pc, mem>>
          \/ n >= 0 /\ Goes("server", "ended") /\ UNCHANGED <<mem, chan>>
          \/ n < 0 /\ Goes("server", "flood") /\ UNCHANGED <<mem, chan>>

(* lat_rpc without -p measures tcp, then udp.  -S is one call without retransmission:        *)
(* its 25 ms are over before the library's five seconds are.                                 *)
LatRpcMain ==
  \/ BeginClients("lat_rpc", "init")
  \/ \E c \in Users :
       /\ program = "lat_rpc" /\ Stands(c, "close")
       /\ IF mem.proto[c] = "tcp"
          THEN /\ mem' = [mem EXCEPT !.proto[c] = "udp", !.left[c] = 1]
               /\ Goes(c, "init") /\ UNCHANGED chan
          ELSE Goes(c, "ended") /\ UNCHANGED <<mem, chan>>
  \/ ShutDownRun("lat_rpc", {-1})

(* clnt_create() asks the portmapper; without a server exit(1).                              *)
LatRpcInitialize(c) ==
  /\ program = "lat_rpc" /\ Stands(c, "init")
  /\ Goes(c, IF Up THEN "run" ELSE "ended") /\ UNCHANGED <<mem, chan>>

LatRpcBenchmark(c) == ClientDone("lat_rpc", c)

(* doit(): one call; no answer within 25 ms is exit(1).                                      *)
LatRpcDoit(c) ==
  /\ program = "lat_rpc"
  /\ \/ /\ Stands(c, "run") /\ mem.left[c] > 0
        /\ SendTo(c, {mem.seq[c]}) /\ Goes(c, "recv") /\ UNCHANGED mem
     \/ Stands(c, "recv") /\ Goes(c, "ended") /\ UNCHANGED <<mem, chan>>

(* clnt_call(): over udp the request is sent again after 2.5 ms; the library drops a reply   *)
(* that is not for this call.                                                                *)
client_rpc_xact_1(c) ==
  /\ program = "lat_rpc" /\ Stands(c, "recv")
  /\ \/ /\ mem.seq[c] \in chan.from[c]
        /\ chan' = [chan EXCEPT !.from[c] = {}]
        /\ mem' = [mem EXCEPT !.got[c] = mem.seq[c], !.seq[c] = @ + 1, !.left[c] = @ - 1]
        /\ Goes(c, "run")
     \/ /\ mem.proto[c] = "udp" /\ mem.seq[c] \notin chan.to[c]
        /\ SendTo(c, {mem.seq[c]}) /\ UNCHANGED <<program, pc, mem>>

LatRpcServer == udp_server("lat_rpc")

(* xact_prog_1(): answer a call, whether it came before or not; RPC_EXIT is answered too.     *)
xact_prog_1 ==
  /\ program = "lat_rpc" /\ Stands("server", "recv")
  /\ \E c \in Clients : \E n \in chan.to[c] :
       /\ chan' = [chan EXCEPT !.to[c] = @ \ {n}, !.from[c] = @ \cup {n}]
       /\ IF n < 0 THEN Goes("server", "ended") /\ UNCHANGED mem
          ELSE UNCHANGED <<program, pc, mem>>

(* GO_AWAY: SIGALRM ends the server after an hour.                                            *)
UdpGoAway ==
  /\ program \in DatagramNames /\ Up
  /\ Goes("server", "ended") /\ UNCHANGED <<mem, chan>>

(* The network loses a datagram; lat_rpc's tcp calls are not lost.                            *)
Lose ==
  /\ program \in DatagramNames /\ mem.lost > 0
  /\ \E c \in Clients :
       /\ program = "lat_rpc" => c = "stopper" \/ mem.proto[c] = "udp"
       /\ \/ \E n \in chan.to[c] : chan' = [chan EXCEPT !.to[c] = @ \ {n}]
          \/ \E n \in chan.from[c] : chan' = [chan EXCEPT !.from[c] = @ \ {n}]
  /\ mem' = [mem EXCEPT !.lost = @ - 1]
  /\ UNCHANGED <<program, pc>>

DatagramClient(c) ==
  \/ LatUdpDoit(c) \/ LatUdpTimeout(c) \/ LatUdpCleanup(c)
  \/ BwUdpLoopTransfer(c) \/ BwUdpCleanup(c)
  \/ LatRpcInitialize(c) \/ LatRpcBenchmark(c) \/ LatRpcDoit(c) \/ client_rpc_xact_1(c)
DatagramMain == LatUdpMain \/ BwUdpMain \/ LatRpcMain
DatagramServer == LatUdpServer \/ BwUdpServer \/ LatRpcServer \/ xact_prog_1

DatagramNext ==
  /\ program \in DatagramNames
  /\ DatagramMain \/ DatagramServer \/ UdpGoAway \/ Lose \/ \E c \in Users : DatagramClient(c)

(* lat_udp's client takes any datagram of the right size for its answer.  It is the answer:    *)
(* it carries the number sent last, whatever was lost and whoever else talks to the server.    *)
UdpReplies ==
  \A c \in Users : program = "lat_udp" /\ Stands(c, "run") => mem.got[c] = mem.seq[c] - 1
=============================================================================
