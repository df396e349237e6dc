---------------------------- MODULE StreamSockets ----------------------------
(***************************************************************************)
(* What lib_tcp.c and lib_unix.c do for the servers and clients of the        *)
(* suite: a server that listens, the connections made to it in the order they  *)
(* are accepted, and the two ends of each.  The benchmark's side of benchmp()  *)
(* is left out here: a client connects, does one interval and closes.           *)
(***************************************************************************)
EXTENDS BenchChild, Sequences, FiniteSets

CONSTANT MaxTries   \* bound: refused connections before giving up (10 in lib_tcp.c)

ASSUME SocketAssumption == MaxTries \in Nat

Users == {"client1", "client2"}   \* bound: the clients; "stopper" is the -S run
Clients == Users \cup {"stopper"}
Servers == {"server", "worker"}   \* "worker" is used by lmhttp only

(* sock[c]: the connection of client c, 0 for a failed one (-1 in the code).     *)
(* zombies, pending: handlers that ended and were not waited for, and whether a   *)
(* SIGCHLD for the server waits for delivery.  alarm, silent, for the properties   *)
(* only: the server's alarm went off; the clients that were killed when they had a  *)
(* connection and had not sent the size.                                            *)
SocketInit(names, servers) ==
  /\ program \in names
  /\ pc = [p \in Servers \cup Clients |-> IF p \in servers \cup Clients THEN "main" ELSE "none"]
  /\ mem = [faults |-> MaxFaults, sock |-> [c \in Clients |-> 0], tries |-> [c \in Clients |-> 0],
            left |-> [c \in Clients |-> 0], todo |-> [c \in Clients |-> 0],
            got |-> [c \in Clients |-> 0], msize |-> 1, move |-> 1, zombies |-> 0, pending |-> FALSE,
            killed |-> {}, alarm |-> FALSE, silent |-> {}]

EmptyChannels == [conns |-> <<>>, accepted |-> [s \in Servers |-> 0],
                  path |-> FALSE, body |-> [s \in Servers |-> 0], file |-> "none"]

(* control: the first message, not read yet; in, out: bytes on their way to the    *)
(* server and to the client; handler: the process that serves the connection.      *)
Connection ==
  [control |-> "none", in |-> 0, out |-> 0, client |-> TRUE, server |-> "queued",
   handler |-> "none"]

Move(p, label) == [pc EXCEPT ![p] = label]
Stands(p, label) == pc[p] = label
Sock(c) == mem.sock[c]
Conn(c) == chan.conns[Sock(c)]

(* The listening socket is open while a process that has it lives.                 *)
Listening == \E s \in Servers : pc[s] \notin {"none", "main", "unlink", "ended"}
Queued == {i \in DOMAIN chan.conns : chan.conns[i].server = "queued"}

CloseServerSide(conns, held) ==
  [i \in DOMAIN conns |-> IF i \in held THEN [conns[i] EXCEPT !.server = "closed"] ELSE conns[i]]

(* tcp_server(), unix_server(): bind and listen; a path that exists is exit(2).    *)
tcp_server(s) ==
  /\ Stands(s, "main")
  /\ pc' = Move(s, "accept") /\ UNCHANGED <<program, mem, chan>>

unix_server(s) ==
  /\ Stands(s, "main")
  /\ IF chan.path THEN pc' = Move(s, "ended") /\ UNCHANGED chan
     ELSE pc' = Move(s, "accept") /\ chan' = [chan EXCEPT !.path = TRUE]
  /\ UNCHANGED <<program, mem>>

(* tcp_accept(), unix_accept(): the oldest connection in the queue.                *)
tcp_accept(s, label) ==
  /\ Stands(s, "accept") /\ Queued # {}
  /\ pc' = Move(s, label)
  /\ LET i == CHOOSE i \in Queued : \A j \in Queued : i <= j IN
       chan' = [chan EXCEPT !.conns[i].server = "open", !.accepted[s] = i]
  /\ UNCHANGED <<program, mem>>

unix_accept(s, label) == tcp_accept(s, label)

(* tcp_connect(): a refused connection is tried again at once; the count of tries   *)
(* is static, and only a connection sets it back.                                   *)
tcp_connect(c, label) ==
  /\ UNCHANGED program
  /\ IF Listening
     THEN /\ chan' = [chan EXCEPT !.conns = Append(@, Connection)]
          /\ mem' = [mem EXCEPT !.sock[c] = Len(chan.conns) + 1, !.tries[c] = 0]
          /\ pc' = Move(c, label)
     ELSE /\ mem' = [mem EXCEPT !.sock[c] = 0,
                       !.tries[c] = IF @ > MaxTries THEN @ ELSE @ + 1]
          /\ pc' = IF mem.tries[c] >= MaxTries THEN Move(c, label) ELSE pc
          /\ UNCHANGED chan

(* unix_connect(): exit(4) when there is no server.                                  *)
unix_connect(c, label) ==
  /\ UNCHANGED program
  /\ IF Listening
     THEN /\ chan' = [chan EXCEPT !.conns = Append(@, Connection)]
          /\ mem' = [mem EXCEPT !.sock[c] = Len(chan.conns) + 1]
          /\ pc' = Move(c, label)
     ELSE pc' = Move(c, "ended") /\ UNCHANGED <<mem, chan>>

(* unix_done(): close, then unlink.                                                  *)
unix_done(s) ==
  /\ Stands(s, "unlink")
  /\ chan' = [chan EXCEPT !.path = FALSE]
  /\ pc' = Move(s, "ended") /\ UNCHANGED <<program, mem>>

(* The connections after client c has closed its end, or died.                       *)
CloseClient(c) ==
  IF Sock(c) = 0 THEN chan ELSE [chan EXCEPT !.conns[Sock(c)].client = FALSE]

(* End of file for the server and for the client.                                    *)
ServerEof(i) == ~chan.conns[i].client /\ chan.conns[i].in = 0
ClientEof(c) == Sock(c) # 0 => Conn(c).server = "closed" /\ Conn(c).out = 0

KillClient(c) ==
  /\ mem.faults > 0 /\ pc[c] \notin {"main", "ended"}
  /\ mem' = [mem EXCEPT !.faults = @ - 1,
                        !.silent = IF pc[c] = "size" /\ Sock(c) # 0 THEN @ \cup {c} ELSE @]
  /\ chan' = CloseClient(c) /\ pc' = Move(c, "ended")
  /\ UNCHANGED program
=============================================================================
