-------------------------- MODULE SequentialServers --------------------------
(***************************************************************************)
(* lat_connect, lat_unix_connect and lmhttp with its client lat_http:      *)
(* servers that serve one connection after the other.  lmhttp is two       *)
(* processes that accept from one socket.                                  *)
(***************************************************************************)
EXTENDS StreamSockets

SequentialNames == {"lat_connect", "lat_unix_connect", "lat_http"}
Small == 2   \* bound: bytes of a file that lmhttp reads, header included
Files == {"none", "small", "large"}   \* no such file; rdwr(); mmap_rdwr()

(* path: /tmp/af_unix, which a server that was killed leaves behind.               *)
(* body[s]: the bytes that lmhttp process s has still to send.  Client 2 iterates   *)
(* once, client 1 n times (bound).                                                  *)
SequentialInit ==
  \E old \in BOOLEAN, f \in Files :
    /\ SocketInit(SequentialNames, {"server"})
    /\ program # "lat_unix_connect" => ~old
    /\ program # "lat_http" => f = "none"
    /\ chan = [EmptyChannels EXCEPT !.path = old, !.file = f]

StartUsers(p, n) ==
  /\ program = p /\ \A c \in Users : Stands(c, "main")
  /\ pc' = [q \in DOMAIN pc |-> IF q \in Users THEN "connect" ELSE pc[q]]
  /\ mem' = [mem EXCEPT !.left = [@ EXCEPT !["client1"] = n, !["client2"] = 1]]
  /\ UNCHANGED <<program, chan>>

(* The address family of the program's connections.                                 *)
ConnectBy(c, label) ==
  \/ program = "lat_unix_connect" /\ unix_connect(c, label)
  \/ program # "lat_unix_connect" /\ tcp_connect(c, label)

(* -S: one connection and one request to stop, once the clients are done.           *)
AskToStop(p) ==
  /\ program = p
  /\ \/ /\ Stands("stopper", "main") /\ \A c \in Users : Stands(c, "ended")
        /\ pc' = Move("stopper", "connect") /\ UNCHANGED <<program, mem, chan>>
     \/ Stands("stopper", "connect") /\ ConnectBy("stopper", "stop")
     \/ /\ Stands("stopper", "stop")
        /\ chan' = IF Sock("stopper") = 0 THEN chan
                   ELSE [chan EXCEPT !.conns[Sock("stopper")].control = "stop",
                                     !.conns[Sock("stopper")].client = FALSE]
        /\ pc' = Move("stopper", "ended") /\ UNCHANGED <<program, mem>>

LatConnectMain == StartUsers("lat_connect", BatchSize) \/ AskToStop("lat_connect")
UnixConnectMain == StartUsers("lat_unix_connect", BatchSize) \/ AskToStop("lat_unix_connect")
LatHttpMain == StartUsers("lat_http", 1)
Killhttp == AskToStop("lat_http")

(* The end of one connection of a client: close it and go on with the next.          *)
CloseAndIterate(c) ==
  /\ Stands(c, "close")
  /\ chan' = CloseClient(c) /\ mem' = [mem EXCEPT !.left[c] = @ - 1, !.got[c] = 0]
  /\ pc' = Move(c, "connect") /\ UNCHANGED program

Iterate(c, label) ==
  \/ Stands(c, "connect") /\ mem.left[c] > 0 /\ ConnectBy(c, label)
  \/ /\ Stands(c, "connect") /\ mem.left[c] = 0
     /\ pc' = Move(c, "ended") /\ UNCHANGED <<program, mem, chan>>
  \/ CloseAndIterate(c)

(* An iteration is a connect and a close; nobody looks at what tcp_connect() returns. *)
LatConnectDoclient(c) == program = "lat_connect" /\ Iterate(c, "close")
UnixConnectBenchmark(c) == program = "lat_unix_connect" /\ Iterate(c, "close")

(* http(): send the request, read to the end of file.                                 *)
Http(c) ==
  /\ program = "lat_http"
  /\ \/ Iterate(c, "get")
     \/ /\ Stands(c, "get")
        /\ chan' = IF Sock(c) = 0 THEN chan ELSE [chan EXCEPT !.conns[Sock(c)].control = "get"]
        /\ pc' = Move(c, "read") /\ UNCHANGED <<program, mem>>
     \/ /\ Stands(c, "read") /\ Sock(c) # 0 /\ UNCHANGED <<program, pc>>
        /\ Conn(c).out > 0
        /\ chan' = [chan EXCEPT !.conns[Sock(c)].out = 0]
        /\ mem' = [mem EXCEPT !.got[c] = @ + Conn(c).out]
     \/ /\ Stands(c, "read") /\ ClientEof(c)
        /\ pc' = Move(c, "close") /\ UNCHANGED <<program, mem, chan>>

Serving(s) == chan.accepted[s]
Request(s) == chan.conns[Serving(s)]

(* A process that ends closes the connection it serves, and the last one the queue.    *)
ServerEnds(s, label) ==
  /\ pc' = Move(s, label)
  /\ LET last == \A t \in Servers \ {s} : pc[t] \in {"none", "ended"} IN
       chan' = [chan EXCEPT !.conns = CloseServerSide(@, {Serving(s)} \cup
                                                         (IF last THEN Queued ELSE {}))]
  /\ UNCHANGED <<program, mem>>

CloseAndAccept(s) ==
  /\ chan' = [chan EXCEPT !.conns[Serving(s)].server = "closed", !.body[s] = 0]
  /\ pc' = Move(s, "accept") /\ UNCHANGED <<program, mem>>

NoRequest(s) == Request(s).control = "none" /\ ServerEof(Serving(s))

(* Accept, then wait for a byte or for the end of the connection: any byte, for          *)
(* lat_unix_connect "0", stops the server.                                               *)
AcceptAndRead(p, last) ==
  /\ program = p
  /\ \/ tcp_accept("server", "read")
     \/ Stands("server", "read") /\ Request("server").control = "stop" /\ ServerEnds("server", last)
     \/ Stands("server", "read") /\ NoRequest("server") /\ CloseAndAccept("server")

LatConnectServer ==
  \/ program = "lat_connect" /\ tcp_server("server")
  \/ AcceptAndRead("lat_connect", "ended")

UnixConnectServer ==
  \/ program = "lat_unix_connect" /\ (unix_server("server") \/ unix_done("server"))
  \/ AcceptAndRead("lat_unix_connect", "unlink")

(* lmhttp's main(): the socket is made first, then the processes are forked.             *)
LmhttpMain ==
  /\ program = "lat_http" /\ Stands("server", "main")
  /\ \E forked \in {"accept", "none"} :
       pc' = [Move("server", "accept") EXCEPT !["worker"] = forked]
  /\ UNCHANGED <<program, mem, chan>>

(* source(): nothing came, or no such file: close.  EXIT ends this process.               *)
LmhttpSource(s) ==
  /\ Stands(s, "read")
  /\ \/ NoRequest(s) /\ CloseAndAccept(s)
     \/ Request(s).control = "stop" /\ ServerEnds(s, "ended")
     \/ /\ Request(s).control = "get"
        /\ IF chan.file = "none" THEN CloseAndAccept(s)
           ELSE /\ chan' = [chan EXCEPT !.body[s] = Small]
                /\ pc' = Move(s, chan.file) /\ UNCHANGED <<program, mem>>

HungUp(s) == ~Request(s).client
SendByte(s) ==
  /\ chan.body[s] > 0 /\ ~HungUp(s) /\ Request(s).out < Capacity
  /\ chan' = [chan EXCEPT !.conns[Serving(s)].out = @ + 1, !.body[s] = @ - 1]
  /\ UNCHANGED <<program, pc, mem>>

(* rdwr(): SIGPIPE is ignored, write() returns -1, and the index that becomes             *)
(* negative makes the whole process exit.  Only a failed write of the header, the         *)
(* first one, is an error of the connection.                                              *)
Rdwr(s) ==
  /\ Stands(s, "small")
  /\ \/ SendByte(s)
     \/ chan.body[s] = 0 /\ CloseAndAccept(s)
     \/ chan.body[s] = Small /\ HungUp(s) /\ CloseAndAccept(s)
     \/ chan.body[s] \in 1..(Small - 1) /\ HungUp(s) /\ ServerEnds(s, "ended")

(* MUTANT: the loop ends one byte early.                                                   *)
MmapRdwrShort(s) ==
  /\ Stands(s, "large")
  /\ \/ SendByte(s)
     \/ (chan.body[s] <= 1 \/ HungUp(s)) /\ CloseAndAccept(s)

(* mmap_rdwr(): a write that fails ends the transfer.                                      *)
MmapRdwr(s) ==
  /\ Stands(s, "large")
  /\ \/ SendByte(s)
     \/ (chan.body[s] = 0 \/ HungUp(s)) /\ CloseAndAccept(s)

(* worker(): accept, serve, close.                                                         *)
LmhttpWorker(s) ==
  program = "lat_http" /\ (tcp_accept(s, "read") \/ LmhttpSource(s) \/ Rdwr(s) \/ MmapRdwr(s))

(* Somebody kills the server, or its alarm (GO_AWAY) goes off.                             *)
KillServer(s) ==
  /\ mem.faults > 0 /\ pc[s] \notin {"none", "main", "ended"}
  /\ pc' = Move(s, "ended") /\ mem' = [mem EXCEPT !.faults = @ - 1]
  /\ chan' = [chan EXCEPT !.conns = CloseServerSide(@, {Serving(s)} \cup Queued)]
  /\ UNCHANGED program

SequentialServer ==
  \/ LatConnectServer \/ UnixConnectServer \/ LmhttpMain
  \/ \E s \in Servers : LmhttpWorker(s)

SequentialClient ==
  \/ LatConnectMain \/ UnixConnectMain \/ LatHttpMain \/ Killhttp
  \/ \E c \in Users : LatConnectDoclient(c) \/ UnixConnectBenchmark(c) \/ Http(c)

SequentialNext ==
  /\ program \in SequentialNames
  /\ \/ SequentialServer \/ SequentialClient
     \/ \E c \in Users : KillClient(c)
     \/ program # "lat_http" /\ KillServer("server")

(* lmhttp: a client that read to the end of file got all of the file or nothing, whatever   *)
(* became of the other one: a client that is killed in the middle of its file may take the  *)
(* process that serves it away, and with the last process the queue, but no other file is   *)
(* cut short.                                                                                *)
HttpWhole ==
  \A c \in Users : program = "lat_http" /\ Stands(c, "close") => mem.got[c] \in {0, Small}
=============================================================================
