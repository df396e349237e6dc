--------------------------- MODULE ForkingServers ---------------------------
(***************************************************************************)
(* lat_tcp and bw_tcp: a server that forks a handler for every connection     *)
(* and waits for the dead ones in sigchld_wait_handler(), and -S, a client     *)
(* whose handler ends the server.                                              *)
(***************************************************************************)
EXTENDS StreamSockets

ForkingNames == {"lat_tcp", "bw_tcp"}
ForkingInit == SocketInit(ForkingNames, {"server"}) /\ chan = EmptyChannels

(* "make the number of bytes to move a multiple of the message size"             *)
RoundTcp(move, msize) ==
  IF move % msize # 0 THEN move + (msize - (move % msize)) ELSE move

(* The arguments of the clients: message sizes and bytes to move.                 *)
Arguments(p, msize, move) ==
  /\ program = p /\ \A c \in Clients : Stands(c, "main")
  /\ pc' = [q \in DOMAIN pc |-> IF q \in Users THEN "connect" ELSE pc[q]]
  /\ mem' = [mem EXCEPT !.msize = msize, !.move = move,
               !.left = [c \in Clients |-> IF c \in Users THEN 1 ELSE 0]]
  /\ UNCHANGED <<program, chan>>

(* The -S run comes once the clients are done (scripts/lmbench); bw_tcp's sends "0". *)
Stop(p, control) ==
  /\ program = p
  /\ \/ /\ Stands("stopper", "main") /\ \A c \in Users : Stands(c, "ended")
        /\ pc' = Move("stopper", "connect") /\ UNCHANGED <<program, mem, chan>>
     \/ Stands("stopper", "connect") /\ tcp_connect("stopper", "stop")
     \/ /\ Stands("stopper", "stop")
        /\ chan' = IF Sock("stopper") = 0 THEN chan
                   ELSE [chan EXCEPT !.conns[Sock("stopper")].control = control,
                                     !.conns[Sock("stopper")].client = FALSE]
        /\ pc' = Move("stopper", "ended") /\ UNCHANGED <<program, mem>>

LatTcpMain == (\E msize \in 1..2 : Arguments("lat_tcp", msize, msize)) \/ Stop("lat_tcp", "none")
BwTcpMain ==
  \/ \E msize, move \in 1..2 : Arguments("bw_tcp", msize, RoundTcp(move, msize))
  \/ Stop("bw_tcp", "stop")

SendSize(c) ==
  /\ chan' = IF Sock(c) = 0 THEN chan ELSE [chan EXCEPT !.conns[Sock(c)].control = "size"]
  /\ pc' = Move(c, "run")
  /\ UNCHANGED <<program, mem>>

(* lat_tcp does not look at what tcp_connect() returns, bw_tcp does.                *)
LatTcpInit(c) ==
  /\ program = "lat_tcp"
  /\ \/ Stands(c, "connect") /\ tcp_connect(c, "size")
     \/ Stands(c, "size") /\ SendSize(c)

BwTcpInitialize(c) ==
  /\ program = "bw_tcp"
  /\ \/ Stands(c, "connect") /\ tcp_connect(c, "size")
     \/ Stands(c, "size") /\ Sock(c) # 0 /\ SendSize(c)
     \/ /\ Stands(c, "size") /\ Sock(c) = 0
        /\ pc' = Move(c, "ended") /\ UNCHANGED <<program, mem, chan>>

Iterated(c) == [mem EXCEPT !.left[c] = @ - 1]

(* doclient(): write and read, the results of neither looked at.  Without a          *)
(* connection both fail at once; on one the server has closed the write kills the    *)
(* client (SIGPIPE) or is lost and the read returns 0.                               *)
LatTcpDoclient(c) ==
  /\ program = "lat_tcp" /\ UNCHANGED program
  /\ \/ /\ Stands(c, "run") /\ mem.left[c] = 0
        /\ pc' = Move(c, "close") /\ UNCHANGED <<mem, chan>>
     \/ /\ Stands(c, "run") /\ mem.left[c] > 0
        /\ \/ /\ Sock(c) # 0 /\ Conn(c).server # "closed"
              /\ chan' = [chan EXCEPT !.conns[Sock(c)].in = @ + mem.msize]
              /\ pc' = Move(c, "reply")
           \/ Sock(c) # 0 /\ Conn(c).server = "closed" /\ pc' = Move(c, "ended") /\ UNCHANGED chan
           \/ ClientEof(c) /\ pc' = Move(c, "reply") /\ UNCHANGED chan
        /\ UNCHANGED mem
     \/ /\ Stands(c, "reply")
        /\ \/ /\ Sock(c) # 0
              /\ \E n \in 1..mem.msize :
                   /\ n <= Conn(c).out
                   /\ chan' = [chan EXCEPT !.conns[Sock(c)].out = @ - n]
           \/ ClientEof(c) /\ UNCHANGED chan
        /\ mem' = Iterated(c) /\ pc' = Move(c, "run")

(* loop_transfer(): each iteration reads move bytes; end of file is exit(1).          *)
LoopTransfer(c) ==
  /\ program = "bw_tcp" /\ UNCHANGED program
  /\ \/ /\ Stands(c, "run") /\ mem.left[c] = 0
        /\ pc' = Move(c, "close") /\ UNCHANGED <<mem, chan>>
     \/ /\ Stands(c, "run") /\ mem.left[c] > 0
        /\ mem' = [mem EXCEPT !.todo[c] = mem.move]
        /\ pc' = Move(c, "read") /\ UNCHANGED chan
     \/ /\ Stands(c, "read")
        /\ \E n \in 1..mem.msize :
             /\ n <= Conn(c).out
             /\ chan' = [chan EXCEPT !.conns[Sock(c)].out = @ - n]
             /\ IF n < mem.todo[c]
                THEN mem' = [mem EXCEPT !.todo[c] = @ - n] /\ UNCHANGED pc
                ELSE mem' = [Iterated(c) EXCEPT !.todo[c] = 0] /\ pc' = Move(c, "run")
     \/ /\ Stands(c, "read") /\ ClientEof(c)
        /\ pc' = Move(c, "ended") /\ UNCHANGED <<mem, chan>>

Close(c) ==
  /\ Stands(c, "close")
  /\ chan' = CloseClient(c) /\ pc' = Move(c, "ended")
  /\ UNCHANGED <<program, mem>>

LatTcpCleanup(c) == program = "lat_tcp" /\ Close(c)
BwTcpCleanup(c) == program = "bw_tcp" /\ Close(c)

(* server_main(): when fork() fails the connection is neither served nor closed.     *)
AcceptAndFork(p) ==
  /\ program = p
  /\ \/ tcp_server("server")
     \/ tcp_accept("server", "fork")
     \/ /\ Stands("server", "fork")
        /\ \/ /\ chan' = [chan EXCEPT !.conns[chan.accepted["server"]].handler = "control"]
              /\ UNCHANGED mem
           \/ /\ mem.faults > 0 /\ mem' = [mem EXCEPT !.faults = @ - 1]
              /\ UNCHANGED chan
        /\ pc' = Move("server", "accept") /\ UNCHANGED program

LatTcpServer == AcceptAndFork("lat_tcp")
BwTcpServer == AcceptAndFork("bw_tcp")

ServerAlive == pc["server"] \notin {"main", "ended"}

(* What the server held is closed when it ends: the queue, and the connections that   *)
(* no handler has.                                                                     *)
ServerHeld(conns) ==
  {i \in DOMAIN conns : conns[i].server = "queued" \/ (conns[i].server = "open"
                                                        /\ conns[i].handler = "none")}

HandlerExit(i) == [chan.conns EXCEPT ![i].handler = "gone", ![i].server = "closed"]

(* Handler i exits: its end of the connection is closed, and its parent, if it still   *)
(* lives, gets a SIGCHLD; two that come close together are one.                        *)
HandlerEnds(i) ==
  /\ chan' = [chan EXCEPT !.conns = HandlerExit(i)]
  /\ mem' = IF ServerAlive THEN [mem EXCEPT !.zombies = @ + 1, !.pending = TRUE] ELSE mem
  /\ UNCHANGED <<program, pc>>

(* kill(getppid(), SIGTERM); exit(0).  When the server is gone already the parent is    *)
(* init.                                                                                *)
ShutDown(i) ==
  /\ UNCHANGED program
  /\ IF ServerAlive
     THEN /\ pc' = Move("server", "ended")
          /\ chan' = [chan EXCEPT !.conns = CloseServerSide(HandlerExit(i), ServerHeld(chan.conns))]
          /\ mem' = [mem EXCEPT !.zombies = 0, !.pending = FALSE]
     ELSE /\ chan' = [chan EXCEPT !.conns = HandlerExit(i)]
          /\ mem' = [mem EXCEPT !.killed = @ \cup {"init"}]
          /\ UNCHANGED pc

Control(i) == chan.conns[i].handler = "control"
ReadControl(i) ==
  /\ Control(i) /\ chan.conns[i].control = "size"
  /\ chan' = [chan EXCEPT !.conns[i].control = "none", !.conns[i].handler = "serve"]
  /\ UNCHANGED <<program, pc, mem>>
NoControl(i) == Control(i) /\ ServerEof(i) /\ chan.conns[i].control = "none"

(* MUTANT: the end of any connection is taken for a request to shut down.                 *)
LastReadStops(i) == chan.conns[i].handler = "serve" /\ ServerEof(i) /\ ShutDown(i)
LastRead(i) == chan.conns[i].handler = "serve" /\ ServerEof(i) /\ HandlerEnds(i)

(* doserver(): read up to msize bytes, write msize bytes, however many were read; a      *)
(* connection that ends before the size came is a request to shut down.                  *)
Doserver(i) ==
  /\ program = "lat_tcp"
  /\ \/ ReadControl(i)
     \/ NoControl(i) /\ ShutDown(i)
     \/ /\ chan.conns[i].handler = "serve"
        /\ \E n \in 1..mem.msize :
             /\ n <= chan.conns[i].in
             /\ chan' = [chan EXCEPT !.conns[i].in = @ - n, !.conns[i].out = @ + mem.msize]
        /\ UNCHANGED <<program, pc, mem>>
     \/ LastRead(i)

(* source(): "0" is a request to shut down, nothing at all is exit(7); then write until   *)
(* the client is gone.                                                                    *)
Source(i) ==
  /\ program = "bw_tcp"
  /\ \/ ReadControl(i)
     \/ Control(i) /\ chan.conns[i].control = "stop" /\ ShutDown(i)
     \/ NoControl(i) /\ HandlerEnds(i)
     \/ /\ chan.conns[i].handler = "serve"
        /\ IF ~chan.conns[i].client THEN HandlerEnds(i)
           ELSE /\ chan.conns[i].out < Capacity
                /\ chan' = [chan EXCEPT !.conns[i].out = @ + 1]
                /\ UNCHANGED <<program, pc, mem>>

(* MUTANT: signal() before wait(), where System V sends SIGCHLD again for a child that is  *)
(* dead already.                                                                            *)
sigchld_wait_handlerEarly ==
  /\ program \in ForkingNames /\ ServerAlive /\ mem.pending
  /\ mem' = [mem EXCEPT !.pending = mem.zombies > 0, !.zombies = IF @ = 0 THEN 0 ELSE @ - 1]
  /\ UNCHANGED <<program, pc, chan>>

(* sigchld_wait_handler(): one wait() for each delivery of the signal.  It would block     *)
(* the server if no handler were dead and one were alive.                                  *)
sigchld_wait_handler ==
  /\ program \in ForkingNames /\ ServerAlive /\ mem.pending
  /\ mem' = [mem EXCEPT !.pending = FALSE, !.zombies = IF @ = 0 THEN 0 ELSE @ - 1]
  /\ UNCHANGED <<program, pc, chan>>

(* GO_AWAY: SIGALRM ends the server after an hour, whatever it does.  The handlers have no   *)
(* alarm: fork() does not hand it down.                                                       *)
GoAway ==
  /\ program \in ForkingNames /\ ServerAlive /\ UNCHANGED program
  /\ pc' = Move("server", "ended")
  /\ chan' = [chan EXCEPT !.conns = CloseServerSide(@, ServerHeld(@))]
  /\ mem' = [mem EXCEPT !.zombies = 0, !.pending = FALSE, !.alarm = TRUE]

ForkingClient(c) ==
  \/ LatTcpInit(c) \/ LatTcpDoclient(c) \/ LatTcpCleanup(c)
  \/ BwTcpInitialize(c) \/ LoopTransfer(c) \/ BwTcpCleanup(c)

ForkingServer == LatTcpServer \/ BwTcpServer
ForkingHandler(i) == i \in DOMAIN chan.conns /\ (Doserver(i) \/ Source(i))

ForkingNext ==
  /\ program \in ForkingNames
  /\ \/ LatTcpMain \/ BwTcpMain
     \/ \E c \in Users : ForkingClient(c)
     \/ ForkingServer
     \/ \E i \in DOMAIN chan.conns : Doserver(i) \/ Source(i)
     \/ sigchld_wait_handler \/ GoAway
     \/ \E c \in Users : KillClient(c)

(* wait() in the signal handler finds a child that is dead: it never blocks the server.    *)
WaitNeverBlocks ==
  program \in ForkingNames /\ mem.pending => mem.zombies > 0

(* What ends the server is its alarm, a -S run or, with lat_tcp, a client that dies before  *)
(* its size was written: its handler reads the end of file and takes that for the request to  *)
(* stop.  No other death, no close, no failing fork and no signal does it.                     *)
ServerSurvives ==
  program \in ForkingNames /\ Stands("server", "ended") =>
    \/ mem.alarm
    \/ pc["stopper"] = "ended" /\ mem.sock["stopper"] # 0
    \/ program = "lat_tcp" /\ mem.silent # {}
=============================================================================
