----------------------------- MODULE CommandPath -----------------------------
(***************************************************************************)
(* The path of a lock command and of its acknowledgement:                  *)
(*                                                                         *)
(*   maint_gui => gateway -> locator -> termd t => terminal t              *)
(*   maint_gui <= gateway <----------------+                               *)
(*                                                                         *)
(* => is a TCP connection (common/tcp_server), -> a System V message queue *)
(* (common/msgq).  Every process runs the loop of common/process: take one *)
(* message from its own queue and handle it, or, when the queue is empty,  *)
(* service its socket in on_idle().  The queues outlive the processes; the *)
(* sockets do not.                                                         *)
(*                                                                         *)
(* A command is the number n of its sending, n = 1, 2, ...; log[n] is the  *)
(* terminal number it carries.  An acknowledgement of n is n again, in the *)
(* gateway's queue or on its socket.                                       *)
(***************************************************************************)
EXTENDS Integers, Sequences, FiniteSets

CONSTANTS
  Terms,      \* terminals, each with a termd of the same name
  Strangers,  \* terminal numbers no termd has registered
  Zeros,      \* those of them that read as the number 0
  MaxTerminals, \* rows of the terminal table
  GW, LOC,    \* the gateway and the locator
  Cap,        \* requests a queue holds: msgmnb / sizeof(IpcLockRequest)
  AckCap,     \* acknowledgements a queue holds: msgmnb / sizeof(IpcLockResponse)
  Batch,      \* complete frames one poll_read() chunk can bring
  SockCap,    \* messages a socket buffers before send() says EAGAIN
  Backlog,    \* connections listen() lets wait
  MaxCmds,    \* bound: commands sent
  MaxKills,   \* bound: processes killed, or failing to start
  MaxCloses   \* bound: connections closed by the terminal side

Servers == {GW} \cup Terms
Procs   == Servers \cup {LOC}

ASSUME PathAssumption ==
  /\ GW # LOC /\ {GW, LOC} \cap Terms = {}
  /\ Terms \cap Strangers = {} /\ Zeros \subseteq Strangers
  /\ {Cap, AckCap, Batch, SockCap, Backlog} \subseteq Nat \ {0}
  /\ {MaxCmds, MaxKills, MaxCloses} \subseteq Nat

VARIABLES
  made,     \* processes whose queue exists
  queue,    \* queue[p]: the messages in p's queue
  pc,       \* pc[p]: where p is in its loop
  hand,     \* hand[p]: messages p has taken and not yet passed on
  table,    \* table[t]: the state of t's row in the terminal table
  pend,     \* pend[p]: connections waiting to be accepted by p
  client,   \* client[p]: p's accepted connection, <<>> when client_fd_ = -1
  peer,     \* peer[p]: the far end of p's connection (GUI side)
  down,     \* down[p]: messages on their way from p to its peer
  log,      \* log[n]: the terminal number of the n-th command sent
  shown,    \* shown[t]: the commands terminal t has displayed
  acked,    \* the acknowledgements maint_gui has received
  kills, closes

net  == <<pend, client, peer, down>>
user == <<log, shown, acked>>
vars == <<made, queue, pc, hand, table, net, user, kills, closes>>

Cmds == 1..MaxCmds

(* A connection as the server's kernel has it: alive while the far end is   *)
(* open, and the commands received and not yet read.                        *)
Sock == [alive : BOOLEAN, up : Seq(Cmds)]

Rows == {"unused", "disconnected", "connected"}

TypeOK ==
  /\ made \subseteq Procs
  /\ queue \in [Procs -> Seq(Cmds)]
  /\ pc \in [Procs -> {"down", "init", "loop", "handle", "forward", "ack", "accepted", "lost"}]
  /\ hand \in [Procs -> Seq(Cmds)]
  /\ table \in [Terms -> Rows]
  /\ pend \in [Servers -> Seq(Sock)]
  /\ client \in [Servers -> Seq(Sock)]
  /\ \A p \in Servers : Len(client[p]) <= 1 /\ Len(pend[p]) <= Backlog + 1
  /\ peer \in [Servers -> {"off", "on", "eof"}]
  /\ down \in [Servers -> Seq(Cmds)]
  /\ log \in Seq(Terms \cup Strangers)
  /\ shown \in [Terms -> Seq(Cmds)]
  /\ acked \in Seq(Cmds)
  /\ kills \in 0..MaxKills
  /\ closes \in 0..MaxCloses

(* The processes in up run, and the peers of the servers in on have been    *)
(* connected and accepted; no command has been sent.                        *)
Started(up, on) ==
  /\ made = up
  /\ queue = [p \in Procs |-> <<>>]
  /\ pc = [p \in Procs |-> IF p \in up THEN "loop" ELSE "down"]
  /\ hand = [p \in Procs |-> <<>>]
  /\ table = [t \in Terms |-> IF t \in on THEN "connected"
                              ELSE IF t \in up THEN "disconnected" ELSE "unused"]
  /\ pend = [p \in Servers |-> <<>>]
  /\ client = [p \in Servers |->
                 IF p \in on THEN <<[alive |-> TRUE, up |-> <<>>]>> ELSE <<>>]
  /\ peer = [p \in Servers |-> IF p \in on THEN "on" ELSE "off"]
  /\ down = [p \in Servers |-> <<>>]
  /\ log = <<>>
  /\ shown = [t \in Terms |-> <<>>]
  /\ acked = <<>>
  /\ kills = 0
  /\ closes = 0

Init == Started({}, {})

Goto(p, loc) == pc' = [pc EXCEPT ![p] = loc]

-----------------------------------------------------------------------------
(* The GUI side of a connection.  At most one of a server's connections is  *)
(* alive: its peer is one program with one socket.                          *)

Write(socks, n) ==
  [i \in DOMAIN socks |->
     IF socks[i].alive THEN [alive |-> TRUE, up |-> Append(socks[i].up, n)]
                       ELSE socks[i]]

(* Commands written stay readable after an orderly close and are discarded  *)
(* after a reset.                                                           *)
Hangup(socks, orderly) ==
  [i \in DOMAIN socks |->
     IF socks[i].alive THEN [alive |-> FALSE, up |-> IF orderly THEN socks[i].up ELSE <<>>]
                       ELSE socks[i]]

(* The three-way handshake is the server kernel's work: it only needs a     *)
(* listening socket with room in its backlog.                               *)
Connect(p) ==
  /\ peer[p] = "off"
  /\ pc[p] # "down"
  /\ Len(pend[p]) <= Backlog
  /\ pend' = [pend EXCEPT ![p] = Append(@, [alive |-> TRUE, up |-> <<>>])]
  /\ peer' = [peer EXCEPT ![p] = "on"]
  /\ UNCHANGED <<made, queue, pc, hand, table, client, down, user, kills, closes>>

(* Mutant: the command is stamped with the last number used.                *)
SendLockOldNumber(to) ==
  /\ Len(log) < MaxCmds
  /\ peer[GW] \in {"on", "eof"}
  /\ log' = Append(log, to)
  /\ pend' = [pend EXCEPT ![GW] = Write(@, Len(log))]
  /\ client' = [client EXCEPT ![GW] = Write(@, Len(log))]
  /\ UNCHANGED <<made, queue, pc, hand, table, peer, down, shown, acked, kills, closes>>

(* The operator sends a lock command.  While the socket still looks         *)
(* connected the write succeeds, even if the gateway has closed its end.    *)
SendLock(to) ==
  /\ Len(log) < MaxCmds
  /\ peer[GW] \in {"on", "eof"}
  /\ log' = Append(log, to)
  /\ pend' = [pend EXCEPT ![GW] = Write(@, Len(log) + 1)]
  /\ client' = [client EXCEPT ![GW] = Write(@, Len(log) + 1)]
  /\ UNCHANGED <<made, queue, pc, hand, table, peer, down, shown, acked, kills, closes>>

(* readyRead in a terminal: the command is displayed.                       *)
TerminalRead(t) ==
  /\ peer[t] \in {"on", "eof"}
  /\ down[t] # <<>>
  /\ down' = [down EXCEPT ![t] = Tail(@)]
  /\ shown' = [shown EXCEPT ![t] = Append(@, Head(down[t]))]
  /\ UNCHANGED <<made, queue, pc, hand, table, pend, client, peer, log, acked, kills, closes>>

(* readyRead in maint_gui: the acknowledgement is displayed.                *)
MaintRead ==
  /\ peer[GW] \in {"on", "eof"}
  /\ down[GW] # <<>>
  /\ down' = [down EXCEPT ![GW] = Tail(@)]
  /\ acked' = Append(acked, Head(down[GW]))
  /\ UNCHANGED <<made, queue, pc, hand, table, pend, client, peer, log, shown, kills, closes>>

(* The GUI goes away or loses its network.                                  *)
PeerClose(p) ==
  /\ closes < MaxCloses
  /\ closes' = closes + 1
  /\ peer[p] = "on"
  /\ peer' = [peer EXCEPT ![p] = "off"]
  /\ down' = [down EXCEPT ![p] = <<>>]
  /\ \E orderly \in BOOLEAN :
       /\ pend' = [pend EXCEPT ![p] = Hangup(@, orderly)]
       /\ client' = [client EXCEPT ![p] = Hangup(@, orderly)]
  /\ UNCHANGED <<made, queue, pc, hand, table, user, kills>>

(* onDisconnected after the server closed: what was not read yet is lost.   *)
PeerNotice(p) ==
  /\ peer[p] = "eof"
  /\ peer' = [peer EXCEPT ![p] = "off"]
  /\ down' = [down EXCEPT ![p] = <<>>]
  /\ UNCHANGED <<made, queue, pc, hand, table, pend, client, user, kills, closes>>

-----------------------------------------------------------------------------
(* Process::init() and on_init(): open the queue and the listening socket,  *)
(* then register in the terminal table.  A row that exists is left as it is.*)

(* Mutant: the queue is created with IPC_EXCL.                              *)
StartExclusive(p) ==
  /\ pc[p] = "down"
  /\ p \notin made
  /\ Goto(p, "init")
  /\ made' = made \cup {p}
  /\ UNCHANGED <<queue, hand, table, net, user, kills, closes>>

Start(p) ==
  /\ pc[p] = "down"
  /\ Goto(p, "init")
  /\ made' = made \cup {p}
  /\ UNCHANGED <<queue, hand, table, net, user, kills, closes>>

(* Rows never used hold the terminal number 0.                              *)
FreeRow == Cardinality({t \in Terms : table[t] # "unused"}) < MaxTerminals

(* Mutant: an existing row is initialised again.                            *)
ReadyAnew(p) ==
  /\ pc[p] = "init"
  /\ p \in Terms /\ table[p] = "unused" => FreeRow
  /\ Goto(p, "loop")
  /\ table' = [t \in Terms |-> IF t = p THEN "disconnected" ELSE table[t]]
  /\ UNCHANGED <<made, queue, hand, net, user, kills, closes>>

Ready(p) ==
  /\ pc[p] = "init"
  /\ p \in Terms /\ table[p] = "unused" => FreeRow
  /\ Goto(p, "loop")
  /\ table' = [t \in Terms |->
                 IF t = p /\ table[t] = "unused" THEN "disconnected" ELSE table[t]]
  /\ UNCHANGED <<made, queue, hand, net, user, kills, closes>>

(* The process is gone: its sockets close, and its peer is to notice.       *)
SocketsClose(p) ==
  /\ pend' = [q \in Servers |-> IF q = p THEN <<>> ELSE pend[q]]
  /\ client' = [q \in Servers |-> IF q = p THEN <<>> ELSE client[q]]
  /\ peer' = [q \in Servers |-> IF q = p /\ peer[q] = "on" THEN "eof" ELSE peer[q]]

(* on_init() fails (the port is taken, the table cannot be opened or is     *)
(* full) and main() returns: the destructor removes the queue, with all     *)
(* that a predecessor left in it.                                           *)
InitFail(p) ==
  /\ kills < MaxKills
  /\ kills' = kills + 1
  /\ pc[p] = "init"
  /\ Goto(p, "down")
  /\ made' = made \ {p}
  /\ queue' = [queue EXCEPT ![p] = <<>>]
  /\ SocketsClose(p)
  /\ UNCHANGED <<hand, table, down, user, closes>>

(* kill -9, or any death that runs no destructor: the queue stays, with     *)
(* everything in it; the message in hand and the sockets go.                *)
Kill(p) ==
  /\ kills < MaxKills
  /\ kills' = kills + 1
  /\ pc[p] # "down"
  /\ Goto(p, "down")
  /\ hand' = [hand EXCEPT ![p] = <<>>]
  /\ SocketsClose(p)
  /\ UNCHANGED <<made, queue, table, down, user, closes>>

(* Mutant: msgsnd() with IPC_NOWAIT.                                        *)
EnqueueOrDrop(q, n, cap) ==
  queue' = IF Len(queue[q]) < cap THEN [queue EXCEPT ![q] = Append(@, n)] ELSE queue

(* MsgQueue::send(): blocks while the queue is full.                        *)
Enqueue(q, n, cap) ==
  /\ Len(queue[q]) < cap
  /\ queue' = [queue EXCEPT ![q] = Append(@, n)]

(* Process::send_to(): without a queue to open the message is dropped.      *)
SendTo(q, n, cap) ==
  IF q \in made THEN Enqueue(q, n, cap) ELSE UNCHANGED queue

(* run(): recv_timeout() returned a message, and dispatch() is to handle it.*)
Recv(p) ==
  /\ pc[p] = "loop"
  /\ queue[p] # <<>>
  /\ queue' = [queue EXCEPT ![p] = Tail(@)]
  /\ hand' = [hand EXCEPT ![p] = <<Head(queue[p])>>]
  /\ Goto(p, "handle")
  /\ UNCHANGED <<made, table, net, user, kills, closes>>

(* Mutant: send() gives up on EAGAIN.                                       *)
TcpSendNoRetry(p, n) ==
  /\ down' = IF client[p][1].alive /\ Len(down[p]) < SockCap
               THEN [down EXCEPT ![p] = Append(@, n)] ELSE down
  /\ client' \in {client} \cup
       (IF client[p][1].alive THEN {} ELSE {[client EXCEPT ![p] = <<>>]})

(* TcpServer::send() on the accepted connection, spinning while the socket  *)
(* is full.  When the far end has gone the bytes vanish, or the error drops *)
(* the client.                                                              *)
TcpSend(p, n) ==
  LET sock == client[p][1]
  IN  \/ /\ sock.alive
         /\ Len(down[p]) < SockCap
         /\ down' = [down EXCEPT ![p] = Append(@, n)]
         /\ UNCHANGED client
      \/ /\ ~sock.alive
         /\ client' \in {client, [client EXCEPT ![p] = <<>>]}
         /\ UNCHANGED down

(* Send to the client if there is one, else drop.                           *)
Reply(p, n) ==
  IF client[p] # <<>> THEN TcpSend(p, n) ELSE UNCHANGED <<client, down>>

(* How many complete frames one poll_read() may return.                     *)
Chunk(unread) == {n \in 1..Batch : n <= Len(unread)}

(* Gateway::on_idle(), run when the queue is empty: accept a waiting        *)
(* connection in place of the old one, whose unread bytes go with it, then  *)
(* read one chunk from the client or notice that it has gone.               *)
GatewayIdle ==
  /\ pc[GW] = "loop"
  /\ queue[GW] = <<>>
  /\ LET accepts == pend[GW] # <<>>
         now     == IF accepts THEN <<Head(pend[GW])>> ELSE client[GW]
         unread  == IF now = <<>> THEN <<>> ELSE now[1].up
         gone    == now # <<>> /\ unread = <<>> /\ ~now[1].alive
     IN  /\ accepts \/ gone \/ unread # <<>>
         /\ pend' = IF accepts THEN [pend EXCEPT ![GW] = Tail(@)] ELSE pend
         /\ IF unread # <<>>
              THEN /\ \E n \in Chunk(unread) :
                        /\ hand' = [hand EXCEPT ![GW] = SubSeq(unread, 1, n)]
                        /\ client' = [client EXCEPT ![GW] =
                             <<[alive |-> now[1].alive,
                                up    |-> SubSeq(unread, n + 1, Len(unread))]>>]
                   /\ Goto(GW, "forward")
              ELSE /\ client' = [client EXCEPT ![GW] = IF gone THEN <<>> ELSE now]
                   /\ UNCHANGED <<hand, pc>>
  /\ UNCHANGED <<made, queue, table, peer, down, user, kills, closes>>

(* A terminal sends nothing: what a termd may read is that it has gone.     *)
Gone(t) == client[t] # <<>> /\ ~client[t][1].alive

(* Termd::on_idle(): accept a waiting connection in place of the old one,   *)
(* or else find that the client has gone.  The table follows in a step of   *)
(* its own, once the lock is had.                                           *)
TermdIdle(t) ==
  /\ pc[t] = "loop"
  /\ queue[t] = <<>>
  /\ \/ /\ pend[t] # <<>>
        /\ client' = [client EXCEPT ![t] = <<Head(pend[t])>>]
        /\ pend' = [pend EXCEPT ![t] = Tail(@)]
        /\ Goto(t, "accepted")
     \/ /\ pend[t] = <<>>
        /\ Gone(t)
        /\ client' = [client EXCEPT ![t] = <<>>]
        /\ Goto(t, "lost")
        /\ UNCHANGED pend
  /\ UNCHANGED <<made, queue, hand, table, peer, down, user, kills, closes>>

(* Mutant: set_state() is called only when the connection is lost.          *)
ReportUpForgotten(t) ==
  /\ pc[t] = "accepted"
  /\ IF Gone(t)
       THEN client' = [client EXCEPT ![t] = <<>>] /\ Goto(t, "lost")
       ELSE UNCHANGED client /\ Goto(t, "loop")
  /\ UNCHANGED <<made, queue, hand, table, pend, peer, down, user, kills, closes>>

(* set_state(CONNECTED), and the read that follows in the same on_idle().   *)
ReportUp(t) ==
  /\ pc[t] = "accepted"
  /\ table' = [table EXCEPT ![t] = "connected"]
  /\ IF Gone(t)
       THEN client' = [client EXCEPT ![t] = <<>>] /\ Goto(t, "lost")
       ELSE UNCHANGED client /\ Goto(t, "loop")
  /\ UNCHANGED <<made, queue, hand, pend, peer, down, user, kills, closes>>

(* set_state(DISCONNECTED).                                                 *)
ReportDown(t) ==
  /\ pc[t] = "lost"
  /\ table' = [table EXCEPT ![t] = "disconnected"]
  /\ Goto(t, "loop")
  /\ UNCHANGED <<made, queue, hand, net, user, kills, closes>>

(* Mutant: the chunk is forwarded from its end.                             *)
GatewayForwardLast ==
  LET last == Len(hand[GW])
  IN  /\ pc[GW] = "forward"
      /\ SendTo(LOC, hand[GW][last], Cap)
      /\ hand' = [hand EXCEPT ![GW] = SubSeq(@, 1, last - 1)]
      /\ Goto(GW, IF last = 1 THEN "loop" ELSE "forward")
      /\ UNCHANGED <<made, table, net, user, kills, closes>>

(* Gateway::handle_from_maint() for the next complete frame of the chunk.   *)
GatewayForward ==
  /\ pc[GW] = "forward"
  /\ SendTo(LOC, Head(hand[GW]), Cap)
  /\ hand' = [hand EXCEPT ![GW] = Tail(@)]
  /\ Goto(GW, IF Len(hand[GW]) = 1 THEN "loop" ELSE "forward")
  /\ UNCHANGED <<made, table, net, user, kills, closes>>

(* Gateway::on_lock_response().                                             *)
GatewayRespond ==
  /\ pc[GW] = "handle"
  /\ Reply(GW, Head(hand[GW]))
  /\ hand' = [hand EXCEPT ![GW] = <<>>]
  /\ Goto(GW, "loop")
  /\ UNCHANGED <<made, queue, table, pend, peer, user, kills, closes>>

(* Locator::resolve(): the processes a terminal number leads to, one or     *)
(* none.  The number 0 is found in a free row and makes 3000 + 0 - 1000,    *)
(* the index of the locator itself.                                         *)
Resolve(to) ==
  {p \in Procs : \/ p = to /\ to \in Terms /\ table[to] # "unused"
                 \/ p = LOC /\ to \in Zeros /\ FreeRow}

(* Mutant: the locator may send the command again.                          *)
LocatorRouteRepeats ==
  /\ pc[LOC] = "handle"
  /\ LET n  == Head(hand[LOC])
         to == Resolve(log[n])
     IN  \/ \E p \in to : SendTo(p, n, Cap)
         \/ to = {} /\ UNCHANGED queue
  /\ \/ hand' = [hand EXCEPT ![LOC] = <<>>] /\ Goto(LOC, "loop")
     \/ UNCHANGED <<hand, pc>>
  /\ UNCHANGED <<made, table, net, user, kills, closes>>

(* Locator::on_lock_request(): an unknown terminal's command is dropped.    *)
LocatorRoute ==
  /\ pc[LOC] = "handle"
  /\ LET n  == Head(hand[LOC])
         to == Resolve(log[n])
     IN  \/ \E p \in to : SendTo(p, n, Cap)
         \/ to = {} /\ UNCHANGED queue
  /\ hand' = [hand EXCEPT ![LOC] = <<>>]
  /\ Goto(LOC, "loop")
  /\ UNCHANGED <<made, table, net, user, kills, closes>>

(* Termd::on_lock_request(), first half: to the terminal, if it is there.   *)
TermdDeliver(t) ==
  /\ pc[t] = "handle"
  /\ Reply(t, Head(hand[t]))
  /\ Goto(t, "ack")
  /\ UNCHANGED <<made, queue, hand, table, pend, peer, user, kills, closes>>

(* Mutant: the acknowledgement may be sent again.                           *)
TermdAckRepeats(t) ==
  /\ pc[t] = "ack"
  /\ SendTo(GW, Head(hand[t]), AckCap)
  /\ \/ hand' = [hand EXCEPT ![t] = <<>>] /\ Goto(t, "loop")
     \/ UNCHANGED <<hand, pc>>
  /\ UNCHANGED <<made, table, net, user, kills, closes>>

(* Second half: the acknowledgement, whatever became of the first.          *)
TermdAck(t) ==
  /\ pc[t] = "ack"
  /\ SendTo(GW, Head(hand[t]), AckCap)
  /\ hand' = [hand EXCEPT ![t] = <<>>]
  /\ Goto(t, "loop")
  /\ UNCHANGED <<made, table, net, user, kills, closes>>

-----------------------------------------------------------------------------
(* What a process does by itself once started.                              *)
Gateway  == Recv(GW) \/ GatewayIdle \/ GatewayForward \/ GatewayRespond
Locator  == Recv(LOC) \/ LocatorRoute
Termd(t) == \/ Recv(t) \/ TermdDeliver(t) \/ TermdAck(t)
            \/ TermdIdle(t) \/ ReportUp(t) \/ ReportDown(t)

Work == Gateway \/ Locator \/ \E t \in Terms : Termd(t)

Operator == \E to \in Terms \cup Strangers : SendLock(to)

Gui == \/ MaintRead
       \/ \E t \in Terms : TerminalRead(t)
       \/ \E p \in Servers : Connect(p) \/ PeerClose(p) \/ PeerNotice(p)

Faults == \E p \in Procs : Start(p) \/ Ready(p) \/ InitFail(p) \/ Kill(p)

Next == Work \/ Operator \/ Gui \/ Faults

Spec == Init /\ [][Next]_vars

(* The processes keep running what they have begun, the kernel delivers      *)
(* what a socket holds, and a GUI notices that its server has gone.         *)
Fairness ==
  /\ \A p \in Procs : WF_vars(Recv(p))
  /\ WF_vars(GatewayForward) /\ WF_vars(GatewayRespond) /\ WF_vars(LocatorRoute)
  /\ \A t \in Terms : WF_vars(TermdDeliver(t)) /\ WF_vars(TermdAck(t))
  /\ WF_vars(GatewayIdle)
  /\ \A t \in Terms : WF_vars(TermdIdle(t)) /\ WF_vars(ReportUp(t)) /\ WF_vars(ReportDown(t))
  /\ WF_vars(MaintRead) /\ \A t \in Terms : WF_vars(TerminalRead(t))
  /\ \A p \in Servers : WF_vars(PeerNotice(p))

(* A system that is up: every process runs, every GUI is connected; and a   *)
(* supervisor starts dead processes again.                                  *)
SpecUp == Started(Procs, Servers) /\ [][Next]_vars /\ Fairness

SpecSupervised == SpecUp /\ \A p \in Procs : WF_vars(Start(p)) /\ WF_vars(Ready(p))

(* A system that is up, in which only termds die and nobody restarts them.  *)
TermdDies == Work \/ Operator \/ Gui \/ \E t \in Terms : Kill(t)

SpecTermdDies == Started(Procs, Servers) /\ [][TermdDies]_vars /\ Fairness

(* No faults, and no terminal connected: commands and acknowledgements only.*)
SpecLoad == Started(Procs, {GW}) /\ [][Work \/ Operator]_vars

-----------------------------------------------------------------------------
Increasing(s) == \A i, j \in DOMAIN s : i < j => s[i] < s[j]

(* A terminal displays only commands that carry its own number, in the      *)
(* order they were sent, and none twice, although queues survive kills and  *)
(* connections are replaced (ADR-0007: one queue per process).              *)
ShownInOrder ==
  \A t \in Terms :
    /\ Increasing(shown[t])
    /\ \A i \in DOMAIN shown[t] : log[shown[t][i]] = t

(* maint_gui sees at most one acknowledgement of a command, and those of    *)
(* one terminal's commands in the order of the commands.                    *)
AckedInOrder ==
  \A i, j \in DOMAIN acked :
    i < j => /\ acked[i] # acked[j]
             /\ log[acked[i]] = log[acked[j]] => acked[i] < acked[j]

(* A termd that has an accepted connection, and is past the set_state()     *)
(* that follows the accept, is "connected" in the table                     *)
(* (termd/main.cpp:65-72): a terminal in reach is never reported away.      *)
ClientIsReported ==
  \A t \in Terms :
    client[t] # <<>> /\ pc[t] # "accepted" => table[t] = "connected"

(* proto.h:48: the response is "sent back after a lock command has been     *)
(* carried out".  As long as nobody is killed, a command acknowledged to    *)
(* the operator has been displayed or is in the socket of its terminal.     *)
AckMeansDelivered ==
  kills = 0 => \A i \in DOMAIN acked :
    LET t == log[acked[i]]
    IN  \E j \in DOMAIN (shown[t] \o down[t]) : (shown[t] \o down[t])[j] = acked[i]

(* Gateway, locator and a termd wait for one another in a circle, each      *)
(* blocked in msgsnd() on a full queue that the next would drain.           *)
CircularWait ==
  \E t \in Terms :
    /\ pc[GW] = "forward" /\ Len(queue[LOC]) = Cap
    /\ pc[LOC] = "handle" /\ log[Head(hand[LOC])] = t /\ Len(queue[t]) = Cap
    /\ pc[t] = "ack"      /\ Len(queue[GW]) = AckCap

NoCircularWait == ~CircularWait

Sent(n)      == n \in DOMAIN log /\ log[n] \in Terms
Displayed(n) == Sent(n) /\ \E i \in DOMAIN shown[log[n]] : shown[log[n]][i] = n
Confirmed(n) == \E i \in DOMAIN acked : acked[i] = n

(* Commands sent to connected terminals all appear there once the operator  *)
(* pauses, unless a process is killed with one in hand or in its sockets,   *)
(* or the path stops in the circular wait that NoCircularWait is about.     *)
EveryCommandShown ==
  []<>(kills > 0 \/ CircularWait \/ \A n \in Cmds : Sent(n) => Displayed(n))

(* Every such command is acknowledged to the operator.                      *)
EveryCommandAcked ==
  []<>(kills > 0 \/ CircularWait \/ \A n \in Cmds : Sent(n) => Confirmed(n))

(* Whatever is killed, once processes are started again nothing stays in a  *)
(* queue or in a process for ever, but for that one circle: no other set of *)
(* processes ever waits on itself.                                          *)
PathDrains ==
  []<>(CircularWait \/ \A p \in Procs : queue[p] = <<>> /\ hand[p] = <<>>)

(* ADR-0007, verification: killing one termd does not affect commands to    *)
(* the other terminals.                                                     *)
OthersUnaffected ==
  \A n \in Cmds :
    <>Sent(n) => <>(Sent(n) /\ (Displayed(n) \/ client[log[n]] = <<>>))
=============================================================================
