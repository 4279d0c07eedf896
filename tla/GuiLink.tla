------------------------------- MODULE GuiLink -------------------------------
(***************************************************************************)
(* The connection of a GUI (term_gui, maint_gui) to its server (termd,     *)
(* gateway): the worker thread's socket and its reconnect timer, the       *)
(* signals queued for the window's thread, and the one client slot of the  *)
(* server.  More than one GUI may be pointed at a server.                  *)
(*                                                                         *)
(* The socket is Qt's.  Qt emits connected() and disconnected() as a       *)
(* connection comes up and goes; a connectToHost() that fails makes the    *)
(* socket unconnected again and emits neither.                             *)
(***************************************************************************)
EXTENDS Integers, Sequences, SequencesExt

CONSTANTS
  Guis,       \* GUI programs pointed at this server
  Backlog,    \* connections listen() lets wait
  MaxSignals, \* bound: signals queued for a window
  MaxFaults   \* bound: broken links, dropped clients, dying servers and GUIs

ASSUME LinkAssumption == {Backlog, MaxSignals, MaxFaults} \subseteq Nat

VARIABLES
  sock,       \* each worker's socket_->state(), "none" before start()
  timers,     \* single-shot timers armed in each worker
  toGui,      \* linkStateChanged signals queued for each window, oldest first
  label,      \* what each window says: connected or not
  refused,    \* history: the worker's last attempt failed
  listening,  \* the server runs
  slots,      \* its connections: the accepted one, then those waiting
  accepted,   \* whether the first of them is accepted: client_fd_ >= 0
  faults

vars == <<sock, timers, toGui, label, refused, listening, slots, accepted, faults>>

(* A connection as the server's kernel holds it: whose it is, and whether   *)
(* that GUI still has its end open.                                         *)
Conn == [gui : Guis, open : BOOLEAN]

TypeOK ==
  /\ sock \in [Guis -> {"none", "unconnected", "connecting", "connected"}]
  /\ timers \in [Guis -> Nat]
  /\ toGui \in [Guis -> Seq(BOOLEAN)]
  /\ label \in [Guis -> BOOLEAN]
  /\ refused \in [Guis -> BOOLEAN]
  /\ listening \in BOOLEAN
  /\ slots \in Seq(Conn)
  /\ accepted \in BOOLEAN
  /\ accepted => slots # <<>>
  /\ slots # <<>> => listening
  /\ faults \in 0..MaxFaults

Init ==
  /\ sock = [g \in Guis |-> "none"]
  /\ timers = [g \in Guis |-> 0]
  /\ toGui = [g \in Guis |-> <<>>]
  /\ label = [g \in Guis |-> FALSE]
  /\ refused = [g \in Guis |-> FALSE]
  /\ listening = FALSE
  /\ slots = <<>>
  /\ accepted = FALSE
  /\ faults = 0

server == <<listening, slots, accepted>>

Fault == faults < MaxFaults /\ faults' = faults + 1

Waiting == IF accepted THEN Tail(slots) ELSE slots

(* The connections after GUI g has closed its end of all it had.            *)
Severed(g) ==
  [i \in DOMAIN slots |-> [gui |-> slots[i].gui, open |-> slots[i].open /\ slots[i].gui # g]]

Live(g) == \E i \in DOMAIN slots : slots[i].gui = g /\ slots[i].open

Served(g) == accepted /\ slots[1] = [gui |-> g, open |-> TRUE]

-----------------------------------------------------------------------------
(* The GUIs.  A worker's step may queue a signal for its window, and waits  *)
(* (a bound) while MaxSignals are queued.                                   *)

Signal(g, up) ==
  /\ Len(toGui[g]) < MaxSignals
  /\ toGui' = [toGui EXCEPT ![g] = Append(@, up)]
  /\ UNCHANGED label

(* start(): the socket is made in the worker's thread, and dials.           *)
Start(g) ==
  /\ sock[g] = "none"
  /\ sock' = [sock EXCEPT ![g] = "connecting"]
  /\ refused' = [refused EXCEPT ![g] = FALSE]
  /\ UNCHANGED <<timers, toGui, label, server, faults>>

(* Mutant: the attempt arms a timer too, in case it fails.                  *)
TryReconnectArmed(g) ==
  /\ timers[g] > 0
  /\ IF sock[g] = "unconnected"
       THEN /\ sock' = [sock EXCEPT ![g] = "connecting"]
            /\ refused' = [refused EXCEPT ![g] = FALSE]
            /\ UNCHANGED timers
       ELSE timers' = [timers EXCEPT ![g] = @ - 1] /\ UNCHANGED <<sock, refused>>
  /\ UNCHANGED <<toGui, label, server, faults>>

(* A timer fires: tryReconnect().                                           *)
TryReconnect(g) ==
  /\ timers[g] > 0
  /\ timers' = [timers EXCEPT ![g] = @ - 1]
  /\ IF sock[g] = "unconnected"
       THEN /\ sock' = [sock EXCEPT ![g] = "connecting"]
            /\ refused' = [refused EXCEPT ![g] = FALSE]
       ELSE UNCHANGED <<sock, refused>>
  /\ UNCHANGED <<toGui, label, server, faults>>

(* The server's kernel takes the connection in: onConnected().              *)
Connected(g) ==
  /\ sock[g] = "connecting"
  /\ listening /\ Len(Waiting) <= Backlog
  /\ sock' = [sock EXCEPT ![g] = "connected"]
  /\ slots' = Append(slots, [gui |-> g, open |-> TRUE])
  /\ Signal(g, TRUE)
  /\ UNCHANGED <<timers, refused, listening, accepted, faults>>

(* The attempt fails, whether or not the server listens: it is refused, or  *)
(* the host cannot be reached, or nothing answers in time because the       *)
(* backlog is full.                                                         *)
ConnectFails(g) ==
  /\ sock[g] = "connecting"
  /\ sock' = [sock EXCEPT ![g] = "unconnected"]
  /\ refused' = [refused EXCEPT ![g] = TRUE]
  /\ UNCHANGED <<timers, toGui, label, server, faults>>

(* Mutant: onDisconnected() writes to the window itself.                    *)
OnDisconnectedDirect(g) ==
  /\ sock' = [sock EXCEPT ![g] = "unconnected"]
  /\ label' = [label EXCEPT ![g] = FALSE]
  /\ timers' = [timers EXCEPT ![g] = @ + 1]
  /\ slots' = Severed(g)
  /\ UNCHANGED <<toGui, refused, listening, accepted>>

(* Mutant: the timer is forgotten.                                          *)
OnDisconnectedNoTimer(g) ==
  /\ sock' = [sock EXCEPT ![g] = "unconnected"]
  /\ Signal(g, FALSE)
  /\ slots' = Severed(g)
  /\ UNCHANGED <<timers, refused, listening, accepted>>

(* Mutant: the old descriptor stays open.                                   *)
OnDisconnectedLeaks(g) ==
  /\ sock' = [sock EXCEPT ![g] = "unconnected"]
  /\ Signal(g, FALSE)
  /\ timers' = [timers EXCEPT ![g] = @ + 1]
  /\ UNCHANGED <<slots, refused, listening, accepted>>

(* onDisconnected(): the window is told, and a retry is due later.          *)
OnDisconnected(g) ==
  /\ sock' = [sock EXCEPT ![g] = "unconnected"]
  /\ Signal(g, FALSE)
  /\ timers' = [timers EXCEPT ![g] = @ + 1]
  /\ slots' = Severed(g)
  /\ UNCHANGED <<refused, listening, accepted>>

(* The server has closed the connection, and the worker notices.            *)
Closed(g) ==
  /\ sock[g] = "connected"
  /\ ~Live(g)
  /\ OnDisconnected(g)
  /\ UNCHANGED faults

(* The connection breaks under way, or handleMessage() aborts it after a    *)
(* malformed header.                                                        *)
Broken(g) ==
  /\ Fault
  /\ sock[g] = "connected"
  /\ OnDisconnected(g)

(* The program ends, in order (stop()) or not.                              *)
Quit(g) ==
  /\ Fault
  /\ sock[g] # "none"
  /\ sock' = [sock EXCEPT ![g] = "none"]
  /\ timers' = [timers EXCEPT ![g] = 0]
  /\ toGui' = [toGui EXCEPT ![g] = <<>>]
  /\ label' = [label EXCEPT ![g] = FALSE]
  /\ slots' = Severed(g)
  /\ UNCHANGED <<refused, listening, accepted>>

(* The window's thread runs onLinkStateChanged().                           *)
OnLinkStateChanged(g) ==
  /\ toGui[g] # <<>>
  /\ label' = [label EXCEPT ![g] = Head(toGui[g])]
  /\ toGui' = [toGui EXCEPT ![g] = Tail(@)]
  /\ UNCHANGED <<sock, timers, refused, server, faults>>

-----------------------------------------------------------------------------
(* The server.                                                              *)

Up ==
  /\ ~listening
  /\ listening' = TRUE
  /\ UNCHANGED <<sock, timers, toGui, label, refused, slots, accepted, faults>>

Dies ==
  /\ Fault
  /\ listening
  /\ listening' = FALSE
  /\ slots' = <<>>
  /\ accepted' = FALSE
  /\ UNCHANGED <<sock, timers, toGui, label, refused>>

(* Mutant: client_fd_ is set without accept().                              *)
AcceptNothing ==
  /\ listening
  /\ slots' = IF accepted /\ Waiting # <<>> THEN Waiting ELSE slots
  /\ accepted' = TRUE
  /\ UNCHANGED <<sock, timers, toGui, label, refused, listening, faults>>

(* poll_accept(): the connection that waits replaces the accepted one.      *)
Accept ==
  /\ Waiting # <<>>
  /\ slots' = Waiting
  /\ accepted' = TRUE
  /\ UNCHANGED <<sock, timers, toGui, label, refused, listening, faults>>

DropClient ==
  /\ slots' = Tail(slots)
  /\ accepted' = FALSE
  /\ UNCHANGED <<sock, timers, toGui, label, refused, listening>>

(* poll_read() or send() finds that the GUI has gone.                       *)
PeerGone ==
  /\ accepted /\ ~slots[1].open
  /\ DropClient
  /\ UNCHANGED faults

(* The server gives a living connection up: a malformed header, or send()   *)
(* failed.                                                                  *)
Drop ==
  /\ Fault
  /\ accepted
  /\ DropClient

-----------------------------------------------------------------------------
Worker(g) == TryReconnect(g) \/ Connected(g) \/ ConnectFails(g) \/ Closed(g)

Next ==
  \/ \E g \in Guis : Start(g) \/ Worker(g) \/ OnLinkStateChanged(g) \/ Broken(g) \/ Quit(g)
  \/ Up \/ Accept \/ PeerGone \/ Dies \/ Drop

(* Each thread runs its event loop and the server its own; a server that    *)
(* has died is started again.  Connected is asked of a kernel that retries  *)
(* while others take the places in the backlog.                             *)
Spec ==
  /\ Init /\ [][Next]_vars
  /\ \A g \in Guis : /\ WF_vars(TryReconnect(g)) /\ WF_vars(ConnectFails(g)) /\ WF_vars(Closed(g))
                     /\ SF_vars(Connected(g)) /\ WF_vars(OnLinkStateChanged(g))
  /\ WF_vars(Accept) /\ WF_vars(PeerGone) /\ WF_vars(Up)

-----------------------------------------------------------------------------
(* Once the window has shown the signals on their way to it, it says what   *)
(* the worker's socket is: no signal is lost, late or out of order between  *)
(* the two threads (lock_window.cpp:59, maint_window.cpp:58).               *)
LabelCatchesUp ==
  \A g \in Guis :
    (IF toGui[g] = <<>> THEN label[g] ELSE Last(toGui[g])) <=> sock[g] = "connected"

(* A retry is due only while there is no connection and none being made,    *)
(* and only one: timers never pile up over reconnections, so one attempt    *)
(* answers one loss (comm_worker.cpp:66).                                   *)
OneRetryAtATime ==
  \A g \in Guis : timers[g] > 0 => timers[g] = 1 /\ sock[g] = "unconnected" /\ ~refused[g]

(* tcp_server.cpp:76-77: the socket that a reconnecting peer replaces "is   *)
(* stale by definition".  It is, unless it belongs to another GUI: a GUI    *)
(* never takes the client slot from its own living connection.              *)
ReplacedIsStale ==
  [][accepted /\ slots' = Tail(slots) /\ accepted' =>
       ~slots[1].open \/ slots[1].gui # slots'[1].gui]_vars

(* Whatever breaks, a GUI that is running is served again and again, unless *)
(* an attempt of its failed: also when several GUIs take the slot from one  *)
(* another (ADR-0011:75, "both reconnect by themselves").                   *)
ServedInTurn ==
  \A g \in Guis : []<>(Served(g) \/ refused[g] \/ sock[g] = "none")

(* comm_worker.cpp:15-17: a terminal that cannot reach the server "should   *)
(* keep trying rather than give up".  ADR-0013:99: when gateway is started  *)
(* again maint_gui comes back by itself.                                    *)
KeepsTrying ==
  \A g \in Guis : []<>(Served(g) \/ sock[g] = "none")
=============================================================================
