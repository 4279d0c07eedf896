# Formal model of fleetcore

TLA+ modules, TLC runs and TLAPS proofs about the program in `src/`. The code is
the reference: definitions are translated from it, and `PROJECT.json` ("map")
names the lines each one stands for.

## 1. The system

fleetcore locks vehicle terminals from a maintenance desk. A command goes down,
an acknowledgement comes back:

    maint_gui => gateway -> locator -> termd t => term_gui t
    maint_gui <= gateway <-------------+

`=>` is TCP (`common/tcp_server`, Qt on the far side), `->` a System V message
queue (`common/msgq`). The termds and the locator share the terminal table, a
System V shared-memory segment guarded by one System V semaphore.

| Component | State | Operations | Correct when |
|---|---|---|---|
| terminal table (`common/shm_table`) | 64 rows, semaphore, `sem_otime`, the kernel's per-process undo value | `open`, `register_terminal`, `set_state`, `touch`, `find`, `snapshot` | initialised once; accessors exclude one another; a killed holder gives the lock back; one row per terminal; reads are whole |
| message queue (`common/msgq`) | key, identifier, `owner_`, messages | `open`, `send` (blocks when full), `recv_timeout`, destructor (removes) | order kept, nothing lost while a process is down, not removed under a running process |
| process skeleton (`common/process`) | handlers, own queue | `init`, `run` (one message, or `on_idle` after 200 ms without one), `dispatch`, `send_to` | queue and socket both get served; no circular wait; a failed receive ends the process |
| TCP server (`common/tcp_server`) | listening socket, one client | `listen`, `poll_accept` (replaces the client), `poll_read`, `send` (retries), `drop_client` | one client; a new connection inherits nothing from the old one |
| gateway | receive buffer, socket, queue | frames to locator; acknowledgements to maint_gui | each command forwarded once, in order |
| locator | view of the table | `resolve`, forward to the termd | right termd; unknown numbers dropped |
| termd | socket, queue, its row | deliver, acknowledge, report the connection | shows in order; reports state; acknowledges |
| term_gui, maint_gui | socket, buffer, window; a worker and a GUI thread each | connect and reconnect, send a command, show | keep trying; show what arrived |
| stream buffer, wire codec (`common/stream_buffer`, `common/wire`) | bytes received | `append`, `next`, `consume`; pack and unpack | same frames however the bytes are cut; malformed streams end the connection |
| tools, layout dump, log, Qt metatypes | none | manual tests, output | not modelled |

Hard behaviours: several processes at once on one table and one set of queues;
kill -9 anywhere (queues, segment and semaphore survive, sockets and the message
in hand do not); blocking sends on bounded queues in loops that form a circle;
connections replaced while commands are under way; byte streams that reads cut
anywhere and that may be malformed; a GUI's two threads and its retry timer; two
GUIs on a server that serves one; a second instance of a program started by
mistake. `PROJECT.json` ("hazards") lists each with its line
and the properties that watch it, including those no property watches yet.

## 2. Modules

| Module | Role |
|---|---|
| `Registry` | what the terminal table promises: one entry per terminal, changed in one step by its own termd |
| `TerminalTable` | the table, store by store |
| `TerminalTableProofs` | its theorems |
| `TerminalTableRegistry` | the refinement mapping from `TerminalTable` to `Registry` |
| `TerminalTableRegistryProofs` | the proof of that refinement |
| `CommandPath` | the five kinds of process, queues, sockets, kills, reconnections |
| `CommandPathRegistry` | the part of `CommandPath` that is the `Registry` |
| `CommandPathProofs` | types, connection state and the one-terminal theorem, and the refinement of `Registry` |
| `OrderedDelivery` | what the path promises: one lossy, ordered line per terminal |
| `CommandPathDelivery` | the refinement mapping from `CommandPath` to it |
| `CommandPathOrderProofs` | commands: their order, and the proof of that refinement |
| `CommandPathAckProofs` | acknowledgements: their order and what they mean |
| `QueueOwnership` | one queue key over the lives of the instances that own it |
| `QueueOwnershipProofs` | its theorems |
| `Framing` | messages cut out of a byte stream, and the drop at a malformed header |
| `FramingProofs` | its theorems |
| `GuiLink` | the GUIs' connections: sockets, retry timers, link signals, the server's one slot |
| `GuiLinkProofs` | its theorems |
| `MCTable`, `MCPath`, `MCQueue`, `MCFraming`, `MCLink` | what TLC needs beside them |

How they compose: `CommandPath` uses a terminal table whose accessors are single
steps, well-formed frames, and connections that are made and lost. `Registry`
is the interface of the first: `TerminalTable` implements it and `CommandPath`
uses it, both checked and both proved. `Framing` and `GuiLink` look at the other
two in detail, each with one server.

Operators whose comment starts with "Mutant" are wrong variants of the definition
that follows them. No specification uses them; each is there because putting it
in the place of the right one must break a property (`PROJECT.json`, "mutants").

### TerminalTable

Each process has a program counter and the locals of the accessor it is in.
`open()` is `Start`, then `CreateSem` and `InitSem` for the process whose
`semget(IPC_EXCL)` succeeds, or `FindSem` and one `SeeInit` or `MissInit` per
`IPC_STAT` poll. An accessor is `Register`, `SetState`, `Touch` or `Find` (the
call), `Lock`, `ScanHit` or `ScanMiss` (the loop over the rows), `Store` or
`Copy` once per field in any order, and `Unlock`. `Kill` may come between any
two of these and applies the kernel's undo value. `touch()` is part of the
class's interface although nothing calls it yet; `snapshot()`, also uncalled, is
left out. So is `last_seen`, a wall-clock time that nothing reads or compares:
`touch()`, which stores nothing else, takes the lock and scans.

`damaged` is a history variable: the rows whose writer was killed between two
stores. `DamageIsConfined` says that nothing else ever leaves a row half
written, and that `set_state` repairs one.

`TerminalTableRegistry` reads a `Registry` entry off the rows: a terminal without
a row is "unused", one with a row is "connected" or not. The store of the
terminal number is the step at which an entry appears, and the store of the state
the one at which it changes; every other step, torn or not, is invisible. A
termd that is killed after the first and before `register_terminal` returns has
made a `Claim`.

### CommandPath

A command is the number of its sending, so order and repetition can be read off;
`log[n]` is the terminal number it carries. A process alternates between `loop`
and the handler's steps; `hand[p]` is the message (or chunk of frames) in its
local variables. `GatewayIdle` is gateway's `on_idle()`: accept, then read one chunk or
notice that the peer has gone; it is possible only while the queue is empty. A termd's
has more steps, because `set_state()` waits for the table's lock: `TermdIdle` accepts
(`accepted`) or notices the loss (`lost`), `ReportUp` is `set_state(CONNECTED)` with the
read that follows, `ReportDown` is `set_state(DISCONNECTED)`. Between them the socket
and the row disagree, and the process may be killed.
`GatewayForward` handles one frame of the chunk at a time, because each
`send_to()` may block. A termd's handler has two steps, `TermdDeliver` and
`TermdAck`, which block on different things. `Enqueue` is `msgsnd()` without
`IPC_NOWAIT`: not enabled while the queue is full. `TcpSend` retries on a full
socket; when the peer has gone the bytes vanish or the error drops the client,
as the kernel pleases. `Kill` leaves the queue and drops the rest. `InitFail` is a start
that fails in `on_init()`, whose destructor removes the queue with all that a killed
predecessor left in it.

`Resolve` is the locator's: a terminal number leads to its termd if it has a row, and a
number that reads as 0 (`Zeros`) finds a row nobody has used, whose number is 0, and
yields 3000 + 0 - 1000, the index of the locator. Such a command goes round the locator's
own queue for as long as the locator runs; when that queue is full the locator even blocks
on itself. maint_gui offers only 1001 and 1002, but gateway takes frames from any client.

The table is reduced to each terminal's state, which is a `Registry`
(`CommandPathRegistry`). Frames are whole and well formed (`Framing` has the
others); terminal numbers are otherwise members of a set; there is one maint_gui
(`GuiLink` has two).

`OrderedDelivery` has a line per terminal that may lose commands but not reorder,
repeat, invent or misdirect one. Because commands are numbered as they are sent, a line
is a set of numbers, and the oldest command on it is the smallest.
`CommandPathDelivery` maps to t's line everything between maint_gui and terminal t,
one stage after the other: t's socket, t's termd and its queue, the locator and
its queue, the chunk gateway is forwarding, and its connections, those it has
not accepted yet included. Commands that read as 0 (`Stray`) leave the stages at
the locator, where they go round.

### QueueOwnership

One queue key. `Open` is `Process::init()` up to `on_init()`: create the queue or
attach to the one that is there, as owner either way. `Bind` and `Join` are the
two parts of `on_init()` that can fail. Leaving is two steps, because the
derived class's socket is destroyed before the base class's queue: the port is
free when `Remove` has yet to run. `Remove` acts on the instance's own
identifier, which may have been removed already, and puts the messages in the queue
among those `dropped`. A sender looks the key up and sends
in two steps. `BindsPort` tells gateway and termd (a port lets in one instance at
a time) from locator.

### Framing

A receiver (gateway, termd, or the worker of a GUI) with its `StreamBuffer`. A byte
is a number; of a header, two bytes matter: one stands for magic, version and
code, one for the length field. `Accept` begins `on_idle()`: a waiting connection
replaces the accepted one and the buffer is reset. `Read` appends any number of
the unread bytes. `DrainMessage` is one turn of the `next()` loop, with
`unpack_header` and the unpack function inside `Verdict`. `SendFails` drops the
client between two calls of `on_idle()`, without a reset of the buffer. `got` and
`frames` are history variables: the bytes read from the present connection, and
what was made of them. `Cut` is the reference: it cuts the whole stream at once
by following the length fields.

### GuiLink

GUIs pointed at one server. A worker's socket has the states of a `QTcpSocket`;
`Signal` queues `linkStateChanged` for the window's thread, which takes it with
`OnLinkStateChanged`. `OnDisconnected` is the whole slot: signal, timer, descriptor.
The server is its listening socket and the connections it holds; `Accept` replaces
the accepted one as `poll_accept()` does. Any attempt may fail (`ConnectFails`): nobody
listens, the host cannot be reached, or a full backlog lets it time out. Qt then emits
neither `connected()` nor `disconnected()`; `refused` remembers that.

## 3. Runs

| Run | Instance | What it shows |
|---|---|---|
| `table` | two termds, one locator, two rows, one poll (318,000 states) | the table's safety properties, that it implements `Registry`, and `ReaderIsServed` |
| `path` | one terminal and a number that reads as 0, queues of one, chunks of two, two commands, two kills or failed starts, one close (340,000 states) | order, no repeats, state reporting, refinement of `OrderedDelivery` and of `Registry` |
| `path_live` | one terminal, queues of one, chunks of two, six commands, all up, one kill or failed start, supervisor (209,000 states) | the path is stuck for ever only in the circular wait, which this instance can reach; otherwise, without the kill, every command is shown and acknowledged, and an acknowledged one was delivered; with it the queues drain again and again |
| `queue` | two instances of a listening program, overlapping, two kills | order and single handling; `DeafStops` |
| `queue_restart` | two instances that never overlap, no port, kills and failed starts, two senders (24,000 states) | the queue stays under a running instance, its messages are handled after a kill, and no sender waits for ever |
| `framing` | every stream of up to five bytes over two connections, every cut (426,000 states) | each message handled once and at its place; a malformed header ends the connection; bounded buffer; the drain loop ends |
| `link` | two GUIs, one server, three faults | the label follows the socket; one timer at most; served in turn |

Five runs look for a violation and find it. They record where the code does
something other than its own documents say:

| Run | Statement | What the code does |
|---|---|---|
| `path_ack` | proto.h:48: the response is sent "after a lock command has been carried out" | termd acknowledges with `RESULT_OK` when no terminal is connected |
| `path_kill` | ADR-0007:74: killing one termd does not affect commands for others | its queue fills and the locator blocks on it |
| `path_circle` | ADR-0010:82-83: no call in such a loop may block indefinitely | with two terminals, gateway, locator and a termd can each wait for the next |
| `queue_overlap` | msgq.cpp:29-30: a process that attached must not remove a queue others use | a second instance that fails to bind removes the first one's queue |
| `link_retry` | comm_worker.cpp:15-17: a terminal that cannot reach the server keeps trying | an attempt that fails is the last one: no `disconnected()`, so no timer |

`path_live` checks `AckMeansDelivered` with every terminal connected; there it holds.
Its liveness properties exempt the circular wait, which `path_circle` shows the code to
run into and which nothing resolves: `EveryCommandShown` and `EveryCommandAcked` promise
that, again and again, all commands sent so far have been displayed or acknowledged, and
`PathDrains` that all queues and hands are empty, or else that gateway, locator and
the termd wait in exactly that circle. They would fail for any other way of getting
stuck, a lost wake-up or a command kept for ever included.

One more difference needs no run to be seen. shm_table.h:95 has `set_state` called
"when the terminal's socket comes up or goes down"; `TcpServer::send` drops a
client whose send failed, and termd's handler drops one that sent a malformed
header, and neither calls `set_state`, so the row goes on saying connected until
the next connection. `ClientIsReported` is the direction that holds.

### Bounds

Real queues hold 512 requests or 455 acknowledgements (16384 bytes by default) and a
chunk 42 to 43 frames. What matters to the properties is that every queue can be full
and that a chunk can bring more than one frame: capacities of 1 or 2 reach both.
`path_live` and `path_circle` send as many commands as it takes to fill all queues and
hands on the way at once (6 and 8), and so to close the circle; `path`, `path_ack` and
`path_kill` send two or three, enough to fill the one queue their properties are
about, not all of them.

The circular wait needs the acknowledgements of a chunk's commands to meet the
commands still coming down. With one terminal a chunk of `Batch` is at most `AckCap`,
as in the real program (43 to 455), and the number of messages in circulation is too
small to fill all three queues. `path_live` has one terminal and chunks larger than
`AckCap`, so that it can fill them and its properties meet the circle; two terminals
with chunks of one, six commands and no kill (1.5 million states) give the same
answers and take too long for a run. With two terminals, the other terminal's
acknowledgements fill the gateway's queue and the circle can close; `path_circle`
takes `Batch = 1`, so this does not depend on large chunks.

Two kills and one closed connection give `path` a kill during the recovery from a
kill, and a reconnection around either. It has one terminal beside the number that
reads as 0, so two terminals meet on the path only in `path_kill` and `path_circle`;
every property `path` checks is also proved for any number of terminals, kills and
closed connections.

Two termds and a reader give every pair of accessors on the table; two instances give
every overlap of one being started and one running. In `QueueOwnership`, three
identifiers let a queue be removed and created twice. `table` polls once before giving
up, which gives both outcomes of the wait for the creator, and the locator asks for
one of the two numbers, which is free, claimed, registered or torn in turn. The run
has a row for each termd; a full table is covered by the proofs, which hold for any
number of rows.

In `Framing` headers are two bytes, the handled message is a header without a body and
the longest message one byte longer, so five bytes are two messages and the
beginning of a third, or a long one and a short one, with every cut inside,
between and behind them. The byte values give a first byte that is wrong, one
of another code and one that is handled, and lengths that are too small, right, in range
but not the handled message's, and too large; two connections give every
replacement. In `GuiLink` three faults give
a loss during the recovery from a loss, for each of server and GUI. `link_retry` needs one
GUI and no fault: its server is simply started later.

Deadlock checking is on for the table and the framing, which never stop. It is off
for the path and the queue, whose bounds on commands and kills let behaviours end, and
for the link, where nothing more happens once every GUI is connected, or has had
an attempt fail, and the faults are spent.

### Fairness

- Table: weak fairness of the steps inside the critical section (whoever is there is
  running and nothing blocks it), strong fairness of the readers' `Lock` (the kernel
  queues blocked `semop` calls). None on calling, starting or dying.
- Path: weak fairness of each process's own steps and of the GUIs' reading and
  noticing. That the GUIs read is an assumption: one that never reads makes
  `TcpServer::send` spin for ever, and no property covers that peer. `SpecSupervised` adds
  weak fairness of starting, for a supervisor the repository leaves to the operator.
  `on_idle()` is served because the commands are finite; a command stream that never
  leaves a 200 ms gap would starve it.
- Queue: weak fairness of each instance's own steps; in `SpecSupervised` also of
  starting one when none is alive, and strong fairness of a blocked `msgsnd()`: the
  kernel keeps its waiting senders in a list and serves them as room appears.
- Framing: weak fairness of the receiver's loop; none of the peers.
- Link: weak fairness of the GUIs' event loops (timers fire, losses are noticed, the
  window shows) and of the server's loop, of starting a server that died, and strong
  fairness of `Connected`: TCP retries a connection while others take the places in
  the backlog. Starting and quitting a GUI are free.

## 4. Proofs

TLAPS checks these for every value of the constants, from `TableAssumption`,
`PathAssumption`, `OwnershipAssumption`, `FramingAssumption` and `LinkAssumption`
alone (positive sizes, terminal numbers that are positive naturals, readers that are
none, distinct processes, a header that fits into a message).

`TerminalTableProofs`: `TypeCorrectness`, `LockExcludes`, `SemaphoreBalanced`,
`OpenWaitsForInit`, `RowsAreUnique`, `RegistrationLasts`, `FindIsAtomic`,
`DamageStaysConfined` and the action property `RowsAreKept`. The argument goes in
layers, each inductive relative to those before it:

1. `LockInv` ties the semaphore to program counters: before initialisation the
   value is 0 and nobody is past `open()`; the creator is the only process at
   `init`; afterwards value plus processes inside is 1, and a process's undo value
   is 1 exactly when it is inside. Mutual exclusion alone is not inductive: `Lock`
   needs that a positive value means nobody is inside, `Kill` that the undo value
   is what the lock is owed.
2. `SlotInv` says what a process inside knows of the row it stopped at.
3. `RowInv` (uniqueness, registration) and `DamageInv` (whole rows) follow because
   only one process writes and its slot is the row it scanned for. A claimed
   row has number 0 or the claimer's until the claim is complete.

`TerminalTableRegistryProofs`: `TableImplementsRegistry`, for any number of
termds, readers and rows. `MapInv` adds to the invariant of the table that a termd registers
before it calls anything else, and that a row nobody has, or that is just being
claimed, is not "connected": without it the store of the number could make a
connected entry appear. `StoreRefines` splits on the field stored: the number is a `Claim`, the
state a `Report`, everything else a stutter; `UnlockRefines` shows that
`register_terminal` returning true is a `Join`.

`CommandPathProofs`: `PathTypes`, `ReportedClients` and `PathUsesRegistry` (every step
of the path is a step of `Registry` or leaves it alone) for any number of terminals,
and `OneTerminalNoCircle`: with one terminal and `Batch <= AckCap` (43 and 455 in
the program) no circular wait, under `Spec` and under `SpecSupervised`.

1. `PathInv` adds to the types that the hand fits the program counter (one message to
   handle or acknowledge, at most a chunk to forward), that terminals write nothing on
   their connections, so that a termd never forwards, and that the request queues
   are bounded. Without the first a step could take the head of an empty hand.
   `ReportedClients` needs `LostIsClosed` beside it: a termd about to report the loss of
   its client has none, so that the report cannot contradict a connection.
2. `LoadBounded` is the argument about the circle: gateway starts forwarding
   only with its own queue empty, so the circle then holds at most two full queues, two
   messages in hand and the chunk; until it has forwarded the chunk nothing
   enters. A closed circle would hold `AckCap` acknowledgements on top of the two
   queues, the two messages and at least one frame of the chunk. With a second
   terminal its acknowledgements come in from outside: `path_circle`.

`CommandPathOrderProofs`: `CommandsInOrder` (`ShownInOrder`) and `PathImplementsDelivery`,
under `Spec` and `SpecSupervised`. That what a terminal has shown is in order says
nothing of the next command, so `OrderInv` orders the whole path by the numbers:

1. Whatever is nearer to the terminals is older than all that is further away, at
   every stage (`StagesInOrder`, with the stages of `CommandPathDelivery`), and each
   queue is in order (`QueuesInOrder`). A command moves one stage on, from
   the head of what is behind to the end of what is before it.
   The strays that go round the locator's queue are left out of its order
   (`IncreasingBut`) and of the stages behind the locator's door.
2. It carries over the death of a connection because an older connection of
   maint_gui holds older commands, and only the newest can still be written to
   (`SocketsInOrder`, `NewestAlive`): gateway may accept an old connection after a new
   one was made, but in the order they were made.
3. What has passed the locator carries the number of the terminal it is on its way to
   (`Addressed`).

Loss takes members out of the stages, which no part of the invariant minds: this is why
kills need no argument of their own, although a termd's queue survives and what it
holds is delivered after the restart. For the refinement, `TermdDeliver` and the
rest leave t's line alone or lose from it; `TerminalRead` displays the
least member, which is what `StagesInOrder` says of a socket's head.

`CommandPathAckProofs`: `AcknowledgementsInOrder` (`AckedInOrder`) and
`AcknowledgedIsDelivered` (`AckMeansDelivered`). On the way back acknowledgements of
different terminals overtake one another, so `AcksInOrder` compares only those of one
terminal, against all its commands not yet acknowledged. The second theorem assumes
`MaxCloses = 0`, no terminal hangs up, and `SpecSupervised`, where the system is
whole before the first command; `path_ack` shows that without them it is false. While
nothing has been killed such a system stays `Whole`: of the many actions only a
few can then happen (`WholeSteps`). In it `Earned` is inductive: what a termd is
about to acknowledge, and what has been acknowledged up to the operator's window, lies in a
terminal's socket or has been displayed; that it is the right terminal
is `Addressed`.

`QueueOwnershipProofs`: `QueueTypes` for any overlap; `OwnerKeepsQueue`, that
under `SpecSingle` (no two instances alive at once, start-up failures included) a
running process has its queue; and `OverlapKeepsOrder`, that a program
with a port handles messages in order and once however its instances overlap.
The last rests on `PortInv` (who is past `bind` holds the port, alone) and
`OrderInv` (handled before in hand before queued, all at most `sent`).

`FramingProofs`: `FramingTypes`, `OwnBytesOnly`, `Partitioned`, `DesyncEnds`, `Bounded`,
`CutsAsAWhole` and `WellFormedHandled`, for any bytes, sizes and streams.
The properties are inductive together with one more (`FramesBehind`): while a connection
stands, every message lies inside the consumed bytes. `Bounded` rests on `HasMessage`: what is left when
the loop ends is shorter than a header or than a length in range.

`CutsAsAWhole` compares the loop with the recursive function `Cut`, in two halves. What
the loop did is `CutInv`: every message begins where one before it ends, with the
verdict its header deserves (`FramesFit`), and outside the drain loop nothing
that could be a message is left out (`NoneMissing`); a read leaves earlier verdicts
alone because a message that was cut was whole. That such a set of messages is what
the recursion computes is `FramesAreTheCut`, by two inductions: on the bytes left, what
the recursion yields from an end on are messages of the set; on the offset, what it yields
from an end on it yields from the beginning. The library's induction theorems take an
operator as a parameter and cannot be used; the inductions here take a
counterexample of least size (`Least`, from the well-foundedness of `<`). That the
recursion defines a function at all (`CutRecursion`) is shown with an explicit
solution, the offsets in every set that is closed under going on.
`WellFormedHandled` follows from the same invariant with two more inductions: all ends are
multiples of the message's length, and no multiple is left out.

`GuiLinkProofs`: `LinkTypes`, `LabelsCatchUp`, `OneTimer` and the action property
`ReplacesStale`, for any number of GUIs and faults. `OpenIsUp` and `OpenIsNewest` are the
strengthening: a connection a GUI has open belongs to a connected socket, and no
later one of the same GUI stands behind it. The first needs that every loss
closes the old descriptor before a new attempt (`OnDisconnected`).

Every safety and action property of the passing runs is stated by a theorem. Only
model-checked is liveness, because fairness and `ENABLED` are outside what the prover
handles: `ReaderIsServed`, `EveryCommandShown`, `EveryCommandAcked`, `PathDrains`,
`DeafStops`, `AcceptedIsHandled`, `SendersGoOn`, `DrainTerminates` and `ServedInTurn`.

## 5. Not modelled, and the plan

1. The safety part of what liveness rests on: that a step of the drain loop makes the
   buffer shorter or ends the loop (`DrainTerminates`), and that what the queue accepted
   is queued, in hand, handled or dropped at a kill or with its queue (`AcceptedIsHandled`).
2. Time. `on_idle()` runs only after 200 ms without a message, so an endless stream would
   starve the socket. The runs bound the commands; in the program the stream limits
   itself, since gateway reads commands only after 200 ms without an
   acknowledgement. Whether termd's pause is as long depends on the phases of 50 ms
   sleeps in `recv_timeout`. And a connected peer that never reads, which holds the
   whole process in `TcpServer::send`.
3. Process indices and ports as integers of their width: `Resolve` has the number 0, but
   not what the arithmetic makes of other numbers (a slot far out shares a port). What
   becomes of the other commands once one that reads as 0 has filled the locator's own queue
   is not covered: the liveness runs send none, because it never leaves that queue.
   Nor are two locators on one queue, which no port keeps apart.
4. Sequence numbers across restarts and wrap-around: nothing compares them, the window
   only prints them.
5. `snapshot()`, which nothing calls.

Left out for good: Qt widgets and layout, logging, the tools, compile-time
layout checks; the dead code of `StreamProcess`; features the documents
plan but the code does not have (store-and-forward, authentication, generated codecs,
signal handlers). Removing the segment and the semaphore is left to the operator
by the code as well.
