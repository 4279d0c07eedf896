---------------------------- MODULE QueueOwnership ----------------------------
(***************************************************************************)
(* The life of one message queue key (common/msgq) and of the processes    *)
(* that open it with create = true (common/process): the instances of one  *)
(* program, started, failing, killed and started again, perhaps while      *)
(* another instance still runs.  The kernel gives a queue a fresh          *)
(* identifier each time the key is created anew; removing the queue frees  *)
(* the key and fails every call made on the old identifier.                *)
(***************************************************************************)
EXTENDS Integers, Sequences

CONSTANTS
  Instances,  \* processes of the program that owns the key
  Senders,    \* processes that send to it
  BindsPort,  \* the program listens on a TCP port (gateway, termd)
  Cap,        \* messages the queue holds
  MaxMsgs,    \* bound: messages sent
  MaxQueues,  \* bound: identifiers created
  MaxKills    \* bound: instances killed

ASSUME OwnershipAssumption ==
  /\ BindsPort \in BOOLEAN
  /\ Cap \in Nat \ {0}
  /\ {MaxMsgs, MaxQueues, MaxKills} \subseteq Nat

Msgs == 1..MaxMsgs
Ids  == 1..MaxQueues

VARIABLES
  key,       \* the identifier under the key, 0 when there is none
  created,   \* identifiers created so far
  msgs,      \* the messages in queue key
  listening, \* instances that hold the port
  pc,        \* where each instance is
  mine,      \* mine[i]: its id_, 0 before open()
  hand,      \* hand[i]: the message it has taken, if any
  target,    \* target[s]: the identifier s is sending to, 0 when idle
  sent,      \* messages accepted by msgsnd(), numbered in that order
  handled,   \* the messages handled, in order
  dropped,   \* messages lost: in hand at a kill, or removed with their queue
  kills

queue  == <<key, created, msgs>>
result == <<sent, handled, dropped>>
vars   == <<queue, listening, pc, mine, hand, target, result, kills>>

Running == {"loop", "handle"}

TypeOK ==
  /\ key \in Ids \cup {0}
  /\ created \in Ids \cup {0}
  /\ msgs \in Seq(Msgs) /\ Len(msgs) <= Cap
  /\ listening \subseteq Instances
  /\ pc \in [Instances -> {"down", "bind", "join", "exit"} \cup Running]
  /\ mine \in [Instances -> Ids \cup {0}]
  /\ hand \in [Instances -> SUBSET Msgs]
  /\ target \in [Senders -> Ids \cup {0}]
  /\ sent \in 0..MaxMsgs
  /\ handled \in Seq(Msgs)
  /\ dropped \subseteq Msgs
  /\ kills \in 0..MaxKills

Init ==
  /\ key = 0
  /\ created = 0
  /\ msgs = <<>>
  /\ listening = {}
  /\ pc = [i \in Instances |-> "down"]
  /\ mine = [i \in Instances |-> 0]
  /\ hand = [i \in Instances |-> {}]
  /\ target = [s \in Senders |-> 0]
  /\ sent = 0
  /\ handled = <<>>
  /\ dropped = {}
  /\ kills = 0

Goto(i, loc) == pc' = [pc EXCEPT ![i] = loc]

-----------------------------------------------------------------------------
(* Mutant: a queue left over from an earlier run is replaced.               *)
OpenFresh(i) ==
  /\ pc[i] = "down"
  /\ created < MaxQueues
  /\ key' = created + 1
  /\ created' = key'
  /\ msgs' = <<>>
  /\ mine' = [mine EXCEPT ![i] = key']
  /\ Goto(i, "bind")
  /\ UNCHANGED <<listening, hand, target, result, kills>>

(* Mutant: the queue is created with IPC_EXCL.                              *)
OpenExclusive(i) ==
  /\ pc[i] = "down"
  /\ key = 0
  /\ created < MaxQueues
  /\ key' = created + 1
  /\ created' = key'
  /\ mine' = [mine EXCEPT ![i] = key']
  /\ Goto(i, "bind")
  /\ UNCHANGED <<msgs, listening, hand, target, result, kills>>

(* Process::init(): msgget(IPC_CREAT) without IPC_EXCL makes the queue or   *)
(* takes the one that is there, and either way owner_ is set.               *)
Open(i) ==
  /\ pc[i] = "down"
  /\ \/ /\ key # 0
        /\ UNCHANGED queue
     \/ /\ key = 0
        /\ created < MaxQueues
        /\ key' = created + 1
        /\ created' = key'
        /\ UNCHANGED msgs
  /\ mine' = [mine EXCEPT ![i] = key']
  /\ Goto(i, "bind")
  /\ UNCHANGED <<listening, hand, target, result, kills>>

(* Mutant: SO_REUSEPORT in place of SO_REUSEADDR.                           *)
BindShared(i) ==
  /\ pc[i] = "bind"
  /\ listening' = listening \cup {i}
  /\ Goto(i, "join")
  /\ UNCHANGED <<queue, mine, hand, target, result, kills>>

(* on_init(): TcpServer::listen(), one listener per port; a program without *)
(* a socket goes on.                                                        *)
Bind(i) ==
  /\ pc[i] = "bind"
  /\ IF BindsPort
       THEN listening = {} /\ listening' = {i}
       ELSE UNCHANGED listening
  /\ Goto(i, "join")
  /\ UNCHANGED <<queue, mine, hand, target, result, kills>>

BindFail(i) ==
  /\ pc[i] = "bind"
  /\ BindsPort /\ listening # {}
  /\ Goto(i, "exit")
  /\ UNCHANGED <<queue, listening, mine, hand, target, result, kills>>

(* The rest of on_init(): the terminal table can be opened and joined, or   *)
(* it cannot.                                                               *)
Join(i) ==
  /\ pc[i] = "join"
  /\ Goto(i, "loop")
  /\ UNCHANGED <<queue, listening, mine, hand, target, result, kills>>

JoinFail(i) ==
  /\ pc[i] = "join"
  /\ Goto(i, "exit")
  /\ listening' = listening \ {i}
  /\ UNCHANGED <<queue, mine, hand, target, result, kills>>

(* run(): take a message and handle it.                                     *)
Recv(i) ==
  /\ pc[i] = "loop"
  /\ mine[i] = key
  /\ msgs # <<>>
  /\ hand' = [hand EXCEPT ![i] = {Head(msgs)}]
  /\ msgs' = Tail(msgs)
  /\ Goto(i, "handle")
  /\ UNCHANGED <<key, created, listening, mine, target, result, kills>>

Handle(i) ==
  /\ pc[i] = "handle"
  /\ \E m \in hand[i] : handled' = Append(handled, m)
  /\ hand' = [hand EXCEPT ![i] = {}]
  /\ Goto(i, "loop")
  /\ UNCHANGED <<queue, listening, mine, target, sent, dropped, kills>>

(* Mutant: a failed receive is taken for a timeout.                         *)
RecvErrorCarriesOn(i) ==
  /\ pc[i] = "loop"
  /\ mine[i] # key
  /\ UNCHANGED vars

(* msgrcv() on a removed queue fails, run() returns 1, and the destructors  *)
(* start: the derived class's socket first.                                 *)
RecvError(i) ==
  /\ pc[i] = "loop"
  /\ mine[i] # key
  /\ Goto(i, "exit")
  /\ listening' = listening \ {i}
  /\ UNCHANGED <<queue, mine, hand, target, result, kills>>

(* ~MsgQueue(): IPC_RMID on the instance's own identifier; an error when it *)
(* has been removed already is ignored.                                     *)
Remove(i) ==
  /\ pc[i] = "exit"
  /\ IF mine[i] = key
       THEN /\ key' = 0
            /\ msgs' = <<>>
            /\ dropped' = dropped \cup {msgs[j] : j \in DOMAIN msgs}
       ELSE UNCHANGED <<key, msgs, dropped>>
  /\ mine' = [mine EXCEPT ![i] = 0]
  /\ Goto(i, "down")
  /\ UNCHANGED <<created, listening, hand, target, sent, handled, kills>>

(* kill -9: no destructor runs, so the queue and its messages stay.         *)
Kill(i) ==
  /\ kills < MaxKills
  /\ kills' = kills + 1
  /\ pc[i] # "down"
  /\ Goto(i, "down")
  /\ listening' = listening \ {i}
  /\ mine' = [mine EXCEPT ![i] = 0]
  /\ hand' = [hand EXCEPT ![i] = {}]
  /\ dropped' = dropped \cup hand[i]
  /\ UNCHANGED <<queue, target, sent, handled>>

-----------------------------------------------------------------------------
(* send_to(): look the key up, then msgsnd(), which waits for room and      *)
(* fails if the queue is removed meanwhile.                                 *)
Attach(s) ==
  /\ target[s] = 0
  /\ key # 0
  /\ sent < MaxMsgs
  /\ target' = [target EXCEPT ![s] = key]
  /\ UNCHANGED <<queue, listening, pc, mine, hand, result, kills>>

(* Mutants: send_to() opens with create = true, so that its queue object    *)
(* removes the queue when it goes out of scope; msgsnd() without a limit.   *)
PutAsOwner(s) ==
  /\ target[s] # 0
  /\ target[s] = key
  /\ sent < MaxMsgs
  /\ sent' = sent + 1
  /\ key' = 0
  /\ msgs' = <<>>
  /\ target' = [target EXCEPT ![s] = 0]
  /\ UNCHANGED <<created, listening, pc, mine, hand, handled, dropped, kills>>

PutUnbounded(s) ==
  /\ target[s] # 0
  /\ target[s] = key
  /\ sent < MaxMsgs
  /\ sent' = sent + 1
  /\ msgs' = Append(msgs, sent')
  /\ target' = [target EXCEPT ![s] = 0]
  /\ UNCHANGED <<key, created, listening, pc, mine, hand, handled, dropped, kills>>

Put(s) ==
  /\ target[s] # 0
  /\ target[s] = key
  /\ Len(msgs) < Cap
  /\ sent < MaxMsgs
  /\ sent' = sent + 1
  /\ msgs' = Append(msgs, sent')
  /\ target' = [target EXCEPT ![s] = 0]
  /\ UNCHANGED <<key, created, listening, pc, mine, hand, handled, dropped, kills>>

PutFail(s) ==
  /\ target[s] # 0
  /\ target[s] # key
  /\ target' = [target EXCEPT ![s] = 0]
  /\ UNCHANGED <<queue, listening, pc, mine, hand, result, kills>>

-----------------------------------------------------------------------------
Run(i)   == Bind(i) \/ BindFail(i) \/ Join(i) \/ Recv(i) \/ Handle(i)
              \/ RecvError(i) \/ Remove(i)
Send(s)  == Attach(s) \/ Put(s) \/ PutFail(s)
Alone(i) == \A j \in Instances \ {i} : pc[j] = "down"

(* Instances are started at any time, overlapping or not.                   *)
Next ==
  \/ \E i \in Instances : Open(i) \/ Run(i) \/ JoinFail(i) \/ Kill(i)
  \/ \E s \in Senders : Send(s)

Spec == Init /\ [][Next]_vars

(* A process that runs goes on running.                                     *)
Progress == \A i \in Instances : WF_vars(Run(i))

SpecFair == Spec /\ Progress

(* A careful operator: an instance is started only when no other is alive.  *)
NextSingle ==
  \/ \E i \in Instances : (Open(i) /\ Alone(i)) \/ Run(i) \/ JoinFail(i) \/ Kill(i)
  \/ \E s \in Senders : Send(s)

SpecSingle == Init /\ [][NextSingle]_vars

(* A supervisor starts the program again whenever it has ended, by a kill   *)
(* or by a failed start, and the kernel wakes a waiting msgsnd() whenever   *)
(* there is room (ipc/msg.c), however other senders compete for it.         *)
SpecSupervised ==
  /\ SpecSingle
  /\ Progress
  /\ WF_vars(\E i \in Instances : Open(i) /\ Alone(i))
  /\ \A s \in Senders : SF_vars(Put(s) \/ PutFail(s))

-----------------------------------------------------------------------------
(* A running process's queue is not removed under it.  MsgQueue's           *)
(* destructor (msgq.cpp:29-30) removes only what its creator leaves.        *)
RunnerHasQueue ==
  \A i \in Instances : pc[i] \in Running => mine[i] = key

(* Messages are handled in the order msgsnd() accepted them, each at most   *)
(* once, even when instances overlap, because a second instance cannot get  *)
(* the port and never reaches its loop (ADR-0007: one queue per process).   *)
HandledInOrder ==
  \A j, k \in DOMAIN handled : j < k => handled[j] < handled[k]

(* A process whose queue has been removed does not run on deaf: it leaves   *)
(* its loop and frees its port (Process::run, RecvResult::Error).           *)
DeafStops ==
  \A i \in Instances : pc[i] = "loop" /\ mine[i] # key ~> i \notin listening

(* A kill loses no message that waits in the queue: what msgsnd() accepted  *)
(* is handled by the next instance, or was in hand at a kill, or went with  *)
(* the queue of an instance that failed to start.                           *)
AcceptedIsHandled ==
  \A m \in Msgs :
    m <= sent ~> m \in dropped \/ \E j \in DOMAIN handled : handled[j] = m

(* Nobody waits for ever on the queue of a program that has died: a sender  *)
(* blocked in msgsnd() (MsgQueue::send) gets its message in when the next   *)
(* instance drains the queue, or an error when the queue is removed.        *)
SendersGoOn ==
  \A s \in Senders : target[s] # 0 ~> target[s] = 0 \/ sent = MaxMsgs
=============================================================================
