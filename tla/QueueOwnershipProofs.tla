------------------------ MODULE QueueOwnershipProofs ------------------------
(***************************************************************************)
(* Proofs about QueueOwnership, for any number of instances and senders    *)
(* and any bounds.                                                         *)
(***************************************************************************)
EXTENDS QueueOwnership, TLAPS

(* The actions' typing, used by every proof below.                          *)
LEMMA Typing == TypeOK /\ [Next]_vars => TypeOK'
<1> SUFFICES ASSUME TypeOK, [Next]_vars PROVE TypeOK'
  OBVIOUS
<1> USE OwnershipAssumption DEF TypeOK, Ids, Msgs, Running, queue, result
<1>1. ASSUME NEW i \in Instances, Open(i) PROVE TypeOK'
  BY <1>1 DEF Open, Goto
<1>2. ASSUME NEW i \in Instances, Bind(i) PROVE TypeOK'
  BY <1>2 DEF Bind, Goto
<1>3. ASSUME NEW i \in Instances, BindFail(i) PROVE TypeOK'
  BY <1>3 DEF BindFail, Goto
<1>4. ASSUME NEW i \in Instances, Join(i) PROVE TypeOK'
  BY <1>4 DEF Join, Goto
<1>5. ASSUME NEW i \in Instances, JoinFail(i) PROVE TypeOK'
  BY <1>5 DEF JoinFail, Goto
<1>6. ASSUME NEW i \in Instances, Recv(i) PROVE TypeOK'
  <2>1. msgs \in Seq(1..MaxMsgs) /\ msgs # <<>> /\ Len(msgs) <= Cap
    BY <1>6 DEF Recv
  <2>2. Head(msgs) \in 1..MaxMsgs /\ Tail(msgs) \in Seq(1..MaxMsgs)
        /\ Len(Tail(msgs)) <= Cap
    BY <2>1
  <2> QED BY <1>6, <2>2 DEF Recv, Goto
<1>7. ASSUME NEW i \in Instances, Handle(i) PROVE TypeOK'
  BY <1>7 DEF Handle, Goto
<1>8. ASSUME NEW i \in Instances, RecvError(i) PROVE TypeOK'
  BY <1>8 DEF RecvError, Goto
<1>9. ASSUME NEW i \in Instances, Remove(i) PROVE TypeOK'
  <2>1. key' \in 1..MaxQueues \cup {0} /\ msgs' \in Seq(1..MaxMsgs) /\ Len(msgs') <= Cap
    <3>1. CASE mine[i] = key
      BY <1>9, <3>1 DEF Remove
    <3>2. CASE mine[i] # key
      BY <1>9, <3>2 DEF Remove
    <3> QED BY <3>1, <3>2
  <2>2. /\ UNCHANGED <<created, listening, hand, target, sent, handled, kills>>
        /\ mine' = [mine EXCEPT ![i] = 0]
        /\ pc' = [pc EXCEPT ![i] = "down"]
    BY <1>9 DEF Remove, Goto
  <2>3. {msgs[j] : j \in DOMAIN msgs} \subseteq 1..MaxMsgs
    OBVIOUS
  <2>4. dropped' \subseteq 1..MaxMsgs
    BY <1>9, <2>3 DEF Remove
  <2> QED BY <2>1, <2>2, <2>4
<1>10. ASSUME NEW i \in Instances, Kill(i) PROVE TypeOK'
  <2>1. dropped' \subseteq 1..MaxMsgs /\ listening' \subseteq Instances
    BY <1>10 DEF Kill
  <2>2. kills' \in 0..MaxKills
    BY <1>10 DEF Kill
  <2>3. /\ UNCHANGED <<key, created, msgs, target, sent, handled>>
        /\ mine' = [mine EXCEPT ![i] = 0]
        /\ hand' = [hand EXCEPT ![i] = {}]
        /\ pc' = [pc EXCEPT ![i] = "down"]
    BY <1>10 DEF Kill, Goto
  <2> QED BY <2>1, <2>2, <2>3
<1>11. ASSUME NEW s \in Senders, Attach(s) \/ PutFail(s) PROVE TypeOK'
  BY <1>11 DEF Attach, PutFail
<1>13. ASSUME NEW s \in Senders, Put(s) PROVE TypeOK'
  <2>1. sent' \in 0..MaxMsgs /\ sent' \in 1..MaxMsgs
    BY <1>13 DEF Put
  <2>2. msgs' \in Seq(1..MaxMsgs) /\ Len(msgs') <= Cap
    BY <1>13, <2>1 DEF Put
  <2>3. /\ UNCHANGED <<key, created, listening, pc, mine, hand, handled, dropped, kills>>
        /\ target' = [target EXCEPT ![s] = 0]
    BY <1>13 DEF Put
  <2> QED BY <2>1, <2>2, <2>3
<1>12. CASE UNCHANGED vars
  BY <1>12 DEF vars
<1> QED
  BY <1>1, <1>2, <1>3, <1>4, <1>5, <1>6, <1>7, <1>8, <1>9, <1>10, <1>11, <1>12, <1>13
  DEF Next, Run, Send

LEMMA InitTyped == Init => TypeOK
BY OwnershipAssumption DEF Init, TypeOK, Ids, Msgs, Running

(* Every variable keeps its type, and the queue never holds more than Cap   *)
(* messages, however instances overlap (MsgQueue::send blocks when full).   *)
THEOREM QueueTypes == Spec => []TypeOK
<1>1. QED BY InitTyped, Typing, PTL DEF Spec

-----------------------------------------------------------------------------
(* One instance at a time: whoever is up has opened the queue that is under *)
(* the key now, and nobody but it could have removed it.                    *)

Opened == {"bind", "join", "exit"} \cup Running

SingleInv ==
  /\ TypeOK
  /\ \A i \in Instances : pc[i] \in Opened => mine[i] = key /\ Alone(i)

LEMMA SingleStep == SingleInv /\ [NextSingle]_vars => SingleInv'
<1> SUFFICES ASSUME SingleInv, [NextSingle]_vars PROVE SingleInv'
  OBVIOUS
<1>0. TypeOK'
  BY Typing DEF SingleInv, NextSingle, Next
<1> USE DEF SingleInv, TypeOK, Opened, Running, Alone, queue, result
<1>1. ASSUME NEW i \in Instances, Open(i), Alone(i) PROVE SingleInv'
  BY <1>0, <1>1 DEF Open, Goto
<1>2. ASSUME NEW i \in Instances, Bind(i) \/ BindFail(i) \/ Join(i) \/ JoinFail(i)
      PROVE SingleInv'
  BY <1>0, <1>2 DEF Bind, BindFail, Join, JoinFail, Goto
<1>3. ASSUME NEW i \in Instances, Recv(i) \/ Handle(i) \/ RecvError(i)
      PROVE SingleInv'
  BY <1>0, <1>3 DEF Recv, Handle, RecvError, Goto
<1>4. ASSUME NEW i \in Instances, Remove(i) \/ Kill(i) PROVE SingleInv'
  BY <1>0, <1>4 DEF Remove, Kill, Goto
<1>5. ASSUME NEW s \in Senders, Send(s) PROVE SingleInv'
  BY <1>0, <1>5 DEF Send, Attach, Put, PutFail
<1>6. CASE UNCHANGED vars
  BY <1>0, <1>6 DEF vars
<1> QED
  BY <1>1, <1>2, <1>3, <1>4, <1>5, <1>6 DEF NextSingle, Run

(* If instances never overlap, a running process keeps its queue through    *)
(* any kills, failed starts and restarts (MsgQueue's destructor).           *)
THEOREM OwnerKeepsQueue == SpecSingle => []RunnerHasQueue
<1>1. Init => SingleInv
  BY InitTyped DEF Init, SingleInv, Opened, Running
<1>2. SingleInv => RunnerHasQueue
  BY DEF SingleInv, RunnerHasQueue, Opened
<1> QED BY <1>1, <1>2, SingleStep, PTL DEF SpecSingle

-----------------------------------------------------------------------------
(* Overlapping instances of a program with a port: only the holder of the   *)
(* port is past "bind", so at most one message is in hand, and it was       *)
(* accepted after all those handled and before all those queued.            *)

PortInv ==
  \A i \in Instances :
    /\ pc[i] \in {"join"} \cup Running => listening = {i}
    /\ hand[i] # {} => pc[i] = "handle"

OrderInv ==
  /\ \A j, k \in DOMAIN msgs : j < k => msgs[j] < msgs[k]
  /\ \A j \in DOMAIN msgs : msgs[j] <= sent
  /\ \A i \in Instances : \A m \in hand[i] :
       m <= sent /\ \A j \in DOMAIN msgs : m < msgs[j]
  /\ \A i \in Instances : \A m, n \in hand[i] : m = n
  /\ \A k \in DOMAIN handled :
       /\ handled[k] <= sent
       /\ \A j \in DOMAIN msgs : handled[k] < msgs[j]
       /\ \A i \in Instances : \A m \in hand[i] : handled[k] < m
  /\ HandledInOrder

LEMMA PortStep ==
  ASSUME BindsPort
  PROVE  TypeOK /\ PortInv /\ [Next]_vars => PortInv'
<1> SUFFICES ASSUME TypeOK, PortInv, [Next]_vars PROVE PortInv'
  OBVIOUS
<1> USE DEF TypeOK, PortInv, Running, queue, result
<1>1. ASSUME NEW i \in Instances, Open(i) \/ Bind(i) \/ BindFail(i) PROVE PortInv'
  <2>1. CASE Open(i)
    BY <2>1 DEF Open, Goto
  <2>2. CASE Bind(i)
    BY <2>2 DEF Bind, Goto
  <2>3. CASE BindFail(i)
    BY <2>3 DEF BindFail, Goto
  <2> QED BY ONLY <1>1, <2>1, <2>2, <2>3
<1>2. ASSUME NEW i \in Instances, Join(i) \/ JoinFail(i) PROVE PortInv'
  BY <1>2 DEF Join, JoinFail, Goto
<1>3. ASSUME NEW i \in Instances, Recv(i) \/ Handle(i) \/ RecvError(i) PROVE PortInv'
  BY <1>3 DEF Recv, Handle, RecvError, Goto
<1>4. ASSUME NEW i \in Instances, Remove(i) \/ Kill(i) PROVE PortInv'
  BY <1>4 DEF Remove, Kill, Goto
<1>5. ASSUME NEW s \in Senders, Send(s) PROVE PortInv'
  BY <1>5 DEF Send, Attach, Put, PutFail
<1>6. CASE UNCHANGED vars
  BY <1>6 DEF vars
<1> QED
  BY <1>1, <1>2, <1>3, <1>4, <1>5, <1>6 DEF Next, Run

LEMMA OrderStep ==
  ASSUME BindsPort
  PROVE  TypeOK /\ PortInv /\ OrderInv /\ [Next]_vars => OrderInv'
<1> SUFFICES ASSUME TypeOK, PortInv, OrderInv, [Next]_vars PROVE OrderInv'
  OBVIOUS
<1> USE DEF TypeOK, PortInv, OrderInv, HandledInOrder, Running, queue, result, Msgs
<1>0. /\ sent \in Int
      /\ msgs \in Seq(Int) /\ DOMAIN msgs = 1..Len(msgs) /\ Len(msgs) \in Nat
      /\ \A j \in DOMAIN msgs : msgs[j] \in Int
      /\ \A j \in DOMAIN handled : handled[j] \in Int
  BY OwnershipAssumption
<1>1. ASSUME UNCHANGED <<msgs, hand, sent, handled>> PROVE OrderInv'
  BY <1>1
<1>2. ASSUME NEW i \in Instances, Recv(i) PROVE OrderInv'
  <2>0. Head(msgs) = msgs[1]
    BY <1>0
  <2>1. /\ msgs \in Seq(Int) /\ msgs # <<>>
        /\ msgs' = Tail(msgs) /\ hand' = [hand EXCEPT ![i] = {msgs[1]}]
        /\ UNCHANGED <<sent, handled>>
    BY <1>0, <1>2, <2>0 DEF Recv
  <2>2. /\ 1 \in DOMAIN msgs
        /\ \A j \in DOMAIN msgs' : j + 1 \in DOMAIN msgs /\ msgs'[j] = msgs[j + 1]
    BY <2>1
  <2>3. \A j \in DOMAIN msgs' : msgs[1] < msgs'[j]
    BY <2>1, <2>2
  <2>4. \A j, k \in DOMAIN msgs' : j < k => msgs'[j] < msgs'[k]
    BY <2>1, <2>2
  <2>5. \A h \in Instances : h # i => hand[h] = {}
    BY <1>2 DEF Recv
  <2>6. \A h \in Instances : hand'[h] = IF h = i THEN {msgs[1]} ELSE {}
    BY <2>1, <2>5
  <2>7. \A h \in Instances : \A m \in hand'[h] : m = msgs[1]
    BY <2>6
  <2>8. \A k \in DOMAIN handled : handled[k] < msgs[1] /\ \A j \in DOMAIN msgs' : handled[k] < msgs'[j]
    BY <2>1, <2>2
  <2>9. \A j \in DOMAIN msgs' : msgs'[j] <= sent'
    BY <2>1, <2>2
  <2>10. msgs[1] <= sent'
    BY <2>1, <2>2
  <2> QED BY <2>1, <2>3, <2>4, <2>7, <2>8, <2>9, <2>10
<1>3. ASSUME NEW i \in Instances, Handle(i) PROVE OrderInv'
  <2>1. PICK m \in hand[i] : handled' = Append(handled, m)
    BY <1>3 DEF Handle
  <2>2. /\ hand' = [hand EXCEPT ![i] = {}]
        /\ UNCHANGED <<msgs, sent>>
    BY <1>3 DEF Handle
  <2>3. \A h \in Instances : hand'[h] = {}
    <3>1. listening = {i}
      BY <1>3 DEF Handle
    <3>2. \A h \in Instances : h # i => hand[h] = {}
      BY <3>1
    <3> QED BY <2>2, <3>2
  <2>4. m <= sent /\ (\A j \in DOMAIN msgs : m < msgs[j])
        /\ \A k \in DOMAIN handled : handled[k] < m
    BY <2>1
  <2>5. /\ Len(handled') = Len(handled) + 1
        /\ handled'[Len(handled) + 1] = m
        /\ \A k \in DOMAIN handled : handled'[k] = handled[k]
        /\ DOMAIN handled' = 1..(Len(handled) + 1) /\ DOMAIN handled = 1..Len(handled)
    BY <2>1
  <2>6. \A k \in DOMAIN handled' : handled'[k] <= sent /\ \A j \in DOMAIN msgs : handled'[k] < msgs[j]
    BY <2>4, <2>5
  <2>7. \A j, k \in DOMAIN handled' : j < k => handled'[j] < handled'[k]
    BY <2>4, <2>5
  <2> QED BY <2>2, <2>3, <2>6, <2>7
<1>4. ASSUME NEW i \in Instances, Remove(i) PROVE OrderInv'
  <2>1. UNCHANGED <<hand, sent, handled>> /\ (msgs' = msgs \/ msgs' = <<>>)
    BY <1>4 DEF Remove
  <2>2. DOMAIN <<>> = {}
    OBVIOUS
  <2> QED BY <2>1, <2>2
<1>5. ASSUME NEW i \in Instances, Kill(i) PROVE OrderInv'
  <2>1. UNCHANGED <<msgs, sent, handled>> /\ hand' = [hand EXCEPT ![i] = {}]
    BY <1>5 DEF Kill
  <2>2. \A h \in Instances : hand'[h] \subseteq hand[h]
    BY <2>1
  <2> QED BY <2>1, <2>2
<1>6. ASSUME NEW s \in Senders, Put(s) PROVE OrderInv'
  <2>1. sent' = sent + 1 /\ msgs' = Append(msgs, sent + 1) /\ UNCHANGED <<hand, handled>>
    BY <1>6 DEF Put
  <2>2. /\ DOMAIN msgs' = 1..(Len(msgs) + 1)
        /\ msgs'[Len(msgs) + 1] = sent + 1
        /\ \A j \in DOMAIN msgs : msgs'[j] = msgs[j]
    BY <1>0, <2>1
  <2>3. ASSUME NEW j \in DOMAIN msgs', NEW k \in DOMAIN msgs', j < k
        PROVE  msgs'[j] < msgs'[k]
    <3>1. j \in DOMAIN msgs /\ msgs'[j] = msgs[j] /\ msgs[j] <= sent
      BY <1>0, <2>2, <2>3
    <3>2. CASE k \in DOMAIN msgs
      BY <2>2, <2>3, <3>1, <3>2
    <3>3. CASE k = Len(msgs) + 1
      BY <1>0, <2>2, <3>1, <3>3
    <3> QED BY <1>0, <2>2, <3>2, <3>3
  <2>4. \A j \in DOMAIN msgs' : msgs'[j] <= sent'
    BY <1>0, <2>1, <2>2
  <2>5. \A h \in Instances : \A m \in hand[h] : m <= sent' /\ \A j \in DOMAIN msgs' : m < msgs'[j]
    BY <1>0, <2>1, <2>2
  <2>6. \A k \in DOMAIN handled : handled[k] <= sent' /\ \A j \in DOMAIN msgs' : handled[k] < msgs'[j]
    BY <1>0, <2>1, <2>2
  <2> QED BY <2>1, <2>3, <2>4, <2>5, <2>6
<1>7. ASSUME NEW i \in Instances,
             Open(i) \/ Bind(i) \/ BindFail(i) \/ Join(i) \/ JoinFail(i) \/ RecvError(i)
      PROVE  UNCHANGED <<msgs, hand, sent, handled>>
  BY <1>7 DEF Open, Bind, BindFail, Join, JoinFail, RecvError
<1>8. ASSUME NEW s \in Senders, Attach(s) \/ PutFail(s)
      PROVE  UNCHANGED <<msgs, hand, sent, handled>>
  BY <1>8 DEF Attach, PutFail
<1>9. ASSUME UNCHANGED vars PROVE UNCHANGED <<msgs, hand, sent, handled>>
  BY <1>9 DEF vars
<1> QED
  BY <1>1, <1>2, <1>3, <1>4, <1>5, <1>6, <1>7, <1>8, <1>9 DEF Next, Run, Send

(* For a program with a port, however its instances overlap: messages are   *)
(* handled in the order they were accepted, none twice (Process::run).      *)
THEOREM OverlapKeepsOrder == BindsPort => (Spec => []HandledInOrder)
<1>1. SUFFICES ASSUME BindsPort PROVE Spec => []HandledInOrder
  OBVIOUS
<1>2. Init => PortInv /\ OrderInv
  <2>1. DOMAIN <<>> = {}
    OBVIOUS
  <2> QED BY <2>1 DEF Init, PortInv, OrderInv, HandledInOrder, Running
<1>3. OrderInv => HandledInOrder
  BY DEF OrderInv
<1>4. TypeOK /\ PortInv /\ [Next]_vars => PortInv'
  BY <1>1, PortStep
<1>5. TypeOK /\ PortInv /\ OrderInv /\ [Next]_vars => OrderInv'
  BY <1>1, OrderStep
<1> QED BY <1>2, <1>3, <1>4, <1>5, InitTyped, Typing, PTL DEF Spec
=============================================================================
