------------------------- MODULE CommandPathAckProofs -------------------------
(***************************************************************************)
(* Acknowledgements on CommandPath keep the order of the commands they     *)
(* answer, and mean what they say: proofs for any number of terminals.     *)
(***************************************************************************)
EXTENDS CommandPathOrderProofs

-----------------------------------------------------------------------------
(* The way back.  Acknowledgements of different terminals' commands overtake *)
(* one another; those of one terminal's do not.                             *)

AheadOf(A, B) == \A a \in A, b \in B : log[a] = log[b] => a < b

InTurn(s) == \A i, j \in DOMAIN s : i < j /\ log[s[i]] = log[s[j]] => s[i] < s[j]

Unacked ==
  Upstream \cup UNION {Held(queue[t]) \cup Held(hand[t]) : t \in Terms}

Responding   == IF pc[GW] = "handle" THEN Held(hand[GW]) ELSE {}
AckQueued    == Held(queue[GW]) \cup Unacked
AckAtGateway == Responding \cup AckQueued
AckComing    == Held(down[GW]) \cup AckAtGateway

AcksInOrder ==
  /\ InTurn(queue[GW]) /\ InTurn(down[GW]) /\ InTurn(acked)
  /\ AheadOf(Held(queue[GW]), Unacked)
  /\ AheadOf(Responding, AckQueued)
  /\ AheadOf(Held(down[GW]), AckAtGateway)
  /\ AheadOf(Held(acked), AckComing)
  /\ Held(queue[GW]) \cup Responding \cup Held(down[GW]) \cup Held(acked) \subseteq DOMAIN log

AckInv == OrderInv /\ AcksInOrder

-----------------------------------------------------------------------------
(* Order.                                                                   *)

LEMMA TurnTail ==
  ASSUME NEW s \in Seq(Cmds), s # <<>>, InTurn(s)
  PROVE  InTurn(Tail(s)) /\ AheadOf({Head(s)}, Held(Tail(s)))
<1> DEFINE u == Tail(s)
<1>1. /\ Len(s) \in Nat /\ Len(s) >= 1 /\ DOMAIN s = 1..Len(s)
      /\ DOMAIN u = 1..Len(s) - 1
      /\ \A i \in 1..Len(s) - 1 : u[i] = s[i + 1]
      /\ Head(s) = s[1]
  BY LenProperties, HeadTailProperties, EmptySeq
<1> HIDE DEF u
<1>2. ASSUME NEW i \in 1..Len(s) - 1, NEW j \in 1..Len(s) - 1, i < j, log[u[i]] = log[u[j]]
      PROVE  u[i] < u[j]
  <2>1. i + 1 \in 1..Len(s) /\ j + 1 \in 1..Len(s) /\ i + 1 < j + 1
    BY <1>1, <1>2
  <2> QED BY <1>1, <1>2, <2>1 DEF InTurn
<1>3. ASSUME NEW j \in 1..Len(s) - 1, log[Head(s)] = log[u[j]] PROVE Head(s) < u[j]
  <2>1. 1 \in 1..Len(s) /\ j + 1 \in 1..Len(s) /\ 1 < j + 1
    BY <1>1
  <2> QED BY <1>1, <1>3, <2>1 DEF InTurn
<1> QED BY <1>1, <1>2, <1>3 DEF InTurn, AheadOf, Held, u

LEMMA TurnAppend ==
  ASSUME NEW s \in Seq(Cmds), NEW n \in Cmds, InTurn(s), AheadOf(Held(s), {n})
  PROVE  InTurn(Append(s, n))
<1> DEFINE a == Append(s, n)
<1>1. /\ Len(s) \in Nat /\ DOMAIN s = 1..Len(s)
      /\ DOMAIN a = 1..Len(s) + 1
      /\ \A i \in 1..Len(s) : a[i] = s[i]
      /\ a[Len(s) + 1] = n
  BY LenProperties, AppendProperties
<1> HIDE DEF a
<1> SUFFICES ASSUME NEW i \in 1..Len(s) + 1, NEW j \in 1..Len(s) + 1, i < j,
                    log[a[i]] = log[a[j]]
             PROVE  a[i] < a[j]
  BY <1>1 DEF InTurn, a
<1>2. i \in 1..Len(s)
  BY <1>1
<1>3. CASE j \in 1..Len(s)
  BY <1>1, <1>2, <1>3 DEF InTurn
<1>4. CASE j = Len(s) + 1
  BY <1>1, <1>2, <1>4 DEF AheadOf, Held
<1> QED BY <1>1, <1>3, <1>4, LastIndex

LEMMA UnackedStays ==
  ASSUME NothingBack,
         \A t \in Terms : Held(hand'[t]) \subseteq Held(hand[t]) \cup Held(queue[t])
  PROVE  Unacked' \subseteq Unacked
<1>1. \A t \in Terms : /\ Held(queue'[t]) \subseteq Held(queue[t]) \cup Upstream
                       /\ Held(hand'[t]) \subseteq Held(queue[t]) \cup Held(hand[t])
  BY DEF NothingBack, ToTermd
<1> QED BY <1>1 DEF Unacked, NothingBack

LEMMA AcksStay ==
  ASSUME log' = log, InTurn(queue'[GW]), InTurn(down'[GW]), InTurn(acked'),
         AheadOf(Held(queue'[GW]), Unacked'), AheadOf(Responding', AckQueued'),
         AheadOf(Held(down'[GW]), AckAtGateway'), AheadOf(Held(acked'), AckComing'),
         Held(queue'[GW]) \cup Responding' \cup Held(down'[GW]) \cup Held(acked') \subseteq DOMAIN log
  PROVE  AcksInOrder'
<1>1. (InTurn(queue[GW]) /\ InTurn(down[GW]) /\ InTurn(acked))'
  BY DEF InTurn
<1>2. /\ AheadOf(Held(queue[GW]), Unacked)' /\ AheadOf(Responding, AckQueued)'
      /\ AheadOf(Held(down[GW]), AckAtGateway)' /\ AheadOf(Held(acked), AckComing)'
  BY DEF AheadOf
<1> QED BY <1>1, <1>2 DEF AcksInOrder

(* The steps that pass no acknowledgement on.                               *)
AcksNothing ==
  /\ UNCHANGED <<log, acked>>
  /\ queue'[GW] \in {queue[GW], <<>>}
  /\ pc'[GW] = "handle" => pc[GW] = "handle" /\ hand'[GW] = hand[GW]
  /\ down'[GW] \in {down[GW], <<>>}

LEMMA AcksNothingOrdered ==
  ASSUME AcksInOrder, AcksNothing, Unacked' \subseteq Unacked
  PROVE  AcksInOrder'
<1>1. Held(queue'[GW]) \subseteq Held(queue[GW]) /\ Held(acked') = Held(acked)
  BY HeldEmpty DEF AcksNothing
<1>2. Held(down'[GW]) \subseteq Held(down[GW])
  BY HeldEmpty DEF AcksNothing
<1>3. Responding' \subseteq Responding
  BY DEF AcksNothing, Responding
<1>4. AckQueued' \subseteq AckQueued
  BY <1>1 DEF AckQueued
<1>5. AckAtGateway' \subseteq AckAtGateway
  BY <1>3, <1>4 DEF AckAtGateway
<1>6. AckComing' \subseteq AckComing
  BY <1>2, <1>5 DEF AckComing
<1>7. InTurn(<<>>)
  BY DEF InTurn
<1>8. InTurn(down'[GW]) /\ InTurn(queue'[GW]) /\ InTurn(acked') /\ log' = log
  BY <1>7 DEF AcksInOrder, AcksNothing
<1>9. /\ AheadOf(Held(queue'[GW]), Unacked') /\ AheadOf(Responding', AckQueued')
      /\ AheadOf(Held(down'[GW]), AckAtGateway') /\ AheadOf(Held(acked'), AckComing')
  BY <1>1, <1>2, <1>3, <1>4, <1>5, <1>6 DEF AcksInOrder, AheadOf
<1> QED BY <1>1, <1>2, <1>3, <1>8, <1>9, AcksStay DEF AcksInOrder

(* A termd acknowledges the oldest command it has, which is older than all  *)
(* that may still reach it.                                                 *)
LEMMA TermdAckInOrder ==
  ASSUME OrderInv, AcksInOrder, NEW t \in Terms, TermdAck(t), Unacked' \subseteq Unacked
  PROVE  AcksInOrder'
<1>1. /\ queue \in [Procs -> Seq(Cmds)] /\ hand \in [Procs -> Seq(Cmds)]
      /\ pc \in [Procs -> {"down", "init", "loop", "handle", "forward", "ack", "accepted", "lost"}]
      /\ t \in Procs /\ GW \in Procs \ {t} /\ LOC \in Procs \ {GW, t}
      /\ Terms \subseteq Procs \ {GW, LOC}
  BY PathAssumption DEF OrderInv, PathInv, TypeOK, Servers, Procs
<1> DEFINE h == Head(hand[t])
<1>2. /\ pc[t] = "ack" /\ hand'[t] = <<>>
      /\ \A p \in Procs \ {t} : hand'[p] = hand[p] /\ pc'[p] = pc[p]
      /\ UNCHANGED <<log, acked, down, client, pend>>
  BY <1>1 DEF TermdAck, Goto, net, user
<1>3. Held(hand[t]) = {h} /\ h \in Cmds
  BY <1>1, <1>2, OneInHand DEF OrderInv
<1> HIDE DEF h
<1>4. /\ queue'[GW] \in {queue[GW], Append(queue[GW], h)}
      /\ \A p \in Procs \ {GW} : queue'[p] = queue[p]
  BY <1>1 DEF TermdAck, SendTo, Enqueue, h
<1>5. /\ h \in Unacked /\ h \in DOMAIN log /\ log[h] = t
      /\ \A n \in Unacked : n \notin Held(hand[t]) /\ log[n] = t => h < n
  <2>1. h \in Unacked /\ h \in DOMAIN log /\ log[h] = t
    BY <1>3 DEF Unacked, OrderInv, Ordered, Addressed
  <2>2. Below({h}, ToTermd(t))
    BY <1>3 DEF OrderInv, Ordered, StagesInOrder
  <2>3. ASSUME NEW n \in Unacked, n \notin Held(hand[t]), log[n] = t PROVE h < n
    <3>1. \A u \in Terms : n \in Held(queue[u]) \cup Held(hand[u]) => u = t
      BY <2>3 DEF OrderInv, Ordered, Addressed
    <3>2. n \in Upstream \/ n \in Held(queue[t])
      BY <2>3, <3>1 DEF Unacked
    <3>3. n \in ToTermd(t)
      BY <3>2 DEF ToTermd
    <3> QED BY <2>2, <3>3 DEF Below
  <2> QED BY <2>1, <2>3
<1>6. Unacked' \subseteq Unacked \ {h}
  <2>1. Upstream' = Upstream
    BY <1>1, <1>2, <1>4 DEF Upstream, ToLocator, AtGateway, Forwarding, InSockets, Queued, Routing, Stray
  <2>2. ASSUME h \in Unacked' PROVE FALSE
    <3>1. h \notin Upstream /\ h \notin Held(queue[t])
      <4>1. ~(h < h)
        BY <1>3 DEF Cmds
      <4>2. Below({h}, ToTermd(t))
        BY <1>3 DEF OrderInv, Ordered, StagesInOrder
      <4> QED BY <4>1, <4>2 DEF Below, ToTermd
    <3>2. \A u \in Terms : h \in Held(queue[u]) \cup Held(hand[u]) => u = t
      BY <1>5 DEF OrderInv, Ordered, Addressed
    <3>3. \A u \in Terms \ {t} : h \notin Held(queue'[u]) \cup Held(hand'[u])
      BY <1>1, <1>2, <1>4, <3>2
    <3>4. h \notin Held(queue'[t]) \cup Held(hand'[t])
      BY <1>1, <1>2, <1>4, <3>1, HeldEmpty
    <3>5. h \notin Upstream'
      BY <2>1, <3>1
    <3> QED BY <2>2, <3>3, <3>4, <3>5 DEF Unacked
  <2> QED BY <2>2
<1>7. queue[GW] \in Seq(Cmds) /\ InTurn(queue[GW]) /\ AheadOf(Held(queue[GW]), {h})
  BY <1>1, <1>5 DEF AcksInOrder, AheadOf
<1>8. InTurn(queue'[GW]) /\ Held(queue'[GW]) \subseteq Held(queue[GW]) \cup {h}
  <2>1. CASE queue'[GW] = queue[GW]
    BY <1>7, <2>1
  <2>2. CASE queue'[GW] = Append(queue[GW], h)
    BY <1>3, <1>7, <2>2, TurnAppend, HeldAppend
  <2> QED BY <1>4, <2>1, <2>2
<1>9. Responding' = Responding
  BY <1>1, <1>2 DEF Responding
<1>10. AckQueued' \subseteq AckQueued
  BY <1>5, <1>6, <1>8 DEF AckQueued
<1>11. AckAtGateway' \subseteq AckAtGateway
  BY <1>9, <1>10 DEF AckAtGateway
<1>12. AckComing' \subseteq AckComing
  BY <1>2, <1>11 DEF AckComing
<1>13. AheadOf(Held(queue'[GW]), Unacked')
  <2>1. AheadOf(Held(queue[GW]), Unacked)
    BY DEF AcksInOrder
  <2>2. AheadOf({h}, Unacked \ {h})
    BY <1>3, <1>5 DEF AheadOf
  <2> QED BY <1>6, <1>8, <2>1, <2>2 DEF AheadOf
<1>14. /\ AheadOf(Responding', AckQueued') /\ AheadOf(Held(down'[GW]), AckAtGateway')
       /\ AheadOf(Held(acked'), AckComing')
  BY <1>2, <1>9, <1>10, <1>11, <1>12 DEF AcksInOrder, AheadOf
<1>15. /\ InTurn(down'[GW]) /\ InTurn(acked') /\ log' = log
       /\ Held(queue'[GW]) \cup Responding' \cup Held(down'[GW]) \cup Held(acked') \subseteq DOMAIN log
  BY <1>2, <1>5, <1>8, <1>9 DEF AcksInOrder
<1> QED BY <1>8, <1>13, <1>14, <1>15, AcksStay

LEMMA GatewayRecvAcks ==
  ASSUME OrderInv, AcksInOrder, Recv(GW), Unacked' \subseteq Unacked
  PROVE  AcksInOrder'
<1>1. /\ queue \in [Procs -> Seq(Cmds)] /\ hand \in [Procs -> Seq(Cmds)]
      /\ pc \in [Procs -> {"down", "init", "loop", "handle", "forward", "ack", "accepted", "lost"}]
      /\ GW \in Procs
  BY DEF OrderInv, PathInv, TypeOK, Servers, Procs
<1> DEFINE h == Head(queue[GW])
<1>2. /\ pc[GW] = "loop" /\ queue[GW] # <<>>
      /\ queue'[GW] = Tail(queue[GW]) /\ hand'[GW] = <<h>> /\ pc'[GW] = "handle"
      /\ UNCHANGED <<log, acked, down>>
  BY <1>1 DEF Recv, Goto, net, user
<1>3. queue[GW] \in Seq(Cmds) /\ InTurn(queue[GW])
  BY <1>1 DEF AcksInOrder
<1>4. /\ Held(queue[GW]) = {h} \cup Held(queue'[GW])
      /\ InTurn(queue'[GW]) /\ AheadOf({h}, Held(queue'[GW]))
  BY <1>2, <1>3, OrderTail, TurnTail
<1>5. Responding' = {h}
  BY <1>2, HeldOne DEF Responding
<1> HIDE DEF h
<1>6. AckQueued' \subseteq AckQueued /\ h \in AckQueued
  BY <1>4 DEF AckQueued
<1>7. AckAtGateway' \subseteq AckAtGateway
  BY <1>5, <1>6 DEF AckAtGateway
<1>8. AckComing' \subseteq AckComing
  BY <1>2, <1>7 DEF AckComing
<1>9. AheadOf(Held(queue'[GW]), Unacked') /\ AheadOf({h}, Unacked')
  BY <1>4 DEF AcksInOrder, AheadOf
<1>10. AheadOf(Responding', AckQueued')
  BY <1>4, <1>5, <1>9 DEF AheadOf, AckQueued
<1>11. AheadOf(Held(down'[GW]), AckAtGateway') /\ AheadOf(Held(acked'), AckComing')
  BY <1>2, <1>7, <1>8 DEF AcksInOrder, AheadOf
<1>12. /\ InTurn(down'[GW]) /\ InTurn(acked') /\ log' = log
       /\ Held(queue'[GW]) \cup Responding' \cup Held(down'[GW]) \cup Held(acked') \subseteq DOMAIN log
  BY <1>2, <1>4, <1>5 DEF AcksInOrder
<1> QED BY <1>4, <1>9, <1>10, <1>11, <1>12, AcksStay

LEMMA GatewayRespondAcks ==
  ASSUME OrderInv, AcksInOrder, GatewayRespond, Unacked' \subseteq Unacked
  PROVE  AcksInOrder'
<1>1. /\ pc \in [Procs -> {"down", "init", "loop", "handle", "forward", "ack", "accepted", "lost"}]
      /\ client \in [Servers -> Seq(Sock)] /\ down \in [Servers -> Seq(Cmds)]
      /\ GW \in Procs /\ GW \in Servers
  BY DEF OrderInv, PathInv, TypeOK, Servers, Procs
<1> DEFINE h == Head(hand[GW])
<1>2. /\ pc[GW] = "handle" /\ pc'[GW] = "loop"
      /\ UNCHANGED <<log, acked, queue>>
  BY <1>1 DEF GatewayRespond, Goto, user
<1>3. down'[GW] \in {down[GW], Append(down[GW], h)}
  BY <1>1 DEF GatewayRespond, Reply, TcpSend
<1>4. Responding = {h} /\ h \in Cmds /\ Responding' = {}
  <2>1. Held(hand[GW]) = {h} /\ h \in Cmds
    BY <1>1, <1>2, OneInHand DEF OrderInv
  <2> HIDE DEF h
  <2> QED BY <1>2, <2>1 DEF Responding
<1> HIDE DEF h
<1>5. h \in AckAtGateway /\ down[GW] \in Seq(Cmds)
  BY <1>1, <1>4 DEF AckAtGateway
<1>6. AheadOf(Held(down[GW]), {h}) /\ InTurn(down[GW])
  BY <1>5 DEF AcksInOrder, AheadOf
<1>7. InTurn(down'[GW]) /\ Held(down'[GW]) \subseteq Held(down[GW]) \cup {h}
  <2>1. CASE down'[GW] = down[GW]
    BY <1>6, <2>1
  <2>2. CASE down'[GW] = Append(down[GW], h)
    BY <1>4, <1>5, <1>6, <2>2, TurnAppend, HeldAppend
  <2> QED BY <1>3, <2>1, <2>2
<1>8. AckQueued' \subseteq AckQueued
  BY <1>2 DEF AckQueued
<1>9. AckAtGateway' \subseteq AckQueued /\ AckQueued \subseteq AckAtGateway
  BY <1>4, <1>8 DEF AckAtGateway
<1>10. AckComing' \subseteq AckComing
  BY <1>5, <1>7, <1>9 DEF AckComing
<1>11. AheadOf(Held(queue'[GW]), Unacked') /\ AheadOf(Responding', AckQueued')
  BY <1>2, <1>4 DEF AcksInOrder, AheadOf
<1>12. AheadOf(Held(down'[GW]), AckAtGateway')
  BY <1>4, <1>7, <1>9 DEF AcksInOrder, AheadOf
<1>13. AheadOf(Held(acked'), AckComing')
  BY <1>2, <1>10 DEF AcksInOrder, AheadOf
<1>14. /\ InTurn(queue'[GW]) /\ InTurn(acked') /\ log' = log
       /\ Held(queue'[GW]) \cup Responding' \cup Held(down'[GW]) \cup Held(acked') \subseteq DOMAIN log
  BY <1>2, <1>4, <1>7 DEF AcksInOrder
<1> QED BY <1>7, <1>11, <1>12, <1>13, <1>14, AcksStay

LEMMA MaintReadAcks ==
  ASSUME OrderInv, AcksInOrder, MaintRead, Unacked' \subseteq Unacked
  PROVE  AcksInOrder'
<1>1. down \in [Servers -> Seq(Cmds)] /\ GW \in Servers /\ acked \in Seq(Cmds)
  BY DEF OrderInv, PathInv, TypeOK, Servers
<1> DEFINE h == Head(down[GW])
<1>2. /\ down[GW] # <<>> /\ down'[GW] = Tail(down[GW]) /\ acked' = Append(acked, h)
      /\ UNCHANGED <<log, queue, pc, hand>>
  BY <1>1 DEF MaintRead
<1>3. down[GW] \in Seq(Cmds) /\ InTurn(down[GW]) /\ h \in Cmds
  BY <1>1, <1>2, HeadTailProperties DEF AcksInOrder
<1>4. /\ Held(down[GW]) = {h} \cup Held(down'[GW])
      /\ InTurn(down'[GW]) /\ AheadOf({h}, Held(down'[GW]))
  BY <1>2, <1>3, OrderTail, TurnTail
<1> HIDE DEF h
<1>5. h \in AckComing /\ InTurn(acked) /\ AheadOf(Held(acked), {h})
  BY <1>4 DEF AckComing, AcksInOrder, AheadOf
<1>6. InTurn(acked') /\ Held(acked') = Held(acked) \cup {h}
  BY <1>1, <1>2, <1>3, <1>5, TurnAppend, HeldAppend
<1>7. Responding' = Responding /\ AckQueued' \subseteq AckQueued
  BY <1>2 DEF Responding, AckQueued
<1>8. AckAtGateway' \subseteq AckAtGateway
  BY <1>7 DEF AckAtGateway
<1>9. AckComing' = Held(down'[GW]) \cup AckAtGateway' /\ AckComing' \subseteq AckComing
  BY <1>4, <1>8 DEF AckComing
<1>10. AheadOf(Held(queue'[GW]), Unacked') /\ AheadOf(Responding', AckQueued')
  BY <1>2, <1>7 DEF AcksInOrder, AheadOf
<1>11. AheadOf(Held(down'[GW]), AckAtGateway') /\ AheadOf({h}, AckComing')
  BY <1>4, <1>8, <1>9 DEF AcksInOrder, AheadOf
<1>12. AheadOf(Held(acked'), AckComing')
  BY <1>6, <1>9, <1>11 DEF AcksInOrder, AheadOf
<1>13. /\ InTurn(queue'[GW]) /\ log' = log
       /\ Held(queue'[GW]) \cup Responding' \cup Held(down'[GW]) \cup Held(acked') \subseteq DOMAIN log
  BY <1>2, <1>4, <1>6, <1>7 DEF AcksInOrder
<1> QED BY <1>4, <1>6, <1>10, <1>11, <1>12, <1>13, AcksStay

LEMMA SendLockAcks ==
  ASSUME OrderInv, AcksInOrder, NEW to \in Terms \cup Strangers, SendLock(to)
  PROVE  AcksInOrder'
<1> DEFINE n == Len(log) + 1
<1>1. log \in Seq(Terms \cup Strangers) /\ log' = Append(log, to)
  BY DEF OrderInv, PathInv, TypeOK, SendLock
<1>2. Len(log) \in Nat /\ DOMAIN log = 1..Len(log)
  BY <1>1, LenProperties
<1>3. \A k \in DOMAIN log : k < n /\ k \in DOMAIN log' /\ log'[k] = log[k]
  <2>1. DOMAIN log' = 1..n /\ \A k \in 1..Len(log) : log'[k] = log[k]
    BY <1>1, <1>2, AppendProperties, LenProperties
  <2> QED BY <1>2, <2>1
<1>4. UNCHANGED <<queue, pc, hand, down, acked>>
  BY DEF SendLock
<1>5. PICK new \in SUBSET {n} : Upstream' = Upstream \cup new
  BY SendLockOrdered DEF OrderInv
<1> HIDE DEF n
<1>6. Unacked' = Unacked \cup new
  BY <1>4, <1>5 DEF Unacked
<1>7. Responding' = Responding /\ AckQueued' = AckQueued \cup new
  BY <1>4, <1>6 DEF Responding, AckQueued
<1>8. AckAtGateway' = AckAtGateway \cup new
  BY <1>7 DEF AckAtGateway
<1>9. AckComing' = AckComing \cup new
  BY <1>4, <1>8 DEF AckComing
<1>10. Held(queue[GW]) \cup Responding \cup Held(down[GW]) \cup Held(acked) \subseteq DOMAIN log
  BY DEF AcksInOrder
<1>11. AckComing \subseteq DOMAIN log
  <2>1. Unacked \subseteq DOMAIN log
    BY DEF OrderInv, Ordered, Addressed, Unacked
  <2> QED BY <1>10, <2>1 DEF AckComing, AckAtGateway, AckQueued
<1>12. ASSUME NEW A, NEW B, A \subseteq DOMAIN log, B \subseteq DOMAIN log, AheadOf(A, B)
       PROVE  \A a \in A, b \in B \cup new : log'[a] = log'[b] => a < b
  <2> SUFFICES ASSUME NEW a \in A, NEW b \in B \cup new, log'[a] = log'[b] PROVE a < b
    OBVIOUS
  <2>1. CASE b \in B
    BY <1>3, <1>12, <2>1 DEF AheadOf
  <2>2. CASE b = n
    BY <1>3, <1>12, <2>2
  <2> QED BY <1>5, <2>1, <2>2
<1>13. Unacked \subseteq DOMAIN log /\ AckQueued \subseteq DOMAIN log /\ AckAtGateway \subseteq DOMAIN log
  BY <1>11 DEF AckComing, AckAtGateway, AckQueued
<1>14. /\ AheadOf(Held(queue[GW]), Unacked) /\ AheadOf(Responding, AckQueued)
       /\ AheadOf(Held(down[GW]), AckAtGateway) /\ AheadOf(Held(acked), AckComing)
  BY DEF AcksInOrder
<1>15. /\ AheadOf(Held(queue[GW]), Unacked)' /\ AheadOf(Responding, AckQueued)'
       /\ AheadOf(Held(down[GW]), AckAtGateway)' /\ AheadOf(Held(acked), AckComing)'
  <2>1. AheadOf(Held(queue[GW]), Unacked)'
    BY <1>4, <1>6, <1>10, <1>12, <1>13, <1>14 DEF AheadOf
  <2>2. AheadOf(Responding, AckQueued)'
    BY <1>7, <1>10, <1>12, <1>13, <1>14 DEF AheadOf
  <2>3. AheadOf(Held(down[GW]), AckAtGateway)'
    BY <1>4, <1>8, <1>10, <1>12, <1>13, <1>14 DEF AheadOf
  <2>4. AheadOf(Held(acked), AckComing)'
    BY <1>4, <1>9, <1>10, <1>11, <1>12, <1>14 DEF AheadOf
  <2> QED BY <2>1, <2>2, <2>3, <2>4
<1>16. ASSUME NEW s, Held(s) \subseteq DOMAIN log, InTurn(s)
       PROVE  \A i, j \in DOMAIN s : i < j /\ log'[s[i]] = log'[s[j]] => s[i] < s[j]
  <2>1. \A i \in DOMAIN s : log'[s[i]] = log[s[i]]
    BY <1>3, <1>16 DEF Held
  <2> QED BY <1>16, <2>1 DEF InTurn
<1>17. (InTurn(queue[GW]) /\ InTurn(down[GW]) /\ InTurn(acked))'
  BY <1>4, <1>10, <1>16 DEF InTurn, AcksInOrder
<1>18. (Held(queue[GW]) \cup Responding \cup Held(down[GW]) \cup Held(acked) \subseteq DOMAIN log)'
  BY <1>3, <1>4, <1>7, <1>10
<1> QED BY <1>15, <1>17, <1>18 DEF AcksInOrder

(* What a termd holds it had, or takes from its queue.                      *)
LEMMA HandsFill ==
  ASSUME PathInv, Work \/ Gui \/ Faults \/ UNCHANGED vars
  PROVE  \A t \in Terms : Held(hand'[t]) \subseteq Held(hand[t]) \cup Held(queue[t])
<1>1. /\ queue \in [Procs -> Seq(Cmds)] /\ hand \in [Procs -> Seq(Cmds)]
      /\ pc \in [Procs -> {"down", "init", "loop", "handle", "forward", "ack", "accepted", "lost"}]
      /\ Terms \subseteq Procs \ {GW, LOC} /\ Terms \subseteq Servers
  BY PathAssumption DEF PathInv, TypeOK, Servers, Procs
<1>2. ASSUME \A t \in Terms : hand'[t] \in {hand[t], <<>>}
      PROVE  \A t \in Terms : Held(hand'[t]) \subseteq Held(hand[t]) \cup Held(queue[t])
  BY <1>2, HeldEmpty
<1>3. ASSUME NEW p \in Procs, Recv(p)
      PROVE  \A t \in Terms : Held(hand'[t]) \subseteq Held(hand[t]) \cup Held(queue[t])
  <2>1. /\ hand'[p] = <<Head(queue[p])>> /\ queue[p] # <<>> /\ queue[p] \in Seq(Cmds)
        /\ \A q \in Procs \ {p} : hand'[q] = hand[q]
    BY <1>1, <1>3 DEF Recv
  <2>2. Held(hand'[p]) \subseteq Held(queue[p])
    <3>1. Head(queue[p]) \in Held(queue[p])
      BY <2>1, OrderTail
    <3>2. Held(hand'[p]) = {Head(queue[p])}
      BY <2>1, HeldOne
    <3> QED BY <3>1, <3>2
  <2> QED BY <1>1, <2>1, <2>2
<1>4. ASSUME NEW t \in Terms, TermdIdle(t) \/ ReportUp(t) \/ ReportDown(t) PROVE UNCHANGED hand
  BY <1>4 DEF TermdIdle, ReportUp, ReportDown
<1>5. ASSUME GatewayForward \/ GatewayRespond \/ GatewayIdle
      PROVE  \A t \in Terms : hand'[t] = hand[t]
  BY <1>1, <1>5 DEF GatewayForward, GatewayRespond, GatewayIdle
<1>6. ASSUME LocatorRoute \/ \E t \in Terms : TermdDeliver(t) \/ TermdAck(t)
      PROVE  \A t \in Terms : hand'[t] \in {hand[t], <<>>}
  BY <1>1, <1>6 DEF LocatorRoute, TermdDeliver, TermdAck
<1>7. ASSUME Gui \/ UNCHANGED vars PROVE UNCHANGED hand
  BY <1>7 DEF Gui, MaintRead, TerminalRead, Connect, PeerClose, PeerNotice, vars
<1>8. ASSUME Faults PROVE \A t \in Terms : hand'[t] \in {hand[t], <<>>}
  BY <1>1, <1>8 DEF Faults, Start, Ready, InitFail, Kill
<1> QED
  BY <1>1, <1>2, <1>3, <1>4, <1>5, <1>6, <1>7, <1>8
  DEF Work, Gateway, Locator, Termd, Procs, Servers

(* The locator sends nothing to the gateway.                                *)
LEMMA RoutedElsewhere ==
  ASSUME PathInv, LocatorRoute
  PROVE  queue'[GW] = queue[GW]
<1>1. queue \in [Procs -> Seq(Cmds)] /\ GW \in Procs /\ GW # LOC /\ GW \notin Terms
  BY PathAssumption DEF PathInv, TypeOK, Servers, Procs
<1>2. \/ UNCHANGED queue
      \/ \E to, n : \E p \in Resolve(to) : SendTo(p, n, Cap)
  BY DEF LocatorRoute
<1>3. ASSUME NEW to, NEW n, NEW p \in Resolve(to), SendTo(p, n, Cap) PROVE queue'[GW] = queue[GW]
  <2>1. p # GW
    BY <1>1 DEF Resolve
  <2> QED BY <1>1, <1>3, <2>1 DEF SendTo, Enqueue
<1> QED BY <1>2, <1>3

LEMMA AcksPassed ==
  ASSUME PathInv, Work \/ Gui \/ Faults \/ UNCHANGED vars
  PROVE  \/ AcksNothing
         \/ Recv(GW) \/ GatewayRespond \/ MaintRead
         \/ \E t \in Terms : TermdAck(t)
<1>1. /\ queue \in [Procs -> Seq(Cmds)] /\ hand \in [Procs -> Seq(Cmds)]
      /\ pc \in [Procs -> {"down", "init", "loop", "handle", "forward", "ack", "accepted", "lost"}]
      /\ down \in [Servers -> Seq(Cmds)]
      /\ GW \in Procs /\ GW \in Servers /\ GW # LOC /\ LOC \in Procs
      /\ Terms \subseteq Procs \ {GW, LOC} /\ Terms \subseteq Servers
  BY PathAssumption DEF PathInv, TypeOK, Servers, Procs
<1>2. ASSUME NEW p \in Procs \ {GW}, Recv(p) PROVE AcksNothing
  BY <1>1, <1>2 DEF Recv, Goto, net, user, AcksNothing
<1>3. ASSUME NEW t \in Terms, TermdIdle(t) \/ ReportUp(t) \/ ReportDown(t) PROVE AcksNothing
  <2>1. UNCHANGED <<queue, hand, down, log, acked>>
    BY <1>3 DEF TermdIdle, ReportUp, ReportDown, net, user
  <2>2. \E loc \in {"accepted", "lost", "loop"} : pc' = [pc EXCEPT ![t] = loc]
    BY <1>3 DEF TermdIdle, ReportUp, ReportDown, Goto
  <2>3. pc'[GW] = pc[GW]
    BY <1>1, <2>2
  <2> QED BY <2>1, <2>3 DEF AcksNothing
<1>4. CASE GatewayIdle
  <2>1. pc'[GW] # "handle"
    BY <1>1, <1>4 DEF GatewayIdle, Goto
  <2> QED BY <1>4, <2>1 DEF GatewayIdle, user, AcksNothing
<1>5. CASE GatewayForward
  <2>1. pc'[GW] # "handle" /\ UNCHANGED <<log, acked, down>>
    BY <1>1, <1>5 DEF GatewayForward, Goto, net, user
  <2>2. queue'[GW] = queue[GW]
    BY <1>1, <1>5 DEF GatewayForward, SendTo, Enqueue
  <2> QED BY <2>1, <2>2 DEF AcksNothing
<1>6. CASE LocatorRoute
  <2>1. pc'[GW] = pc[GW] /\ hand'[GW] = hand[GW] /\ UNCHANGED <<log, acked, down>>
    BY <1>1, <1>6 DEF LocatorRoute, Goto, net, user
  <2>2. queue'[GW] = queue[GW]
    BY <1>6, RoutedElsewhere
  <2> QED BY <2>1, <2>2 DEF AcksNothing
<1>7. ASSUME NEW t \in Terms, TermdDeliver(t) PROVE AcksNothing
  <2>1. pc'[GW] = pc[GW] /\ UNCHANGED <<hand, queue, log, acked>>
    BY <1>1, <1>7 DEF TermdDeliver, Goto, user
  <2>2. down'[GW] = down[GW]
    BY <1>1, <1>7 DEF TermdDeliver, Reply, TcpSend
  <2> QED BY <2>1, <2>2 DEF AcksNothing
<1>8. ASSUME NEW t \in Terms, TerminalRead(t) PROVE AcksNothing
  BY <1>1, <1>8 DEF TerminalRead, AcksNothing
<1>9. ASSUME NEW p \in Servers, Connect(p) \/ PeerClose(p) \/ PeerNotice(p) PROVE AcksNothing
  BY <1>1, <1>9 DEF Connect, PeerClose, PeerNotice, user, AcksNothing
<1>10. ASSUME NEW p \in Procs, Start(p) \/ Ready(p) PROVE AcksNothing
  <2>1. pc'[GW] = pc[GW] \/ pc'[GW] # "handle"
    BY <1>1, <1>10 DEF Start, Ready, Goto
  <2> QED BY <1>10, <2>1 DEF Start, Ready, net, user, AcksNothing
<1>11. ASSUME NEW p \in Procs, Kill(p) PROVE AcksNothing
  <2>1. \/ pc'[GW] = pc[GW] /\ hand'[GW] = hand[GW]
        \/ pc'[GW] # "handle"
    BY <1>1, <1>11 DEF Kill, Goto
  <2> QED BY <1>11, <2>1 DEF Kill, user, AcksNothing
<1>12. ASSUME NEW p \in Procs, InitFail(p) PROVE AcksNothing
  <2>1. UNCHANGED <<hand, down, log, acked>> /\ queue'[GW] \in {queue[GW], <<>>}
    BY <1>1, <1>12 DEF InitFail, user
  <2>2. pc'[GW] = pc[GW] \/ pc'[GW] # "handle"
    BY <1>1, <1>12 DEF InitFail, Goto
  <2> QED BY <2>1, <2>2 DEF AcksNothing
<1>13. CASE UNCHANGED vars
  BY <1>13 DEF vars, net, user, AcksNothing
<1> QED
  BY <1>1, <1>2, <1>3, <1>4, <1>5, <1>6, <1>7, <1>8, <1>9, <1>10, <1>11, <1>12, <1>13
  DEF Work, Gateway, Locator, Termd, Gui, Faults

LEMMA AckStep == AckInv /\ [Next]_vars => AckInv'
<1> SUFFICES ASSUME AckInv, [Next]_vars PROVE AckInv'
  OBVIOUS
<1> USE DEF AckInv
<1>1. OrderInv'
  BY OrderStep
<1>2. ASSUME NEW to \in Terms \cup Strangers, SendLock(to) PROVE AcksInOrder'
  BY <1>2, SendLockAcks
<1>3. ASSUME Work \/ Gui \/ Faults \/ UNCHANGED vars PROVE AcksInOrder'
  <2>1. PathInv
    BY DEF OrderInv
  <2>2. Unacked' \subseteq Unacked
    BY <1>3, <2>1, OrderStepOn, HandsFill, UnackedStays
  <2> QED
    BY <1>3, <2>1, <2>2, AcksPassed, AcksNothingOrdered, GatewayRecvAcks, GatewayRespondAcks,
       MaintReadAcks, TermdAckInOrder
<1> QED BY <1>1, <1>2, <1>3 DEF Next, Operator

(* maint_gui sees at most one acknowledgement of a command, and those of    *)
(* one terminal's commands in the order of the commands (AckedInOrder), for *)
(* any number of terminals, any bounds and any faults.                      *)
THEOREM AcknowledgementsInOrder ==
  /\ Spec => []AckedInOrder
  /\ SpecSupervised => []AckedInOrder
<1>1. Init \/ Started(Procs, Servers) => AckInv
  <2>1. ASSUME NEW up \in SUBSET Procs, NEW on \in SUBSET Servers, Started(up, on)
        PROVE  AckInv
    <3>1. OrderInv
      BY <2>1, StartedOrder
    <3>2. queue[GW] = <<>> /\ down[GW] = <<>> /\ acked = <<>> /\ pc[GW] # "handle"
      BY <2>1 DEF Started, Procs, Servers
    <3>3. InTurn(<<>>) /\ Held(<<>>) = {}
      BY HeldEmpty DEF InTurn
    <3>4. Responding = {}
      BY <3>2 DEF Responding
    <3>5. AcksInOrder
      BY <3>2, <3>3, <3>4 DEF AcksInOrder, AheadOf
    <3> QED BY <3>1, <3>5 DEF AckInv
  <2> QED BY <2>1 DEF Init
<1>2. AckInv => AckedInOrder
  <2> SUFFICES ASSUME AckInv, NEW i \in DOMAIN acked, NEW j \in DOMAIN acked, i < j
               PROVE  /\ acked[i] # acked[j]
                      /\ log[acked[i]] = log[acked[j]] => acked[i] < acked[j]
    BY DEF AckedInOrder
  <2>1. log[acked[i]] = log[acked[j]] => acked[i] < acked[j]
    BY DEF AckInv, AcksInOrder, InTurn
  <2>2. acked[i] \in Int
    <3>1. acked \in Seq(Cmds)
      BY DEF AckInv, OrderInv, PathInv, TypeOK
    <3>2. acked[i] \in Cmds
      BY <3>1, LenProperties, ElementOfSeq
    <3> QED BY <3>2 DEF Cmds
  <2>3. acked[i] # acked[j]
    <3> DEFINE a == acked[i]
    <3>1. ~(a < a)
      BY <2>2
    <3> QED BY <2>1, <3>1
  <2> QED BY <2>1, <2>3
<1>3. Spec => []AckedInOrder
  BY <1>1, <1>2, AckStep, PTL DEF Spec
<1>4. SpecSupervised => []AckedInOrder
  <2>1. SpecUp => []AckedInOrder
    BY <1>1, <1>2, AckStep, PTL DEF SpecUp
  <2> QED BY <2>1, PTL DEF SpecSupervised
<1> QED BY <1>3, <1>4

-----------------------------------------------------------------------------
(* Delivery.  In a system that has been started whole, of which nothing is  *)
(* killed and no terminal hangs up, an acknowledgement is made only of what *)
(* has been written to its terminal's socket.                               *)

Away == {"down", "init", "accepted", "lost"}

Whole ==
  /\ \A p \in Procs : p \in made /\ pc[p] \notin Away
  /\ \A p \in Servers :
       /\ peer[p] = "on" /\ pend[p] = <<>>
       /\ client[p] # <<>> /\ client[p][1].alive

Acking(t) == IF pc[t] = "ack" THEN Held(hand[t]) ELSE {}
Answered  == Held(queue[GW]) \cup Responding \cup Held(down[GW]) \cup Held(acked)

Arrived(t) == Held(down[t]) \cup Held(shown[t])

Earned ==
  /\ \A t \in Terms : Acking(t) \subseteq Arrived(t)
  /\ Answered \subseteq UNION {Arrived(t) : t \in Terms}

DeliveryInv == OrderInv /\ (kills = 0 => Whole /\ Earned)

(* The steps such a system can take.                                        *)
LEMMA WholeSteps ==
  ASSUME PathInv, Whole, MaxCloses = 0, kills = 0, kills' = 0, [Next]_vars
  PROVE  \/ \E p \in Procs : Recv(p)
         \/ GatewayIdle \/ GatewayForward \/ GatewayRespond \/ LocatorRoute
         \/ \E t \in Terms : TermdDeliver(t) \/ TermdAck(t) \/ TerminalRead(t)
         \/ \E to \in Terms \cup Strangers : SendLock(to)
         \/ MaintRead \/ UNCHANGED vars
<1>1. /\ \A p \in Servers : peer[p] = "on"
      /\ \A p \in Procs : pc[p] \notin Away
      /\ Terms \subseteq Servers /\ GW \in Procs /\ LOC \in Procs /\ Terms \subseteq Procs
  BY DEF Whole, Servers, Procs
<1>2. ASSUME NEW p \in Servers, Connect(p) \/ PeerClose(p) \/ PeerNotice(p) PROVE FALSE
  <2>1. ~Connect(p) /\ ~PeerNotice(p)
    BY <1>1 DEF Connect, PeerNotice
  <2>2. closes \in 0..MaxCloses
    BY DEF PathInv, TypeOK
  <2>3. ~PeerClose(p)
    BY <2>2 DEF PeerClose
  <2> QED BY <1>2, <2>1, <2>3
<1>3. ASSUME NEW p \in Procs, Start(p) \/ Ready(p) \/ InitFail(p) \/ Kill(p) PROVE FALSE
  BY <1>1, <1>3 DEF Start, Ready, InitFail, Kill, Away
<1>4. ASSUME NEW t \in Terms, TermdIdle(t) \/ ReportUp(t) \/ ReportDown(t) PROVE FALSE
  <2>1. pend[t] = <<>> /\ client[t] # <<>> /\ client[t][1].alive
    BY <1>1 DEF Whole
  <2>2. ~TermdIdle(t)
    BY <2>1 DEF TermdIdle, Gone
  <2>3. ~ReportUp(t) /\ ~ReportDown(t)
    BY <1>1 DEF ReportUp, ReportDown, Away
  <2> QED BY <1>4, <2>2, <2>3
<1> QED
  BY <1>2, <1>3, <1>4 DEF Next, Work, Gateway, Locator, Termd, Operator, Gui, Faults, Procs, Servers

LEMMA WholeStays ==
  ASSUME PathInv, Whole, MaxCloses = 0, kills = 0, kills' = 0, [Next]_vars
  PROVE  Whole'
<1>1. /\ GW \in Servers /\ GW \in Procs /\ Servers \subseteq Procs /\ Terms \subseteq Servers
      /\ client \in [Servers -> Seq(Sock)] /\ pend \in [Servers -> Seq(Sock)]
      /\ pc \in [Procs -> {"down", "init", "loop", "handle", "forward", "ack", "accepted", "lost"}]
  BY DEF PathInv, TypeOK, Servers, Procs
<1>2. /\ \A p \in Procs : p \in made /\ pc[p] \notin Away
      /\ \A p \in Servers : peer[p] = "on" /\ pend[p] = <<>>
      /\ \A p \in Servers : client[p] # <<>> /\ client[p][1].alive
  BY DEF Whole
<1>3. UNCHANGED <<made, peer>>
  BY WholeSteps
  DEF Recv, GatewayIdle, GatewayForward, GatewayRespond, LocatorRoute, TermdDeliver, TermdAck,
      TerminalRead, SendLock, MaintRead, vars, net
<1>4. \A p \in Procs : pc'[p] \notin Away
  <2>1. \/ UNCHANGED pc
        \/ \E p \in Procs, loc \in {"loop", "handle", "forward", "ack"} : Goto(p, loc)
    <3>1. CASE \E t \in Terms : TermdDeliver(t) \/ TermdAck(t) \/ TerminalRead(t)
      BY <1>1, <3>1 DEF TermdDeliver, TermdAck, TerminalRead
    <3>2. CASE \E to \in Terms \cup Strangers : SendLock(to)
      BY <3>2 DEF SendLock
    <3>3. CASE \E p \in Procs : Recv(p)
      BY <3>3 DEF Recv
    <3>4. CASE GatewayForward \/ GatewayRespond \/ LocatorRoute
      BY <1>1, <3>4 DEF GatewayForward, GatewayRespond, LocatorRoute, Procs
    <3>5. CASE GatewayIdle
      BY <1>1, <3>5 DEF GatewayIdle
    <3>6. CASE MaintRead \/ UNCHANGED vars
      BY <3>6 DEF MaintRead, vars
    <3> QED BY <3>1, <3>2, <3>3, <3>4, <3>5, <3>6, WholeSteps
  <2> QED BY <1>1, <1>2, <2>1 DEF Goto, Away
<1>5. ASSUME UNCHANGED <<pend, client>> PROVE Whole'
  BY <1>2, <1>3, <1>4, <1>5 DEF Whole
<1>6. CASE \/ \E p \in Procs : Recv(p)
           \/ GatewayForward \/ LocatorRoute \/ MaintRead \/ UNCHANGED vars
           \/ \E t \in Terms : TermdAck(t) \/ TerminalRead(t)
  BY <1>5, <1>6 DEF Recv, GatewayForward, LocatorRoute, MaintRead, TermdAck, TerminalRead, vars, net
<1>7. CASE GatewayRespond \/ \E t \in Terms : TermdDeliver(t)
  BY <1>1, <1>2, <1>5, <1>7 DEF GatewayRespond, TermdDeliver, Reply, TcpSend
<1>8. ASSUME NEW to \in Terms \cup Strangers, SendLock(to) PROVE Whole'
  <2> DEFINE c  == client[GW]
             c1 == Write(c, Len(log) + 1)
  <2>1. /\ pend' = [pend EXCEPT ![GW] = Write(@, Len(log) + 1)]
        /\ client' = [client EXCEPT ![GW] = c1]
    BY <1>8 DEF SendLock
  <2>2. pend'[GW] = <<>>
    BY <1>1, <1>2, <2>1 DEF Write
  <2>3. c \in Seq(Sock) /\ c # <<>> /\ 1 \in DOMAIN c /\ c[1].alive
    <3>1. c \in Seq(Sock) /\ c # <<>> /\ c[1].alive
      BY <1>1, <1>2
    <3> HIDE DEF c
    <3>2. Len(c) \in Nat /\ DOMAIN c = 1..Len(c) /\ Len(c) # 0
      BY <3>1, LenProperties, EmptySeq
    <3> QED BY <3>1, <3>2
  <2> HIDE DEF c
  <2>4. DOMAIN c1 = DOMAIN c /\ c1[1].alive
    BY <2>3, Written
  <2> HIDE DEF c1
  <2>5. c1 # <<>>
    BY <2>3, <2>4
  <2>6. \A p \in Servers : /\ pend'[p] = <<>>
                           /\ client'[p] # <<>> /\ client'[p][1].alive
    BY <1>1, <1>2, <2>1, <2>2, <2>4, <2>5
  <2> QED BY <1>2, <1>3, <1>4, <2>6 DEF Whole
<1>9. CASE GatewayIdle
  <2> DEFINE accepts == pend[GW] # <<>>
             now     == IF accepts THEN <<Head(pend[GW])>> ELSE client[GW]
             unread  == IF now = <<>> THEN <<>> ELSE now[1].up
             gone    == now # <<>> /\ unread = <<>> /\ ~now[1].alive
  <2>1. pend' = IF accepts THEN [pend EXCEPT ![GW] = Tail(@)] ELSE pend
    BY <1>9 DEF GatewayIdle
  <2>2. \/ \E rest : client' = [client EXCEPT ![GW] = <<[alive |-> now[1].alive, up |-> rest]>>]
        \/ client' = [client EXCEPT ![GW] = IF gone THEN <<>> ELSE now]
    BY <1>9 DEF GatewayIdle
  <2>3. ~accepts /\ now = client[GW] /\ now # <<>> /\ now[1].alive /\ ~gone
    BY <1>1, <1>2
  <2>4. UNCHANGED pend
    BY <2>1, <2>3
  <2> HIDE DEF accepts, now, unread, gone
  <2>5. client'[GW] # <<>> /\ client'[GW][1].alive
    <3>1. ASSUME NEW rest, client' = [client EXCEPT ![GW] = <<[alive |-> now[1].alive, up |-> rest]>>]
          PROVE  client'[GW] # <<>> /\ client'[GW][1].alive
      <4>1. client'[GW] = <<[alive |-> now[1].alive, up |-> rest]>>
        BY <1>1, <3>1
      <4> QED BY <2>3, <4>1
    <3>2. ASSUME client' = [client EXCEPT ![GW] = IF gone THEN <<>> ELSE now]
          PROVE  client'[GW] # <<>> /\ client'[GW][1].alive
      BY <1>1, <2>3, <3>2
    <3> QED BY <2>2, <3>1, <3>2
  <2>6. \A p \in Servers : p # GW => client'[p] = client[p]
    BY <1>1, <2>2
  <2> QED BY <1>2, <1>3, <1>4, <2>4, <2>5, <2>6 DEF Whole
<1> QED BY <1>6, <1>7, <1>8, <1>9, WholeSteps

LEMMA EarnedStays ==
  ASSUME Earned,
         \A t \in Terms : /\ Arrived(t) \subseteq Arrived(t)'
                          /\ Acking(t)' \subseteq Acking(t) \cup Arrived(t)',
         Answered' \subseteq Answered \cup UNION {Acking(t) : t \in Terms}
  PROVE  Earned'
<1>1. \A t \in Terms : Acking(t)' \subseteq Arrived(t)'
  BY DEF Earned
<1>2. Answered' \subseteq UNION {Arrived(t)' : t \in Terms}
  BY DEF Earned
<1> QED BY <1>1, <1>2 DEF Earned

LEMMA EarnedStep ==
  ASSUME OrderInv, Whole, Earned, MaxCloses = 0, kills = 0, kills' = 0, [Next]_vars
  PROVE  Earned'
<1>1. /\ queue \in [Procs -> Seq(Cmds)] /\ hand \in [Procs -> Seq(Cmds)]
      /\ pc \in [Procs -> {"down", "init", "loop", "handle", "forward", "ack", "accepted", "lost"}]
      /\ client \in [Servers -> Seq(Sock)] /\ down \in [Servers -> Seq(Cmds)]
      /\ shown \in [Terms -> Seq(Cmds)] /\ acked \in Seq(Cmds)
      /\ GW \in Procs /\ LOC \in Procs \ {GW} /\ Terms \subseteq Procs \ {GW, LOC}
      /\ GW \in Servers /\ Terms \subseteq Servers \ {GW}
  BY PathAssumption DEF OrderInv, PathInv, TypeOK, Servers, Procs
<1>2. PathInv
  BY DEF OrderInv
(* Nothing arrives and no termd begins to acknowledge.                      *)
<1>3. ASSUME \A t \in Terms : down'[t] = down[t] /\ shown'[t] = shown[t],
             \A t \in Terms : pc'[t] = "ack" => pc[t] = "ack" /\ hand'[t] = hand[t]
      PROVE  \A t \in Terms : /\ Arrived(t) \subseteq Arrived(t)'
                              /\ Acking(t)' \subseteq Acking(t) \cup Arrived(t)'
  BY <1>3 DEF Arrived, Acking
(* The gateway has nothing new to answer.                                   *)
<1>4. ASSUME queue'[GW] = queue[GW], down'[GW] = down[GW], acked' = acked,
             pc'[GW] = "handle" => pc[GW] = "handle" /\ hand'[GW] = hand[GW]
      PROVE  Answered' \subseteq Answered
  BY <1>4 DEF Answered, Responding
<1>5. ASSUME NEW p \in Procs \ {GW}, Recv(p) PROVE Earned'
  <2>1. /\ \A q \in Procs \ {p} : queue'[q] = queue[q] /\ hand'[q] = hand[q] /\ pc'[q] = pc[q]
        /\ pc'[p] = "handle" /\ UNCHANGED <<down, shown, acked>>
    BY <1>1, <1>5 DEF Recv, Goto, net, user
  <2>2. \A t \in Terms : pc'[t] = "ack" => pc[t] = "ack" /\ hand'[t] = hand[t]
    BY <1>1, <2>1
  <2> QED BY <1>1, <1>3, <1>4, <2>1, <2>2, EarnedStays
<1>6. CASE Recv(GW)
  <2>1. /\ \A q \in Procs \ {GW} : hand'[q] = hand[q] /\ pc'[q] = pc[q]
        /\ UNCHANGED <<down, shown, acked>>
    BY <1>1, <1>6 DEF Recv, Goto, net, user
  <2> DEFINE h == Head(queue[GW])
  <2>2. /\ queue[GW] # <<>> /\ queue[GW] \in Seq(Cmds)
        /\ queue'[GW] = Tail(queue[GW]) /\ hand'[GW] = <<h>>
    BY <1>1, <1>6 DEF Recv
  <2>3. Held(queue[GW]) = {h} \cup Held(queue'[GW]) /\ Held(hand'[GW]) = {h}
    BY <2>2, OrderTail, HeldOne
  <2> HIDE DEF h
  <2>4. Responding' \subseteq {h}
    BY <2>3 DEF Responding
  <2>5. Answered' \subseteq Answered
    BY <2>1, <2>3, <2>4 DEF Answered
  <2>6. \A t \in Terms : pc'[t] = "ack" => pc[t] = "ack" /\ hand'[t] = hand[t]
    BY <1>1, <2>1
  <2> QED BY <1>3, <2>1, <2>5, <2>6, EarnedStays
<1>7. CASE GatewayIdle
  <2>1. /\ UNCHANGED <<queue, down, shown, acked>> /\ pc[GW] = "loop"
        /\ \A t \in Terms : pc'[t] = pc[t] /\ hand'[t] = hand[t]
        /\ pc'[GW] # "handle"
    BY <1>1, <1>7 DEF GatewayIdle, Goto, user
  <2> QED BY <1>3, <1>4, <2>1, EarnedStays
<1>8. CASE GatewayForward
  <2>1. /\ UNCHANGED <<down, shown, acked>>
        /\ \A t \in Terms : pc'[t] = pc[t] /\ hand'[t] = hand[t]
        /\ pc'[GW] # "handle"
    BY <1>1, <1>8 DEF GatewayForward, Goto, net, user
  <2>2. queue'[GW] = queue[GW]
    BY <1>1, <1>8 DEF GatewayForward, SendTo, Enqueue
  <2> QED BY <1>3, <1>4, <2>1, <2>2, EarnedStays
<1>9. CASE LocatorRoute
  <2>1. /\ UNCHANGED <<down, shown, acked>>
        /\ \A q \in Procs \ {LOC} : pc'[q] = pc[q] /\ hand'[q] = hand[q]
    BY <1>1, <1>9 DEF LocatorRoute, Goto, net, user
  <2>2. queue'[GW] = queue[GW]
    BY <1>2, <1>9, RoutedElsewhere
  <2> QED BY <1>1, <1>3, <1>4, <2>1, <2>2, EarnedStays
<1>10. CASE GatewayRespond
  <2>1. /\ UNCHANGED <<queue, shown, acked>> /\ pc[GW] = "handle" /\ pc'[GW] # "handle"
        /\ \A t \in Terms : pc'[t] = pc[t] /\ hand'[t] = hand[t]
    BY <1>1, <1>10 DEF GatewayRespond, Goto, user
  <2> DEFINE h == Head(hand[GW])
  <2>2. /\ down'[GW] \in {down[GW], Append(down[GW], h)}
        /\ \A t \in Terms : down'[t] = down[t]
    BY <1>1, <1>10 DEF GatewayRespond, Reply, TcpSend
  <2>3. Held(hand[GW]) = {h} /\ h \in Cmds
    BY <1>1, <1>2, <2>1, OneInHand
  <2> HIDE DEF h
  <2>4. Responding = {h} /\ Responding' = {}
    BY <2>1, <2>3 DEF Responding
  <2>5. Held(down'[GW]) \subseteq Held(down[GW]) \cup {h}
    <3>1. down[GW] \in Seq(Cmds)
      BY <1>1
    <3>2. Held(Append(down[GW], h)) = Held(down[GW]) \cup {h}
      BY <2>3, <3>1, HeldAppend
    <3>3. CASE down'[GW] = down[GW]
      BY <3>3
    <3>4. CASE down'[GW] = Append(down[GW], h)
      BY <3>2, <3>4
    <3> QED BY <2>2, <3>3, <3>4
  <2>6. Answered' \subseteq Answered
    BY <2>1, <2>4, <2>5 DEF Answered
  <2> QED BY <1>3, <2>1, <2>2, <2>6, EarnedStays
<1>11. CASE MaintRead
  <2>1. UNCHANGED <<queue, pc, hand, shown>> /\ \A t \in Terms : down'[t] = down[t]
    BY <1>1, <1>11 DEF MaintRead
  <2> DEFINE h == Head(down[GW])
  <2>2. /\ down[GW] # <<>> /\ down[GW] \in Seq(Cmds) /\ down'[GW] = Tail(down[GW])
        /\ acked' = Append(acked, h)
    BY <1>1, <1>11 DEF MaintRead
  <2>3. h \in Cmds /\ Held(down[GW]) = {h} \cup Held(down'[GW])
    BY <2>2, HeadTailProperties, OrderTail
  <2> HIDE DEF h
  <2>4. Held(acked') = Held(acked) \cup {h}
    BY <1>1, <2>2, <2>3, HeldAppend
  <2>5. Answered' \subseteq Answered
    BY <2>1, <2>3, <2>4 DEF Answered, Responding
  <2> QED BY <1>3, <2>1, <2>5, EarnedStays
<1>12. ASSUME NEW to \in Terms \cup Strangers, SendLock(to) PROVE Earned'
  BY <1>3, <1>4, <1>12, EarnedStays DEF SendLock
<1>13. CASE UNCHANGED vars
  <2>1. UNCHANGED <<queue, pc, hand, down, shown, acked>>
    BY <1>13 DEF vars, net, user
  <2> QED BY <1>3, <1>4, <2>1, EarnedStays
(* Displaying a command keeps it arrived.                                   *)
<1>14. ASSUME NEW t \in Terms, TerminalRead(t) PROVE Earned'
  <2> DEFINE h == Head(down[t])
  <2>1. /\ down[t] # <<>> /\ down[t] \in Seq(Cmds) /\ shown[t] \in Seq(Cmds)
        /\ down'[t] = Tail(down[t]) /\ shown'[t] = Append(shown[t], h)
        /\ \A u \in Terms \ {t} : down'[u] = down[u] /\ shown'[u] = shown[u]
        /\ down'[GW] = down[GW] /\ UNCHANGED <<queue, pc, hand, acked>>
    BY <1>1, <1>14 DEF TerminalRead
  <2>2. h \in Cmds /\ Held(down[t]) = {h} \cup Held(down'[t])
    BY <2>1, HeadTailProperties, OrderTail
  <2> HIDE DEF h
  <2>3. Held(shown'[t]) = Held(shown[t]) \cup {h}
    BY <2>1, <2>2, HeldAppend
  <2>4. \A u \in Terms : Arrived(u) \subseteq Arrived(u)'
    BY <2>1, <2>2, <2>3 DEF Arrived
  <2>5. \A u \in Terms : Acking(u)' = Acking(u)
    BY <2>1 DEF Acking
  <2> QED BY <1>4, <2>1, <2>4, <2>5, EarnedStays
(* The socket of a whole system is alive: the command is written to it.     *)
<1>15. ASSUME NEW t \in Terms, TermdDeliver(t) PROVE Earned'
  <2> DEFINE h == Head(hand[t])
  <2>1. /\ pc[t] = "handle" /\ UNCHANGED <<queue, hand, shown, acked>>
        /\ \A q \in Procs \ {t} : pc'[q] = pc[q]
    BY <1>1, <1>15 DEF TermdDeliver, Goto, user
  <2>2. client[t] # <<>> /\ client[t][1].alive
    BY <1>1 DEF Whole
  <2>3. down' = [down EXCEPT ![t] = Append(@, h)]
    BY <1>15, <2>2 DEF TermdDeliver, Reply, TcpSend
  <2>4. Held(hand[t]) = {h} /\ h \in Cmds
    BY <1>1, <1>2, <2>1, OneInHand
  <2> HIDE DEF h
  <2>5. /\ Held(down'[t]) = Held(down[t]) \cup {h}
        /\ \A s \in Servers \ {t} : down'[s] = down[s]
    <3>1. down[t] \in Seq(Cmds) /\ down'[t] = Append(down[t], h)
      BY <1>1, <2>3
    <3> QED BY <1>1, <2>3, <2>4, <3>1, HeldAppend
  <2>6. \A u \in Terms : Arrived(u) \subseteq Arrived(u)'
    BY <1>1, <2>1, <2>5 DEF Arrived
  <2>7. \A u \in Terms : Acking(u)' \subseteq Acking(u) \cup Arrived(u)'
    <3>1. Acking(t)' \subseteq Arrived(t)'
      BY <2>1, <2>4, <2>5 DEF Acking, Arrived
    <3>2. \A u \in Terms \ {t} : Acking(u)' = Acking(u)
      BY <1>1, <2>1 DEF Acking
    <3> QED BY <3>1, <3>2
  <2>8. Answered' \subseteq Answered
    BY <1>1, <1>4, <2>1, <2>5
  <2> QED BY <2>6, <2>7, <2>8, EarnedStays
(* What a termd answers has arrived.                                        *)
<1>16. ASSUME NEW t \in Terms, TermdAck(t) PROVE Earned'
  <2> DEFINE h == Head(hand[t])
  <2>1. /\ pc[t] = "ack" /\ pc'[t] = "loop"
        /\ \A q \in Procs \ {t} : pc'[q] = pc[q] /\ hand'[q] = hand[q]
        /\ UNCHANGED <<down, shown, acked>>
    BY <1>1, <1>16 DEF TermdAck, Goto, net, user
  <2>2. queue'[GW] \in {queue[GW], Append(queue[GW], h)}
    BY <1>1, <1>16 DEF TermdAck, SendTo, Enqueue
  <2>3. Held(hand[t]) = {h} /\ h \in Cmds
    BY <1>1, <1>2, <2>1, OneInHand
  <2> HIDE DEF h
  <2>4. Acking(t) = {h}
    BY <2>1, <2>3 DEF Acking
  <2>5. Held(queue'[GW]) \subseteq Held(queue[GW]) \cup {h}
    <3>1. queue[GW] \in Seq(Cmds)
      BY <1>1
    <3>2. Held(Append(queue[GW], h)) = Held(queue[GW]) \cup {h}
      BY <2>3, <3>1, HeldAppend
    <3>3. CASE queue'[GW] = queue[GW]
      BY <3>3
    <3>4. CASE queue'[GW] = Append(queue[GW], h)
      BY <3>2, <3>4
    <3> QED BY <2>2, <3>3, <3>4
  <2>6. Responding' = Responding
    BY <1>1, <2>1 DEF Responding
  <2>7. Answered' \subseteq Answered \cup Acking(t)
    BY <2>1, <2>4, <2>5, <2>6 DEF Answered
  <2>8. \A u \in Terms : pc'[u] = "ack" => pc[u] = "ack" /\ hand'[u] = hand[u]
    BY <1>1, <2>1
  <2> QED BY <1>3, <2>1, <2>7, <2>8, EarnedStays
<1> QED
  BY <1>2, <1>5, <1>6, <1>7, <1>8, <1>9, <1>10, <1>11, <1>12, <1>13, <1>14, <1>15, <1>16,
     WholeSteps

LEMMA HeldConcat ==
  ASSUME NEW S, NEW s \in Seq(S), NEW u \in Seq(S), NEW x \in Held(s) \cup Held(u)
  PROVE  \E j \in DOMAIN (s \o u) : (s \o u)[j] = x
<1>1. /\ Len(s) \in Nat /\ DOMAIN s = 1..Len(s) /\ Len(u) \in Nat /\ DOMAIN u = 1..Len(u)
      /\ s \o u \in Seq(S) /\ Len(s \o u) = Len(s) + Len(u)
      /\ \A i \in 1..Len(s) + Len(u) :
           (s \o u)[i] = IF i <= Len(s) THEN s[i] ELSE u[i - Len(s)]
  BY LenProperties, ConcatProperties
<1>2. DOMAIN (s \o u) = 1..Len(s) + Len(u)
  BY <1>1, LenProperties
<1>3. CASE x \in Held(s)
  <2>1. PICK i \in 1..Len(s) : x = s[i]
    BY <1>1, <1>3 DEF Held
  <2>2. i \in 1..Len(s) + Len(u) /\ i <= Len(s)
    BY <1>1
  <2> QED BY <1>1, <1>2, <2>1, <2>2
<1>4. CASE x \in Held(u)
  <2>1. PICK i \in 1..Len(u) : x = u[i]
    BY <1>1, <1>4 DEF Held
  <2>2. /\ Len(s) + i \in 1..Len(s) + Len(u) /\ ~(Len(s) + i <= Len(s))
        /\ (Len(s) + i) - Len(s) = i
    BY <1>1
  <2> QED BY <1>1, <1>2, <2>1, <2>2
<1> QED BY <1>3, <1>4

(* proto.h:48 (AckMeansDelivered): when terminals do not hang up and the    *)
(* system was up before the first command, then as long as nothing is       *)
(* killed an acknowledged command has been displayed or lies in the socket  *)
(* of its terminal, for any number of terminals and any bounds.             *)
THEOREM AcknowledgedIsDelivered ==
  ASSUME MaxCloses = 0
  PROVE  SpecSupervised => []AckMeansDelivered
<1>1. Started(Procs, Servers) => DeliveryInv
  <2> SUFFICES ASSUME Started(Procs, Servers) PROVE DeliveryInv
    OBVIOUS
  <2>1. OrderInv
    BY StartedOrder
  <2>2. Whole
    BY DEF Started, Whole, Away, Servers, Procs
  <2>3. /\ queue[GW] = <<>> /\ down[GW] = <<>> /\ acked = <<>> /\ pc[GW] # "handle"
        /\ \A t \in Terms : pc[t] # "ack"
    BY DEF Started, Procs, Servers
  <2>4. Earned
    BY <2>3, HeldEmpty DEF Earned, Answered, Acking, Responding
  <2> QED BY <2>1, <2>2, <2>4 DEF DeliveryInv
<1>2. DeliveryInv /\ [Next]_vars => DeliveryInv'
  <2> SUFFICES ASSUME DeliveryInv, [Next]_vars, kills' = 0 PROVE Whole' /\ Earned'
    BY OrderStep DEF DeliveryInv
  <2>1. OrderInv /\ PathInv
    BY DEF DeliveryInv, OrderInv
  <2>2. kills = 0
    <3>1. kills \in Nat
      BY <2>1, PathAssumption DEF PathInv, TypeOK
    <3>2. \/ UNCHANGED kills
          \/ kills' = kills + 1
      <4>1. CASE Work
        BY <4>1
        DEF Work, Gateway, Locator, Termd, Recv, GatewayIdle, GatewayForward, GatewayRespond,
            LocatorRoute, TermdDeliver, TermdAck, TermdIdle, ReportUp, ReportDown
      <4>2. CASE Operator \/ Gui
        BY <4>2 DEF Operator, SendLock, Gui, MaintRead, TerminalRead, Connect, PeerClose, PeerNotice
      <4>3. CASE Faults
        BY <4>3 DEF Faults, Start, Ready, InitFail, Kill
      <4>4. CASE UNCHANGED vars
        BY <4>4 DEF vars
      <4> QED BY <4>1, <4>2, <4>3, <4>4 DEF Next
    <3> QED BY <3>1, <3>2
  <2> QED BY <2>1, <2>2, WholeStays, EarnedStep DEF DeliveryInv
<1>3. DeliveryInv => AckMeansDelivered
  <2> SUFFICES ASSUME DeliveryInv, kills = 0, NEW i \in DOMAIN acked
               PROVE  LET t == log[acked[i]]
                      IN  \E j \in DOMAIN (shown[t] \o down[t]) : (shown[t] \o down[t])[j] = acked[i]
    BY DEF AckMeansDelivered
  <2>1. acked[i] \in Answered
    BY DEF Answered, Held
  <2>2. PICK t \in Terms : acked[i] \in Held(down[t]) \cup Held(shown[t])
    BY <2>1 DEF DeliveryInv, Earned, Arrived
  <2>3. log[acked[i]] = t
    BY <2>2 DEF DeliveryInv, OrderInv, Ordered, Addressed
  <2>4. shown[t] \in Seq(Cmds) /\ down[t] \in Seq(Cmds)
    BY DEF DeliveryInv, OrderInv, PathInv, TypeOK, Servers
  <2>5. acked[i] \in Held(shown[t]) \cup Held(down[t])
    BY <2>2
  <2> DEFINE x == acked[i]
             s == shown[t]
             u == down[t]
  <2>6. \E j \in DOMAIN (s \o u) : (s \o u)[j] = x
    <3>1. s \in Seq(Cmds) /\ u \in Seq(Cmds) /\ x \in Held(s) \cup Held(u)
      BY <2>4, <2>5
    <3> HIDE DEF x, s, u
    <3> QED BY <3>1, HeldConcat
  <2> QED BY <2>3, <2>6
<1>4. SpecUp => []AckMeansDelivered
  BY <1>1, <1>2, <1>3, PTL DEF SpecUp
<1> QED BY <1>4, PTL DEF SpecSupervised
=============================================================================
