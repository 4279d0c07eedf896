-------------------------- MODULE CommandPathProofs --------------------------
(***************************************************************************)
(* Proofs about CommandPath, for any number of terminals and any bounds.   *)
(***************************************************************************)
EXTENDS CommandPathRegistry, SequenceTheorems, TLAPS

(* A process holds messages exactly while it works on them: one when it     *)
(* handles or acknowledges, and a chunk, in the gateway alone, when it      *)
(* forwards.                                                                *)
HandFitsPc ==
  \A p \in Procs :
    /\ pc[p] \in {"down", "init", "loop", "accepted", "lost"} => hand[p] = <<>>
    /\ pc[p] \in {"handle", "ack"} => Len(hand[p]) = 1
    /\ pc[p] = "forward" => p = GW /\ Len(hand[p]) \in 1..Batch

(* A terminal never writes to its connection.                               *)
QuietTerminals ==
  \A t \in Terms :
    /\ \A i \in DOMAIN pend[t] : pend[t][i].up = <<>>
    /\ client[t] # <<>> => client[t][1].up = <<>>

(* The queues of requests hold at most Cap.                                 *)
QueuesBounded == \A p \in Terms \cup {LOC} : Len(queue[p]) <= Cap

PathInv == TypeOK /\ HandFitsPc /\ QuietTerminals /\ QueuesBounded

-----------------------------------------------------------------------------
(* Marking some of a server's connections changes neither their number nor  *)
(* what they are.                                                           *)
LEMMA Marked ==
  ASSUME NEW S, NEW s \in Seq(S), NEW f \in [DOMAIN s -> S]
  PROVE  f \in Seq(S) /\ Len(f) = Len(s) /\ DOMAIN f = DOMAIN s
<1>1. Len(s) \in Nat /\ DOMAIN s = 1..Len(s)
  BY LenProperties
<1>2. f \in Seq(S)
  BY <1>1, SeqDef
<1>3. Len(f) \in Nat /\ DOMAIN f = 1..Len(f)
  BY <1>2, LenProperties
<1> QED BY <1>1, <1>2, <1>3

LEMMA Pieces ==
  ASSUME NEW S, NEW s \in Seq(S), NEW n \in 1..Len(s)
  PROVE  /\ SubSeq(s, 1, n) \in Seq(S) /\ Len(SubSeq(s, 1, n)) = n
         /\ SubSeq(s, n + 1, Len(s)) \in Seq(S)
<1>1. Len(s) \in Nat /\ \A i \in 1..Len(s) : s[i] \in S
  BY LenProperties, ElementOfSeq
<1>2. \A i \in 1..n : s[i] \in S
  BY <1>1
<1>3. \A i \in n+1..Len(s) : s[i] \in S
  BY <1>1
<1>4. 1 \in Int /\ n \in Int /\ n + 1 \in Int /\ Len(s) \in Int
  BY <1>1
<1>5. SubSeq(s, 1, n) \in Seq(S) /\ Len(SubSeq(s, 1, n)) = IF 1 <= n THEN n - 1 + 1 ELSE 0
  BY <1>2, <1>4, SubSeqProperties
<1>6. SubSeq(s, n + 1, Len(s)) \in Seq(S)
  BY <1>3, <1>4, SubSeqProperties
<1> QED BY <1>5, <1>6

LEMMA StartedInv ==
  ASSUME NEW up \in SUBSET Procs, NEW on \in SUBSET Servers, Started(up, on)
  PROVE  PathInv /\ ClientIsReported
<1> USE PathAssumption DEF Procs, Servers
<1> DEFINE new == [alive |-> TRUE, up |-> <<>>]
<1>1. /\ made = up
      /\ queue = [p \in Procs |-> <<>>]
      /\ hand = [p \in Procs |-> <<>>]
      /\ pend = [p \in Servers |-> <<>>]
      /\ down = [p \in Servers |-> <<>>]
      /\ shown = [t \in Terms |-> <<>>]
      /\ log = <<>> /\ acked = <<>> /\ kills = 0 /\ closes = 0
  BY DEF Started
<1>2. pc = [p \in Procs |-> IF p \in up THEN "loop" ELSE "down"]
  BY DEF Started
<1>3. client = [p \in Servers |-> IF p \in on THEN <<new>> ELSE <<>>]
  BY DEF Started
<1>4. peer \in [Servers -> {"off", "on", "eof"}]
  BY DEF Started
<1>5. table \in [Terms -> Rows] /\ \A t \in Terms : t \in on => table[t] = "connected"
  BY DEF Started, Rows
<1>6. new \in Sock /\ new.up = <<>>
  BY EmptySeq DEF Sock
<1> HIDE DEF new
<1>7. <<new>> \in Seq(Sock) /\ Len(<<new>>) = 1 /\ <<new>>[1] = new
  BY <1>6
<1>8. /\ <<>> \in Seq(Sock) /\ <<>> \in Seq(Cmds) /\ <<>> \in Seq(Terms \cup Strangers)
      /\ Len(<<>>) = 0 /\ DOMAIN <<>> = {}
  OBVIOUS
<1>9. client \in [Servers -> Seq(Sock)] /\ \A p \in Servers : Len(client[p]) <= 1
  <2> DEFINE one == <<new>>
             none == <<>>
  <2>1. client = [p \in Servers |-> IF p \in on THEN one ELSE none]
    BY <1>3
  <2>2. {one, none} \subseteq Seq(Sock) /\ Len(one) = 1 /\ Len(none) = 0
    BY <1>7, <1>8
  <2> HIDE DEF one, none
  <2>3. \A p \in Servers : client[p] = one \/ client[p] = none
    BY <2>1
  <2>4. client \in [Servers -> {one, none}]
    BY <2>1
  <2>5. client \in [Servers -> Seq(Sock)]
    BY <2>2, <2>4
  <2>6. \A p \in Servers : Len(client[p]) <= 1
    <3> SUFFICES ASSUME NEW p \in Servers PROVE Len(client[p]) <= 1
      OBVIOUS
    <3>1. Len(client[p]) = 1 \/ Len(client[p]) = 0
      BY <2>2, <2>3, Zenon
    <3> DEFINE k == Len(client[p])
    <3>2. k = 1 \/ k = 0
      BY <3>1
    <3> HIDE DEF k
    <3>3. k <= 1
      BY <3>2
    <3> QED BY <3>3 DEF k
  <2> QED BY <2>5, <2>6
<1>10. TypeOK
  <2>1. \A p \in Servers : Len(client[p]) <= 1 /\ Len(pend[p]) <= Backlog + 1
    BY <1>1, <1>8, <1>9
  <2>2. pc \in [Procs -> {"down", "init", "loop", "handle", "forward", "ack", "accepted", "lost"}]
    BY <1>2
  <2>3. /\ queue \in [Procs -> Seq(Cmds)] /\ hand \in [Procs -> Seq(Cmds)]
        /\ pend \in [Servers -> Seq(Sock)] /\ down \in [Servers -> Seq(Cmds)]
        /\ shown \in [Terms -> Seq(Cmds)]
    BY <1>1, <1>8
  <2>4. /\ made \subseteq Procs /\ log \in Seq(Terms \cup Strangers) /\ acked \in Seq(Cmds)
        /\ kills \in 0..MaxKills /\ closes \in 0..MaxCloses
    BY <1>1, <1>8
  <2> QED BY <1>4, <1>5, <1>9, <2>1, <2>2, <2>3, <2>4 DEF TypeOK
<1>11. HandFitsPc
  BY <1>1, <1>2 DEF HandFitsPc
<1>12. QueuesBounded
  BY <1>1, <1>8 DEF QueuesBounded
<1>13. QuietTerminals
  BY <1>1, <1>3, <1>6, <1>7, <1>8 DEF QuietTerminals
<1>14. ClientIsReported
  BY <1>3, <1>5 DEF ClientIsReported
<1> QED BY <1>10, <1>11, <1>12, <1>13, <1>14 DEF PathInv

(* The last index of a longer sequence, apart from the others.              *)
LEMMA LastIndex ==
  ASSUME NEW n \in Nat, NEW i \in 1..n + 1
  PROVE  i \in 1..n \/ i = n + 1
OBVIOUS

LEMMA ConnectInv ==
  ASSUME PathInv, NEW p \in Servers, Connect(p)
  PROVE  PathInv'
<1> USE PathAssumption DEF PathInv, TypeOK, Servers, Procs
<1> DEFINE new == [alive |-> TRUE, up |-> <<>>]
<1>1. new \in Sock
  BY DEF Sock
<1>2. /\ Append(pend[p], new) \in Seq(Sock)
      /\ Len(Append(pend[p], new)) = Len(pend[p]) + 1
      /\ \A i \in 1..Len(pend[p]) : Append(pend[p], new)[i] = pend[p][i]
      /\ Append(pend[p], new)[Len(pend[p]) + 1] = new
  <2>1. pend[p] \in Seq(Sock)
    OBVIOUS
  <2> QED BY <1>1, <2>1, AppendProperties
<1>3. /\ pend' = [pend EXCEPT ![p] = Append(pend[p], new)]
      /\ peer' = [peer EXCEPT ![p] = "on"]
      /\ Len(pend[p]) <= Backlog
      /\ UNCHANGED <<made, queue, pc, hand, table, client, down, user, kills, closes>>
  BY DEF Connect
<1>4. TypeOK'
  <2>1. pend' \in [Servers -> Seq(Sock)]
    BY <1>2, <1>3
  <2>2. \A q \in Servers : Len(pend'[q]) <= Backlog + 1
    <3>1. Len(pend[p]) \in Nat /\ Backlog \in Nat
      BY LenProperties
    <3>2. Len(Append(pend[p], new)) = Len(pend[p]) + 1
      BY <1>2, AppendProperties
    <3>3. pend'[p] = Append(pend[p], new) /\ \A q \in Servers \ {p} : pend'[q] = pend[q]
      BY <1>3
    <3>4. Len(pend'[p]) <= Backlog + 1
      BY ONLY <1>3, <3>1, <3>2, <3>3
    <3> QED BY <3>3, <3>4
  <2>3. peer' \in [Servers -> {"off", "on", "eof"}]
    BY <1>3
  <2>4. UNCHANGED <<made, queue, pc, hand, table, client, down, log, shown, acked, kills, closes>>
    BY <1>3 DEF user
  <2> QED BY ONLY <2>1, <2>2, <2>3, <2>4, TypeOK DEF TypeOK, Servers, Procs
<1>5. HandFitsPc' /\ QueuesBounded'
  BY <1>3 DEF HandFitsPc, QueuesBounded
<1>6. QuietTerminals'
  <2> SUFFICES ASSUME NEW t \in Terms
               PROVE  /\ \A i \in DOMAIN pend'[t] : pend'[t][i].up = <<>>
                      /\ client'[t] # <<>> => client'[t][1].up = <<>>
    BY DEF QuietTerminals
  <2>1. client'[t] # <<>> => client'[t][1].up = <<>>
    BY <1>3 DEF QuietTerminals
  <2>2. CASE t # p
    BY <1>3, <2>1, <2>2 DEF QuietTerminals
  <2>3. CASE t = p
    <3>1. pend'[t] = Append(pend[t], new)
      BY <1>3, <2>3
    <3>2. /\ DOMAIN pend'[t] = 1..Len(pend[t]) + 1
          /\ DOMAIN pend[t] = 1..Len(pend[t]) /\ Len(pend[t]) \in Nat
      BY <1>2, <2>3, <3>1, LenProperties
    <3>3. \A i \in DOMAIN pend[t] : pend[t][i].up = <<>>
      BY DEF QuietTerminals
    <3>4. \A i \in DOMAIN pend'[t] : pend'[t][i].up = <<>>
      <4> SUFFICES ASSUME NEW i \in 1..Len(pend[t]) + 1 PROVE pend'[t][i].up = <<>>
        BY <3>2
      <4>1. CASE i \in 1..Len(pend[t])
        <5>1. pend'[t][i] = pend[t][i] /\ i \in DOMAIN pend[t]
          BY <1>2, <2>3, <3>1, <3>2, <4>1
        <5> QED BY <3>3, <5>1
      <4>2. CASE i = Len(pend[t]) + 1
        <5>1. pend'[t][i] = new
          BY <1>2, <2>3, <3>1, <4>2
        <5>2. new.up = <<>>
          OBVIOUS
        <5> HIDE DEF new
        <5> QED BY <5>1, <5>2, Zenon
      <4>3. i \in 1..Len(pend[t]) \/ i = Len(pend[t]) + 1
        <5>1. Len(pend[t]) \in Nat
          BY <3>2
        <5> QED BY ONLY <5>1, LastIndex
      <4> QED BY <4>1, <4>2, <4>3
    <3> QED BY <2>1, <3>4
  <2> QED BY <2>2, <2>3
<1> QED BY <1>4, <1>5, <1>6

LEMMA SendLockInv ==
  ASSUME PathInv, NEW to \in Terms \cup Strangers, SendLock(to)
  PROVE  PathInv'
<1> USE PathAssumption DEF PathInv, TypeOK, Servers, Procs
<1> DEFINE n == Len(log) + 1
           f == Write(pend[GW], n)
           g == Write(client[GW], n)
<1>1. n \in Cmds /\ log' \in Seq(Terms \cup Strangers)
  BY DEF SendLock, Cmds
<1>2. \A s \in Sock : [alive |-> TRUE, up |-> Append(s.up, n)] \in Sock
  BY <1>1 DEF Sock
<1>3. f \in [DOMAIN pend[GW] -> Sock] /\ g \in [DOMAIN client[GW] -> Sock]
  <2>1. \A i \in DOMAIN pend[GW] : pend[GW][i] \in Sock
    BY ElementOfSeq, LenProperties
  <2>2. \A i \in DOMAIN client[GW] : client[GW][i] \in Sock
    BY ElementOfSeq, LenProperties
  <2> QED BY <1>2, <2>1, <2>2 DEF Write
<1>4. /\ f \in Seq(Sock) /\ Len(f) = Len(pend[GW])
      /\ g \in Seq(Sock) /\ Len(g) = Len(client[GW])
  <2>1. pend[GW] \in Seq(Sock) /\ client[GW] \in Seq(Sock)
    OBVIOUS
  <2> HIDE DEF f, g
  <2> QED BY <1>3, <2>1, Marked
<1>5. /\ pend' = [pend EXCEPT ![GW] = f]
      /\ client' = [client EXCEPT ![GW] = g]
      /\ UNCHANGED <<made, queue, pc, hand, table, peer, down, shown, acked, kills, closes>>
  BY DEF SendLock
<1> HIDE DEF f, g
<1>6. TypeOK'
  BY <1>1, <1>4, <1>5
<1>7. HandFitsPc' /\ QueuesBounded'
  BY <1>5 DEF HandFitsPc, QueuesBounded
<1>8. QuietTerminals'
  BY <1>5 DEF QuietTerminals
<1> QED BY <1>6, <1>7, <1>8
LEMMA PeerCloseInv ==
  ASSUME PathInv, NEW p \in Servers, PeerClose(p)
  PROVE  PathInv'
<1> USE PathAssumption DEF PathInv, TypeOK, Servers, Procs
<1> PICK orderly \in BOOLEAN :
      /\ pend' = [pend EXCEPT ![p] = Hangup(@, orderly)]
      /\ client' = [client EXCEPT ![p] = Hangup(@, orderly)]
  BY DEF PeerClose
<1> DEFINE f == Hangup(pend[p], orderly)
           g == Hangup(client[p], orderly)
<1>1. pend[p] \in Seq(Sock) /\ client[p] \in Seq(Sock)
  OBVIOUS
<1>2. f \in [DOMAIN pend[p] -> Sock] /\ g \in [DOMAIN client[p] -> Sock]
  <2>1. \A i \in DOMAIN pend[p] : pend[p][i] \in Sock
    BY <1>1, ElementOfSeq, LenProperties
  <2>2. \A i \in DOMAIN client[p] : client[p][i] \in Sock
    BY <1>1, ElementOfSeq, LenProperties
  <2>3. \A s \in Sock : [alive |-> FALSE, up |-> IF orderly THEN s.up ELSE <<>>] \in Sock
    BY DEF Sock
  <2> QED BY <2>1, <2>2, <2>3 DEF Hangup
<1>3. /\ \A i \in DOMAIN pend[p] : pend[p][i].up = <<>> => f[i].up = <<>>
      /\ \A i \in DOMAIN client[p] : client[p][i].up = <<>> => g[i].up = <<>>
  BY DEF Hangup
<1> HIDE DEF f, g
<1>4. /\ f \in Seq(Sock) /\ Len(f) = Len(pend[p]) /\ DOMAIN f = DOMAIN pend[p]
      /\ g \in Seq(Sock) /\ Len(g) = Len(client[p]) /\ DOMAIN g = DOMAIN client[p]
  BY <1>1, <1>2, Marked
<1>5. /\ pend' = [pend EXCEPT ![p] = f]
      /\ client' = [client EXCEPT ![p] = g]
      /\ peer' = [peer EXCEPT ![p] = "off"]
      /\ down' = [down EXCEPT ![p] = <<>>]
      /\ closes' \in 0..MaxCloses
      /\ UNCHANGED <<made, queue, pc, hand, table, user, kills>>
  <2>1. pend' = [pend EXCEPT ![p] = f] /\ client' = [client EXCEPT ![p] = g]
    BY DEF f, g
  <2>2. closes' \in 0..MaxCloses
    BY DEF PeerClose
  <2>3. /\ peer' = [peer EXCEPT ![p] = "off"]
        /\ down' = [down EXCEPT ![p] = <<>>]
        /\ UNCHANGED <<made, queue, pc, hand, table, user, kills>>
    BY DEF PeerClose
  <2> QED BY <2>1, <2>2, <2>3
<1>6. TypeOK'
  <2>1. pend' \in [Servers -> Seq(Sock)] /\ client' \in [Servers -> Seq(Sock)]
    BY <1>4, <1>5
  <2>2. \A q \in Servers : Len(client'[q]) <= 1 /\ Len(pend'[q]) <= Backlog + 1
    BY <1>4, <1>5
  <2>3. peer' \in [Servers -> {"off", "on", "eof"}]
    BY <1>5
  <2>4. down' \in [Servers -> Seq(Cmds)]
    BY <1>5, EmptySeq
  <2> QED BY ONLY <1>5, <2>1, <2>2, <2>3, <2>4, TypeOK DEF TypeOK, Servers, Procs, user
<1>7. HandFitsPc' /\ QueuesBounded'
  BY <1>5 DEF HandFitsPc, QueuesBounded
<1>8. QuietTerminals'
  <2> SUFFICES ASSUME NEW t \in Terms
               PROVE  /\ \A i \in DOMAIN pend'[t] : pend'[t][i].up = <<>>
                      /\ client'[t] # <<>> => client'[t][1].up = <<>>
    BY DEF QuietTerminals
  <2>1. CASE t # p
    BY <1>5, <2>1 DEF QuietTerminals
  <2>2. CASE t = p
    <3>1. \A i \in DOMAIN f : f[i].up = <<>>
      BY <1>3, <1>4, <2>2 DEF QuietTerminals
    <3>2. ASSUME g # <<>> PROVE g[1].up = <<>>
      <4>1. Len(g) # 0 /\ Len(client[p]) # 0 /\ client[p] # <<>>
        BY <1>1, <1>4, <3>2, EmptySeq
      <4>2. 1 \in DOMAIN client[p]
        <5>1. client[p] \in Seq(Sock)
          BY <1>1
        <5>2. Len(client[p]) \in Nat /\ DOMAIN client[p] = 1..Len(client[p])
          BY ONLY <5>1, LenProperties
        <5> QED BY ONLY <4>1, <5>2
      <4> QED BY <1>3, <2>2, <4>1, <4>2 DEF QuietTerminals
    <3> QED BY <1>5, <2>2, <3>1, <3>2
  <2> QED BY <2>1, <2>2
<1> QED BY <1>6, <1>7, <1>8

(* The steps that leave the sockets, the queues and the hands alone.        *)
LEMMA QuietStepInv ==
  ASSUME PathInv,
         \/ \E t \in Terms : TerminalRead(t)
         \/ MaintRead
         \/ \E p \in Servers : PeerNotice(p)
         \/ \E p \in Procs : Start(p) \/ Ready(p)
         \/ UNCHANGED vars
  PROVE  PathInv'
<1> USE PathAssumption DEF PathInv, TypeOK, Servers, Procs
<1>1. ASSUME NEW t \in Terms, TerminalRead(t) PROVE PathInv'
  <2>1. down[t] \in Seq(Cmds) /\ down[t] # <<>> /\ shown[t] \in Seq(Cmds)
    BY <1>1 DEF TerminalRead
  <2>2. /\ Tail(down[t]) \in Seq(Cmds)
        /\ Append(shown[t], Head(down[t])) \in Seq(Cmds)
    BY <2>1, HeadTailProperties, AppendProperties
  <2>3. /\ down' \in [Servers -> Seq(Cmds)] /\ shown' \in [Terms -> Seq(Cmds)]
        /\ UNCHANGED <<made, queue, pc, hand, table, pend, client, peer, log, acked, kills, closes>>
    BY <1>1, <2>2 DEF TerminalRead
  <2>4. TypeOK'
    BY ONLY <2>3, TypeOK DEF TypeOK, Servers, Procs
  <2>5. PathInv
    OBVIOUS
  <2> QED BY ONLY <2>3, <2>4, <2>5 DEF PathInv, HandFitsPc, QuietTerminals, QueuesBounded, Procs
<1>2. CASE MaintRead
  <2>1. down[GW] \in Seq(Cmds) /\ down[GW] # <<>>
    BY <1>2 DEF MaintRead
  <2>2. /\ Tail(down[GW]) \in Seq(Cmds)
        /\ Append(acked, Head(down[GW])) \in Seq(Cmds)
    BY <2>1, HeadTailProperties, AppendProperties
  <2>3. TypeOK'
    BY <1>2, <2>2 DEF MaintRead
  <2> QED BY <1>2, <2>3 DEF MaintRead, HandFitsPc, QuietTerminals, QueuesBounded
<1>3. ASSUME NEW p \in Servers, PeerNotice(p) PROVE PathInv'
  <2>1. /\ peer' = [peer EXCEPT ![p] = "off"]
        /\ down' = [down EXCEPT ![p] = <<>>]
        /\ UNCHANGED <<made, queue, pc, hand, table, pend, client, log, shown, acked,
                       kills, closes>>
    BY <1>3 DEF PeerNotice, user
  <2>2. TypeOK'
    <3>1. peer' \in [Servers -> {"off", "on", "eof"}]
      BY <2>1
    <3>2. down' \in [Servers -> Seq(Cmds)]
      BY <2>1, EmptySeq
    <3> QED BY ONLY <2>1, <3>1, <3>2, TypeOK DEF TypeOK, Servers, Procs
  <2>3. HandFitsPc' /\ QuietTerminals' /\ QueuesBounded'
    BY <2>1 DEF HandFitsPc, QuietTerminals, QueuesBounded
  <2> QED BY <2>2, <2>3
<1>4. ASSUME NEW p \in Procs, Start(p) PROVE PathInv'
  <2>1. /\ pc[p] = "down"
        /\ pc' = [pc EXCEPT ![p] = "init"]
        /\ made' = made \cup {p}
        /\ UNCHANGED <<queue, hand, table, pend, client, peer, down, log, shown, acked,
                       kills, closes>>
    BY <1>4 DEF Start, Goto, net, user
  <2>2. TypeOK'
    BY <2>1
  <2>3. HandFitsPc'
    BY <2>1 DEF HandFitsPc
  <2>4. QuietTerminals' /\ QueuesBounded'
    BY <2>1 DEF QuietTerminals, QueuesBounded
  <2> QED BY <2>2, <2>3, <2>4
<1>5. ASSUME NEW p \in Procs, Ready(p) PROVE PathInv'
  <2>1. table' \in [Terms -> Rows]
    BY <1>5 DEF Ready, Rows
  <2>2. /\ pc[p] = "init"
        /\ pc' = [pc EXCEPT ![p] = "loop"]
        /\ UNCHANGED <<made, queue, hand, pend, client, peer, down, log, shown, acked,
                       kills, closes>>
    BY <1>5 DEF Ready, Goto, net, user
  <2>3. TypeOK'
    BY <2>1, <2>2
  <2>4. HandFitsPc'
    BY <2>2 DEF HandFitsPc
  <2>5. QuietTerminals' /\ QueuesBounded'
    BY <2>2 DEF QuietTerminals, QueuesBounded
  <2> QED BY <2>3, <2>4, <2>5
<1>6. CASE UNCHANGED vars
  <2>1. UNCHANGED <<made, queue, pc, hand, table, pend, client, peer, down, log, shown,
                    acked, kills, closes>>
    BY <1>6 DEF vars, net, user
  <2>2. TypeOK'
    BY <2>1
  <2>3. HandFitsPc' /\ QuietTerminals' /\ QueuesBounded'
    BY <2>1 DEF HandFitsPc, QuietTerminals, QueuesBounded
  <2> QED BY <2>2, <2>3
<1> QED BY <1>1, <1>2, <1>3, <1>4, <1>5, <1>6

(* The end of a process, which keeps what QuietTerminals says of the others.*)
LEMMA ClosedInv ==
  ASSUME PathInv, NEW p \in Procs, SocketsClose(p)
  PROVE  /\ pend' \in [Servers -> Seq(Sock)] /\ client' \in [Servers -> Seq(Sock)]
         /\ \A q \in Servers : Len(client'[q]) <= 1 /\ Len(pend'[q]) <= Backlog + 1
         /\ peer' \in [Servers -> {"off", "on", "eof"}]
         /\ QuietTerminals'
<1> USE PathAssumption DEF PathInv, TypeOK, Servers, Procs
<1>1. pend' \in [Servers -> Seq(Sock)] /\ client' \in [Servers -> Seq(Sock)]
  BY EmptySeq DEF SocketsClose
<1>2. \A q \in Servers : Len(client'[q]) <= 1 /\ Len(pend'[q]) <= Backlog + 1
  BY DEF SocketsClose
<1>3. peer' \in [Servers -> {"off", "on", "eof"}]
  BY DEF SocketsClose
<1>4. QuietTerminals'
  <2> SUFFICES ASSUME NEW t \in Terms
               PROVE  /\ \A i \in DOMAIN pend'[t] : pend'[t][i].up = <<>>
                      /\ client'[t] # <<>> => client'[t][1].up = <<>>
    BY DEF QuietTerminals
  <2>1. /\ pend'[t] = <<>> \/ pend'[t] = pend[t]
        /\ client'[t] = <<>> \/ client'[t] = client[t]
    BY DEF SocketsClose
  <2> QED BY ONLY <2>1, QuietTerminals DEF QuietTerminals
<1> QED BY <1>1, <1>2, <1>3, <1>4

LEMMA KillInv ==
  ASSUME PathInv, NEW p \in Procs, Kill(p) \/ InitFail(p)
  PROVE  PathInv'
<1> USE PathAssumption DEF PathInv, TypeOK, Servers, Procs
<1>1. /\ pend' \in [Servers -> Seq(Sock)] /\ client' \in [Servers -> Seq(Sock)]
      /\ \A q \in Servers : Len(client'[q]) <= 1 /\ Len(pend'[q]) <= Backlog + 1
      /\ peer' \in [Servers -> {"off", "on", "eof"}]
      /\ QuietTerminals'
  BY ClosedInv DEF Kill, InitFail
<1>2. /\ kills' \in 0..MaxKills
      /\ pc' = [pc EXCEPT ![p] = "down"]
      /\ UNCHANGED <<table, down, log, shown, acked, closes>>
  BY DEF Kill, InitFail, Goto, user
<1>3. /\ made' \subseteq Procs
      /\ hand' \in [Procs -> Seq(Cmds)] /\ hand'[p] = <<>>
      /\ \A q \in Procs : q # p => hand'[q] = hand[q]
  <2>1. CASE Kill(p)
    BY <2>1, EmptySeq DEF Kill
  <2>2. CASE InitFail(p)
    BY <2>2 DEF InitFail, HandFitsPc
  <2> QED BY <2>1, <2>2
<1>4. queue' \in [Procs -> Seq(Cmds)] /\ \A q \in Procs : queue'[q] \in {queue[q], <<>>}
  <2>1. CASE Kill(p)
    BY <2>1 DEF Kill
  <2>2. CASE InitFail(p)
    BY <2>2, EmptySeq DEF InitFail
  <2> QED BY <2>1, <2>2
<1>5. TypeOK'
  <2>1. pc' \in [Procs -> {"down", "init", "loop", "handle", "forward", "ack", "accepted", "lost"}]
    BY <1>2
  <2> QED BY ONLY <1>1, <1>2, <1>3, <1>4, <2>1, TypeOK DEF TypeOK, Servers, Procs
<1>6. HandFitsPc'
  BY <1>2, <1>3 DEF HandFitsPc
<1>7. QueuesBounded'
  BY <1>4 DEF QueuesBounded
<1> QED BY <1>1, <1>5, <1>6, <1>7
-----------------------------------------------------------------------------
(* The steps of the processes.  A message sent is lost or at the end of a    *)
(* queue that had room.                                                     *)
LEMMA SendTyped ==
  ASSUME queue \in [Procs -> Seq(Cmds)], NEW q \in Procs, NEW n \in Cmds, NEW cap,
         SendTo(q, n, cap)
  PROVE  /\ queue' \in [Procs -> Seq(Cmds)]
         /\ \A p \in Procs \ {q} : queue'[p] = queue[p]
         /\ \/ queue'[q] = queue[q]
            \/ Len(queue[q]) < cap /\ Len(queue'[q]) = Len(queue[q]) + 1
<1>1. CASE q \in made
  <2>1. /\ Append(queue[q], n) \in Seq(Cmds)
        /\ Len(Append(queue[q], n)) = Len(queue[q]) + 1
    BY AppendProperties
  <2>2. Len(queue[q]) < cap /\ queue' = [queue EXCEPT ![q] = Append(queue[q], n)]
    BY <1>1 DEF SendTo, Enqueue
  <2> HIDE DEF Procs
  <2> QED BY <2>1, <2>2
<1>2. CASE q \notin made
  BY <1>2 DEF SendTo
<1> QED BY <1>1, <1>2

LEMMA ReplyTyped ==
  ASSUME client \in [Servers -> Seq(Sock)], \A p \in Servers : Len(client[p]) <= 1,
         down \in [Servers -> Seq(Cmds)], NEW q \in Servers, NEW n \in Cmds, Reply(q, n)
  PROVE  /\ client' \in [Servers -> Seq(Sock)]
         /\ \A p \in Servers : client'[p] \in {client[p], <<>>}
         /\ down' \in [Servers -> Seq(Cmds)]
<1>1. <<>> \in Seq(Sock) /\ Append(down[q], n) \in Seq(Cmds)
  BY AppendProperties, EmptySeq
<1>2. \/ UNCHANGED <<client, down>>
      \/ down' = [down EXCEPT ![q] = Append(down[q], n)] /\ UNCHANGED client
      \/ client' = [client EXCEPT ![q] = <<>>] /\ UNCHANGED down
  BY DEF Reply, TcpSend
<1> HIDE DEF Servers
<1> QED BY <1>1, <1>2

LEMMA RecvInv ==
  ASSUME PathInv, NEW p \in Procs, Recv(p)
  PROVE  PathInv'
<1> USE PathAssumption DEF PathInv, TypeOK, Servers, Procs
<1>1. queue[p] \in Seq(Cmds) /\ queue[p] # <<>>
  BY DEF Recv
<1>2. /\ Tail(queue[p]) \in Seq(Cmds) /\ Head(queue[p]) \in Cmds
      /\ Len(queue[p]) \in Nat /\ Len(Tail(queue[p])) = Len(queue[p]) - 1
  BY <1>1, HeadTailProperties, LenProperties
<1>3. <<Head(queue[p])>> \in Seq(Cmds) /\ Len(<<Head(queue[p])>>) = 1
  BY <1>2
<1>4. /\ queue' = [queue EXCEPT ![p] = Tail(@)]
      /\ hand' = [hand EXCEPT ![p] = <<Head(queue[p])>>]
      /\ pc' = [pc EXCEPT ![p] = "handle"]
      /\ UNCHANGED <<made, table, pend, client, peer, down, log, shown, acked, kills, closes>>
  BY DEF Recv, Goto, net, user
<1>5. TypeOK'
  BY <1>2, <1>3, <1>4
<1>6. HandFitsPc'
  BY <1>3, <1>4 DEF HandFitsPc
<1>7. QuietTerminals'
  BY <1>4 DEF QuietTerminals
<1>8. QueuesBounded'
  <2>1. Len(queue[p]) \in Nat /\ Len(queue'[p]) = Len(queue[p]) - 1
    BY <1>2, <1>4
  <2>2. \A q \in Procs : q # p => queue'[q] = queue[q]
    BY <1>4
  <2>3. SUFFICES ASSUME NEW q \in Terms \cup {LOC} PROVE Len(queue'[q]) <= Cap
    BY DEF QueuesBounded
  <2>4. Len(queue[q]) <= Cap /\ Cap \in Nat
    BY DEF QueuesBounded
  <2>5. CASE q = p
    BY ONLY <2>1, <2>4, <2>5
  <2>6. CASE q # p
    BY <2>2, <2>4, <2>6
  <2> QED BY <2>5, <2>6
<1> QED BY <1>5, <1>6, <1>7, <1>8

(* A process that works has a message in hand.                              *)
LEMMA HeadInHand ==
  ASSUME PathInv, NEW p \in Procs, pc[p] \in {"handle", "forward", "ack"}
  PROVE  /\ Head(hand[p]) \in Cmds
         /\ Tail(hand[p]) \in Seq(Cmds) /\ Len(Tail(hand[p])) = Len(hand[p]) - 1
         /\ Len(hand[p]) \in Nat /\ Len(hand[p]) >= 1
<1>1. hand[p] \in Seq(Cmds)
  BY DEF PathInv, TypeOK
<1>2. Len(hand[p]) \in Nat /\ Len(hand[p]) >= 1
  <2>1. Len(hand[p]) \in Nat
    BY <1>1, LenProperties
  <2>2. Len(hand[p]) = 1 \/ Len(hand[p]) \in 1..Batch
    BY DEF PathInv, HandFitsPc
  <2>3. Batch \in Nat
    BY PathAssumption
  <2> QED BY <2>1, <2>2, <2>3
<1>3. hand[p] # <<>>
  BY <1>1, <1>2, EmptySeq
<1> QED BY <1>1, <1>2, <1>3, HeadTailProperties

LEMMA ForwardInv ==
  ASSUME PathInv, GatewayForward
  PROVE  PathInv'
<1> USE PathAssumption DEF PathInv, TypeOK, Servers, Procs
<1>1. /\ pc[GW] = "forward"
      /\ SendTo(LOC, Head(hand[GW]), Cap)
      /\ hand' = [hand EXCEPT ![GW] = Tail(@)]
      /\ pc' = [pc EXCEPT ![GW] = IF Len(hand[GW]) = 1 THEN "loop" ELSE "forward"]
      /\ UNCHANGED <<made, table, pend, client, peer, down, log, shown, acked, kills, closes>>
  BY DEF GatewayForward, Goto, net, user
<1>2. /\ Head(hand[GW]) \in Cmds
      /\ Tail(hand[GW]) \in Seq(Cmds) /\ Len(Tail(hand[GW])) = Len(hand[GW]) - 1
      /\ Len(hand[GW]) \in 1..Batch
  <2>1. Len(hand[GW]) \in 1..Batch
    BY <1>1 DEF HandFitsPc
  <2> QED BY <1>1, <2>1, HeadInHand
<1>3. /\ queue' \in [Procs -> Seq(Cmds)]
      /\ \A p \in Procs \ {LOC} : queue'[p] = queue[p]
      /\ \/ queue'[LOC] = queue[LOC]
         \/ Len(queue[LOC]) < Cap /\ Len(queue'[LOC]) = Len(queue[LOC]) + 1
  BY <1>1, <1>2, SendTyped
<1>4. TypeOK'
  BY <1>1, <1>2, <1>3
<1>5. HandFitsPc'
  <2>1. CASE Len(hand[GW]) = 1
    <3>1. Tail(hand[GW]) = <<>>
      <4>1. Tail(hand[GW]) \in Seq(Cmds) /\ Len(Tail(hand[GW])) = 0
        BY <1>2, <2>1
      <4> QED BY <4>1, EmptySeq
    <3> QED BY <1>1, <2>1, <3>1 DEF HandFitsPc
  <2>2. CASE Len(hand[GW]) # 1
    <3>1. Len(Tail(hand[GW])) \in 1..Batch
      BY <1>2, <2>2
    <3> QED BY <1>1, <2>2, <3>1 DEF HandFitsPc
  <2> QED BY <2>1, <2>2
<1>6. QuietTerminals'
  BY <1>1 DEF QuietTerminals
<1>7. QueuesBounded'
  <2>1. Len(queue[LOC]) \in Nat
    BY LenProperties
  <2> QED BY <1>3, <2>1 DEF QueuesBounded
<1> QED BY <1>4, <1>5, <1>6, <1>7

(* Locator and termd send on what they have in hand, or drop it.            *)
LEMMA PassOnInv ==
  ASSUME PathInv, LocatorRoute \/ \E t \in Terms : TermdAck(t)
  PROVE  PathInv'
<1> USE PathAssumption DEF PathInv, TypeOK, Servers, Procs
<1>1. PICK p \in Terms \cup {LOC} :
        /\ hand' = [hand EXCEPT ![p] = <<>>]
        /\ pc' = [pc EXCEPT ![p] = "loop"]
        /\ UNCHANGED <<made, table, pend, client, peer, down, log, shown, acked, kills, closes>>
  BY DEF LocatorRoute, TermdAck, Goto, net, user
<1>2. queue' \in [Procs -> Seq(Cmds)] /\ QueuesBounded'
  <2>1. CASE LocatorRoute
    <3>1. Head(hand[LOC]) \in Cmds
      BY <2>1, HeadInHand DEF LocatorRoute
    <3>2. UNCHANGED queue \/ \E t \in Terms \cup {LOC} : SendTo(t, Head(hand[LOC]), Cap)
      <4> DEFINE to == Resolve(log[Head(hand[LOC])])
      <4>1. to \subseteq Terms \cup {LOC}
        BY DEF Resolve
      <4> QED BY <2>1, <4>1 DEF LocatorRoute
    <3>3. CASE UNCHANGED queue
      BY <3>3 DEF QueuesBounded
    <3>4. ASSUME NEW t \in Terms \cup {LOC}, SendTo(t, Head(hand[LOC]), Cap)
          PROVE  queue' \in [Procs -> Seq(Cmds)] /\ QueuesBounded'
      <4>1. /\ queue' \in [Procs -> Seq(Cmds)]
            /\ \A q \in Procs \ {t} : queue'[q] = queue[q]
            /\ \/ queue'[t] = queue[t]
               \/ Len(queue[t]) < Cap /\ Len(queue'[t]) = Len(queue[t]) + 1
        <5>1. t \in Procs /\ queue \in [Procs -> Seq(Cmds)]
          OBVIOUS
        <5> QED BY <3>1, <3>4, <5>1, SendTyped
      <4>2. Len(queue[t]) \in Nat /\ Len(queue[t]) <= Cap /\ Cap \in Nat
        BY LenProperties DEF QueuesBounded
      <4>3. Len(queue'[t]) <= Cap
        BY ONLY <4>1, <4>2
      <4>4. \A q \in Terms \cup {LOC} : Len(queue'[q]) <= Cap
        BY <4>1, <4>3 DEF QueuesBounded
      <4> QED BY <4>1, <4>4 DEF QueuesBounded
    <3> QED BY <3>2, <3>3, <3>4
  <2>2. ASSUME NEW t \in Terms, TermdAck(t)
        PROVE  queue' \in [Procs -> Seq(Cmds)] /\ QueuesBounded'
    <3>1. Head(hand[t]) \in Cmds
      BY <2>2, HeadInHand DEF TermdAck
    <3>2. /\ queue' \in [Procs -> Seq(Cmds)]
          /\ \A q \in Procs \ {GW} : queue'[q] = queue[q]
      BY <2>2, <3>1, SendTyped DEF TermdAck
    <3> QED BY <3>2 DEF QueuesBounded
  <2> QED BY <2>1, <2>2
<1>3. TypeOK'
  <2>1. hand' \in [Procs -> Seq(Cmds)]
    BY <1>1, EmptySeq
  <2>2. pc' \in [Procs -> {"down", "init", "loop", "handle", "forward", "ack", "accepted", "lost"}]
    BY <1>1
  <2> QED BY ONLY <1>1, <1>2, <2>1, <2>2, TypeOK DEF TypeOK, Servers, Procs
<1>4. HandFitsPc'
  BY <1>1 DEF HandFitsPc
<1>5. QuietTerminals'
  BY <1>1 DEF QuietTerminals
<1> QED BY <1>2, <1>3, <1>4, <1>5
LEMMA ReplyInv ==
  ASSUME PathInv, GatewayRespond \/ \E t \in Terms : TermdDeliver(t)
  PROVE  PathInv'
<1> USE PathAssumption DEF PathInv, TypeOK, Servers, Procs
<1>1. PICK p \in Servers :
        /\ pc[p] = "handle"
        /\ Reply(p, Head(hand[p]))
        /\ \/ hand' = [hand EXCEPT ![p] = <<>>] /\ pc' = [pc EXCEPT ![p] = "loop"]
           \/ UNCHANGED hand /\ pc' = [pc EXCEPT ![p] = "ack"]
        /\ UNCHANGED <<made, queue, table, pend, peer, log, shown, acked, kills, closes>>
  <2>1. CASE GatewayRespond
    BY <2>1 DEF GatewayRespond, Goto, user
  <2>2. ASSUME NEW t \in Terms, TermdDeliver(t)
        PROVE  /\ pc[t] = "handle"
               /\ Reply(t, Head(hand[t]))
               /\ UNCHANGED hand /\ pc' = [pc EXCEPT ![t] = "ack"]
               /\ UNCHANGED <<made, queue, table, pend, peer, log, shown, acked, kills, closes>>
    BY <2>2 DEF TermdDeliver, Goto, user
  <2> QED BY <2>1, <2>2
<1>2. Head(hand[p]) \in Cmds
  BY <1>1, HeadInHand
<1>3. /\ client' \in [Servers -> Seq(Sock)]
      /\ \A q \in Servers : client'[q] \in {client[q], <<>>}
      /\ down' \in [Servers -> Seq(Cmds)]
  BY <1>1, <1>2, ReplyTyped
<1>4. TypeOK'
  <2>1. hand' \in [Procs -> Seq(Cmds)]
    <3>1. <<>> \in Seq(Cmds)
      BY EmptySeq
    <3>2. hand' = hand \/ hand' = [hand EXCEPT ![p] = <<>>]
      BY <1>1
    <3> QED BY <3>1, <3>2
  <2>3. \A q \in Servers : Len(client'[q]) <= 1
    <3>1. (\A q \in Servers : Len(client[q]) <= 1) /\ Len(<<>>) = 0
      BY EmptySeq
    <3> QED BY ONLY <1>3, <3>1
  <2>2. pc' \in [Procs -> {"down", "init", "loop", "handle", "forward", "ack", "accepted", "lost"}]
    BY <1>1
  <2>4. UNCHANGED <<made, queue, table, pend, peer, log, shown, acked, kills, closes>>
    BY ONLY <1>1
  <2>5. client' \in [Servers -> Seq(Sock)] /\ down' \in [Servers -> Seq(Cmds)]
    BY ONLY <1>3
  <2>6. TypeOK /\ \A q \in Servers : Len(pend'[q]) <= Backlog + 1
    BY ONLY <2>4, PathInv DEF PathInv, TypeOK
  <2> QED BY ONLY <2>1, <2>2, <2>3, <2>4, <2>5, <2>6 DEF TypeOK
<1>5. HandFitsPc'
  BY <1>1 DEF HandFitsPc
<1>6. QuietTerminals'
  BY <1>1, <1>3 DEF QuietTerminals
<1>7. QueuesBounded'
  BY <1>1 DEF QueuesBounded
<1> QED BY <1>4, <1>5, <1>6, <1>7

LEMMA GatewayIdleInv ==
  ASSUME PathInv, GatewayIdle
  PROVE  PathInv'
<1> USE PathAssumption DEF PathInv, TypeOK, Servers, Procs
<1> DEFINE accepts == pend[GW] # <<>>
           now     == IF accepts THEN <<Head(pend[GW])>> ELSE client[GW]
           unread  == IF now = <<>> THEN <<>> ELSE now[1].up
           gone    == now # <<>> /\ unread = <<>> /\ ~now[1].alive
<1>1. /\ pc[GW] = "loop"
      /\ pend' = IF accepts THEN [pend EXCEPT ![GW] = Tail(@)] ELSE pend
      /\ UNCHANGED <<made, queue, table, peer, down, log, shown, acked, kills, closes>>
  BY DEF GatewayIdle, user
<1>2. \/ /\ unread # <<>>
         /\ \E n \in Chunk(unread) :
              /\ hand' = [hand EXCEPT ![GW] = SubSeq(unread, 1, n)]
              /\ client' = [client EXCEPT ![GW] =
                   <<[alive |-> now[1].alive,
                      up    |-> SubSeq(unread, n + 1, Len(unread))]>>]
         /\ pc' = [pc EXCEPT ![GW] = "forward"]
      \/ /\ unread = <<>>
         /\ client' = [client EXCEPT ![GW] = IF gone THEN <<>> ELSE now]
         /\ UNCHANGED <<hand, pc>>
  BY DEF GatewayIdle, Goto
<1>3. /\ pend[GW] \in Seq(Sock) /\ client[GW] \in Seq(Sock)
      /\ Len(client[GW]) \in Nat /\ Len(client[GW]) <= 1
      /\ Len(pend[GW]) \in Nat /\ Len(pend[GW]) <= Backlog + 1
  BY LenProperties
<1>4. accepts => /\ Head(pend[GW]) \in Sock
                 /\ Tail(pend[GW]) \in Seq(Sock) /\ Len(Tail(pend[GW])) = Len(pend[GW]) - 1
  BY <1>3, HeadTailProperties, LenProperties
<1>5. now \in Seq(Sock) /\ Len(now) <= 1 /\ (now # <<>> => now[1] \in Sock)
  <2>1. CASE accepts
    BY <1>4, <2>1
  <2>2. CASE ~accepts
    <3>1. client[GW] # <<>> => client[GW][1] \in Sock
      BY <1>3, EmptySeq, ElementOfSeq
    <3> QED BY <1>3, <2>2, <3>1
  <2> QED BY <2>1, <2>2
<1>6. unread \in Seq(Cmds)
  BY <1>5, EmptySeq DEF Sock
<1>7. pend' \in [Servers -> Seq(Sock)] /\ \A q \in Servers : Len(pend'[q]) <= Backlog + 1
  <2>1. CASE accepts
    <3>1. pend' = [pend EXCEPT ![GW] = Tail(pend[GW])]
      BY <1>1, <2>1
    <3>2. Tail(pend[GW]) \in Seq(Sock) /\ Len(Tail(pend[GW])) <= Backlog + 1
      BY <1>3, <1>4, <2>1
    <3>3. /\ pend \in [Servers -> Seq(Sock)]
          /\ \A q \in Servers : Len(pend[q]) <= Backlog + 1
      OBVIOUS
    <3>4. pend' \in [Servers -> Seq(Sock)]
      BY ONLY <3>1, <3>2, <3>3
    <3>5. \A q \in Servers : pend'[q] \in {pend[q], Tail(pend[GW])}
      BY ONLY <3>1, <3>3
    <3> QED BY ONLY <3>2, <3>3, <3>4, <3>5
  <2>2. CASE ~accepts
    BY <1>1, <2>2
  <2> QED BY <2>1, <2>2
<1>8. QuietTerminals'
  <2>1. \A t \in Terms : pend'[t] = pend[t] /\ client'[t] = client[t]
    <3>1. \A t \in Terms : t # GW /\ t \in Servers
      OBVIOUS
    <3>2. pend \in [Servers -> Seq(Sock)] /\ client \in [Servers -> Seq(Sock)]
      OBVIOUS
    <3>3. PICK c : client' = [client EXCEPT ![GW] = c]
      BY ONLY <1>2
    <3>4. UNCHANGED pend \/ pend' = [pend EXCEPT ![GW] = Tail(pend[GW])]
      BY ONLY <1>1
    <3> QED BY ONLY <3>1, <3>2, <3>3, <3>4
  <2> SUFFICES ASSUME NEW t \in Terms
               PROVE  /\ \A i \in DOMAIN pend'[t] : pend'[t][i].up = <<>>
                      /\ client'[t] # <<>> => client'[t][1].up = <<>>
    BY DEF QuietTerminals
  <2>2. pend'[t] = pend[t] /\ client'[t] = client[t]
    BY <2>1
  <2> QED BY ONLY <2>2, QuietTerminals DEF QuietTerminals
<1>9. QueuesBounded'
  BY <1>1 DEF QueuesBounded
<1> HIDE DEF unread, gone, now
<1>11. ASSUME unread # <<>>,
              NEW n \in Chunk(unread),
              hand' = [hand EXCEPT ![GW] = SubSeq(unread, 1, n)],
              client' = [client EXCEPT ![GW] =
                <<[alive |-> now[1].alive, up |-> SubSeq(unread, n + 1, Len(unread))]>>],
              pc' = [pc EXCEPT ![GW] = "forward"]
       PROVE  PathInv'
  <2>1. now # <<>>
    BY <1>11 DEF unread
  <2>2. n \in 1..Batch /\ n \in 1..Len(unread) /\ Len(unread) \in Nat
    BY <1>6, <1>11, LenProperties DEF Chunk
  <2>3. /\ SubSeq(unread, 1, n) \in Seq(Cmds) /\ Len(SubSeq(unread, 1, n)) = n
        /\ SubSeq(unread, n + 1, Len(unread)) \in Seq(Cmds)
    BY <1>6, <2>2, Pieces
  <2> DEFINE rest == [alive |-> now[1].alive, up |-> SubSeq(unread, n + 1, Len(unread))]
  <2>4. rest \in Sock
    BY <1>5, <2>1, <2>3 DEF Sock
  <2>6. client' = [client EXCEPT ![GW] = <<rest>>]
    BY <1>11
  <2> HIDE DEF rest, accepts
  <2>5. <<rest>> \in Seq(Sock) /\ Len(<<rest>>) = 1
    BY <2>4
  <2>7. client' \in [Servers -> Seq(Sock)] /\ \A q \in Servers : Len(client'[q]) <= 1
    BY <2>5, <2>6
  <2>8. /\ hand' \in [Procs -> Seq(Cmds)]
        /\ pc' \in [Procs -> {"down", "init", "loop", "handle", "forward", "ack", "accepted", "lost"}]
    BY <1>11, <2>3
  <2>9. TypeOK'
    BY <1>1, <1>7, <2>7, <2>8
  <2>10. HandFitsPc'
    BY <1>11, <2>2, <2>3 DEF HandFitsPc
  <2> QED BY <1>8, <1>9, <2>9, <2>10
<1>12. ASSUME client' = [client EXCEPT ![GW] = IF gone THEN <<>> ELSE now],
              UNCHANGED <<hand, pc>>
       PROVE  PathInv'
  <2>1. client' \in [Servers -> Seq(Sock)] /\ \A q \in Servers : Len(client'[q]) <= 1
    BY <1>5, <1>12, EmptySeq
  <2>2. TypeOK'
    <3> HIDE DEF accepts
    <3> QED BY <1>1, <1>7, <1>12, <2>1
  <2>3. HandFitsPc'
    BY <1>12 DEF HandFitsPc
  <2> QED BY <1>8, <1>9, <2>2, <2>3
<1> QED BY <1>2, <1>11, <1>12

LEMMA TermdIdleInv ==
  ASSUME PathInv, NEW t \in Terms, TermdIdle(t)
  PROVE  PathInv'
<1> USE PathAssumption DEF PathInv, TypeOK, Servers, Procs
<1>1. /\ pc[t] = "loop"
      /\ pc' = [pc EXCEPT ![t] = "accepted"] \/ pc' = [pc EXCEPT ![t] = "lost"]
      /\ UNCHANGED <<made, queue, hand, table, peer, down, log, shown, acked, kills, closes>>
  BY DEF TermdIdle, Goto, user
<1>2. HandFitsPc' /\ QueuesBounded'
  BY <1>1 DEF HandFitsPc, QueuesBounded
<1>3. pc' \in [Procs -> {"down", "init", "loop", "handle", "forward", "ack", "accepted", "lost"}]
  BY <1>1
<1>4. CASE pend[t] # <<>>
  <2> DEFINE first == Head(pend[t])
  <2>1. pend[t] \in Seq(Sock) /\ Len(pend[t]) \in Nat /\ Len(pend[t]) <= Backlog + 1
    BY LenProperties
  <2>2. /\ first \in Sock /\ first = pend[t][1]
        /\ Tail(pend[t]) \in Seq(Sock) /\ Len(Tail(pend[t])) = Len(pend[t]) - 1
        /\ DOMAIN Tail(pend[t]) = 1..Len(pend[t]) - 1
        /\ \A i \in 1..Len(pend[t]) - 1 : Tail(pend[t])[i] = pend[t][i + 1]
        /\ DOMAIN pend[t] = 1..Len(pend[t]) /\ Len(pend[t]) >= 1
    BY <1>4, <2>1, HeadTailProperties, LenProperties
  <2>3. client' = [client EXCEPT ![t] = <<first>>] /\ pend' = [pend EXCEPT ![t] = Tail(pend[t])]
    BY <1>4 DEF TermdIdle
  <2>4. \A i \in DOMAIN pend[t] : pend[t][i].up = <<>>
    BY DEF QuietTerminals
  <2>5. first.up = <<>>
    <3>1. 1 \in DOMAIN pend[t]
      BY <2>1, <2>2
    <3>2. pend[t][1].up = <<>>
      BY <2>4, <3>1
    <3> HIDE DEF first
    <3> QED BY <2>2, <3>2
  <2>6. \A i \in DOMAIN Tail(pend[t]) : Tail(pend[t])[i].up = <<>>
    <3> SUFFICES ASSUME NEW i \in 1..Len(pend[t]) - 1 PROVE Tail(pend[t])[i].up = <<>>
      BY <2>2
    <3>1. Tail(pend[t])[i] = pend[t][i + 1] /\ i + 1 \in DOMAIN pend[t]
      BY <2>1, <2>2
    <3> QED BY <2>4, <3>1
  <2> HIDE DEF first
  <2>7. <<first>> \in Seq(Sock) /\ Len(<<first>>) = 1 /\ <<first>>[1] = first
    BY <2>2
  <2>8. client' \in [Servers -> Seq(Sock)] /\ pend' \in [Servers -> Seq(Sock)]
    BY <2>2, <2>3, <2>7
  <2>9. \A q \in Servers : Len(client'[q]) <= 1 /\ Len(pend'[q]) <= Backlog + 1
    <3>1. /\ client \in [Servers -> Seq(Sock)] /\ pend \in [Servers -> Seq(Sock)]
          /\ \A q \in Servers : Len(client[q]) <= 1 /\ Len(pend[q]) <= Backlog + 1
      OBVIOUS
    <3>2. \A q \in Servers : Len(client'[q]) <= 1
      <4>1. \A q \in Servers : client'[q] \in {client[q], <<first>>}
        BY ONLY <2>3, <3>1
      <4>2. Len(<<first>>) <= 1
        BY ONLY <2>7
      <4> SUFFICES ASSUME NEW q \in Servers PROVE Len(client'[q]) <= 1
        OBVIOUS
      <4>3. Len(client[q]) <= 1 /\ (client'[q] = client[q] \/ client'[q] = <<first>>)
        BY ONLY <3>1, <4>1
      <4> QED BY ONLY <4>2, <4>3
    <3>3. Backlog \in Nat
      OBVIOUS
    <3>4. Len(Tail(pend[t])) <= Backlog + 1
      BY ONLY <2>1, <2>2, <3>3
    <3>5. \A q \in Servers : Len(pend'[q]) <= Backlog + 1
      <4>1. \A q \in Servers : pend'[q] \in {pend[q], Tail(pend[t])}
        BY ONLY <2>3, <3>1
      <4> QED BY ONLY <3>1, <3>4, <4>1
    <3> QED BY ONLY <3>2, <3>5
  <2>10. TypeOK'
    BY ONLY <1>1, <1>3, <2>8, <2>9, TypeOK DEF TypeOK, Servers, Procs
  <2>11. QuietTerminals'
    <3> SUFFICES ASSUME NEW u \in Terms
                 PROVE  /\ \A i \in DOMAIN pend'[u] : pend'[u][i].up = <<>>
                        /\ client'[u] # <<>> => client'[u][1].up = <<>>
      BY DEF QuietTerminals
    <3>1. CASE u = t
      <4>1. pend'[u] = Tail(pend[t]) /\ client'[u] = <<first>>
        BY <2>3, <3>1
      <4>2. client'[u][1].up = <<>>
        BY <2>5, <2>7, <4>1
      <4> QED BY <2>6, <4>1, <4>2
    <3>2. CASE u # t
      BY <2>3, <3>2 DEF QuietTerminals
    <3> QED BY <3>1, <3>2
  <2> QED BY <1>2, <2>10, <2>11
<1>5. CASE pend[t] = <<>>
  <2>1. client' = [client EXCEPT ![t] = <<>>] /\ UNCHANGED pend
    BY <1>5 DEF TermdIdle
  <2>2. client' \in [Servers -> Seq(Sock)] /\ \A q \in Servers : Len(client'[q]) <= 1
    <3>1. /\ client \in [Servers -> Seq(Sock)] /\ \A q \in Servers : Len(client[q]) <= 1
          /\ <<>> \in Seq(Sock) /\ Len(<<>>) = 0
      BY EmptySeq
    <3>2. client' \in [Servers -> Seq(Sock)]
      BY ONLY <2>1, <3>1
    <3>3. \A q \in Servers : client'[q] \in {client[q], <<>>}
      BY ONLY <2>1, <3>1
    <3> QED BY ONLY <3>1, <3>2, <3>3
  <2>3. TypeOK'
    BY ONLY <1>1, <1>3, <2>1, <2>2, TypeOK DEF TypeOK, Servers, Procs
  <2>4. QuietTerminals'
    BY <2>1 DEF QuietTerminals
  <2> QED BY <1>2, <2>3, <2>4
<1> QED BY <1>4, <1>5

LEMMA ReportInv ==
  ASSUME PathInv, NEW t \in Terms, ReportUp(t) \/ ReportDown(t)
  PROVE  PathInv'
<1> USE PathAssumption DEF PathInv, TypeOK, Servers, Procs
<1>1. /\ pc[t] \in {"accepted", "lost"}
      /\ pc' = [pc EXCEPT ![t] = "lost"] \/ pc' = [pc EXCEPT ![t] = "loop"]
      /\ client' = [client EXCEPT ![t] = <<>>] \/ UNCHANGED client
      /\ UNCHANGED <<made, queue, hand, pend, peer, down, log, shown, acked, kills, closes>>
  BY DEF ReportUp, ReportDown, Goto, net, user
<1>2. table' \in [Terms -> Rows]
  BY DEF ReportUp, ReportDown, Rows
<1>3. HandFitsPc' /\ QueuesBounded'
  BY <1>1 DEF HandFitsPc, QueuesBounded
<1>4. client' \in [Servers -> Seq(Sock)] /\ \A q \in Servers : client'[q] \in {client[q], <<>>}
  <2>1. client \in [Servers -> Seq(Sock)] /\ <<>> \in Seq(Sock) /\ t \in Servers
    BY EmptySeq
  <2>2. CASE client' = [client EXCEPT ![t] = <<>>]
    BY ONLY <2>1, <2>2
  <2>3. CASE UNCHANGED client
    BY ONLY <2>1, <2>3
  <2> QED BY <1>1, <2>2, <2>3
<1>5. TypeOK'
  <2>1. pc' \in [Procs -> {"down", "init", "loop", "handle", "forward", "ack", "accepted", "lost"}]
    BY <1>1
  <2>2. \A q \in Servers : Len(client'[q]) <= 1
    <3>1. (\A q \in Servers : Len(client[q]) <= 1) /\ Len(<<>>) = 0
      BY EmptySeq
    <3> QED BY ONLY <1>4, <3>1
  <2> QED BY ONLY <1>1, <1>2, <1>4, <2>1, <2>2, TypeOK DEF TypeOK, Servers, Procs
<1>6. QuietTerminals'
  BY <1>1, <1>4 DEF QuietTerminals
<1> QED BY <1>3, <1>5, <1>6
-----------------------------------------------------------------------------
LEMMA PathStep == PathInv /\ [Next]_vars => PathInv'
BY ConnectInv, SendLockInv, PeerCloseInv, QuietStepInv, KillInv, RecvInv, ForwardInv,
   PassOnInv, ReplyInv, GatewayIdleInv, TermdIdleInv, ReportInv, PathAssumption
DEF Next, Work, Gateway, Locator, Termd, Operator, Gui, Faults, Servers, Procs

(* Every variable keeps its type: a process that forwards or answers has a  *)
(* message in hand, and listen()'s backlog bounds the waiting connections.  *)
THEOREM PathTypes == Spec => []TypeOK
<1>1. Init => PathInv
  BY StartedInv DEF Init
<1>2. PathInv => TypeOK
  BY DEF PathInv
<1> QED BY <1>1, <1>2, PathStep, PTL DEF Spec

(* A termd about to report the loss of its client has none.                 *)
LostIsClosed == \A t \in Terms : pc[t] = "lost" => client[t] = <<>>

(* A step that changes a termd's connection or its row does it in on_idle().*)
LEMMA ReportedStep ==
  PathInv /\ ClientIsReported /\ LostIsClosed /\ [Next]_vars
    => ClientIsReported' /\ LostIsClosed'
<1> SUFFICES ASSUME PathInv, ClientIsReported, LostIsClosed, [Next]_vars, NEW t \in Terms
             PROVE  /\ client'[t] # <<>> /\ pc'[t] # "accepted" => table'[t] = "connected"
                    /\ pc'[t] = "lost" => client'[t] = <<>>
  BY DEF ClientIsReported, LostIsClosed
<1> DEFINE Goal == /\ client'[t] # <<>> /\ pc'[t] # "accepted" => table'[t] = "connected"
                   /\ pc'[t] = "lost" => client'[t] = <<>>
<1> USE PathAssumption DEF PathInv, TypeOK, Servers, Procs
<1>1. /\ client[t] # <<>> /\ pc[t] # "accepted" => table[t] = "connected"
      /\ pc[t] = "lost" => client[t] = <<>>
  BY DEF ClientIsReported, LostIsClosed
<1>2. ASSUME client'[t] # <<>> => client[t] # <<>>,
             pc'[t] # "accepted" => pc[t] # "accepted",
             pc'[t] = "lost" => pc[t] = "lost",
             table[t] = "connected" => table'[t] = "connected"
      PROVE  Goal
  BY <1>1, <1>2
<1>3. ASSUME NEW p \in Servers, Connect(p) \/ PeerNotice(p) PROVE Goal
  BY <1>2, <1>3 DEF Connect, PeerNotice
<1>4. ASSUME NEW p \in Servers, PeerClose(p) PROVE Goal
  <2>1. PICK orderly \in BOOLEAN : client' = [client EXCEPT ![p] = Hangup(@, orderly)]
    BY <1>4 DEF PeerClose
  <2>2. client[p] = <<>> => Hangup(client[p], orderly) = <<>>
    BY DEF Hangup
  <2>3. UNCHANGED <<table, pc>>
    BY <1>4 DEF PeerClose
  <2> QED BY <1>2, <2>1, <2>2, <2>3
<1>5. ASSUME NEW to, SendLock(to) PROVE Goal
  <2>1. UNCHANGED <<table, pc>> /\ client'[t] = client[t]
    BY <1>5 DEF SendLock
  <2> QED BY <1>2, <2>1
<1>6. ASSUME NEW p \in Procs, Ready(p) PROVE Goal
  <2>1. UNCHANGED client /\ pc[p] = "init" /\ pc' = [pc EXCEPT ![p] = "loop"]
    BY <1>6 DEF Ready, Goto, net
  <2>2. table[t] = "connected" => table'[t] = "connected"
    BY <1>6 DEF Ready
  <2> QED BY <1>2, <2>1, <2>2
<1>7. ASSUME NEW p \in Procs, Kill(p) \/ InitFail(p) PROVE Goal
  <2>1. SocketsClose(p) /\ UNCHANGED table /\ pc' = [pc EXCEPT ![p] = "down"]
    BY <1>7 DEF Kill, InitFail, Goto
  <2>2. CASE t = p
    BY <2>1, <2>2 DEF SocketsClose
  <2>3. CASE t # p
    BY <1>2, <2>1, <2>3 DEF SocketsClose
  <2> QED BY <2>2, <2>3
<1>8. ASSUME GatewayRespond \/ \E u \in Terms : TermdDeliver(u)
      PROVE  Goal
  <2>1. /\ UNCHANGED table
        /\ \E p \in Servers : /\ pc[p] = "handle" /\ Reply(p, Head(hand[p]))
                              /\ \E loc \in {"loop", "ack"} : pc' = [pc EXCEPT ![p] = loc]
    BY <1>8 DEF GatewayRespond, TermdDeliver, Goto
  <2>2. PICK p \in Servers : /\ pc[p] = "handle" /\ Reply(p, Head(hand[p]))
                              /\ \E loc \in {"loop", "ack"} : pc' = [pc EXCEPT ![p] = loc]
    BY <2>1
  <2>3. Head(hand[p]) \in Cmds
    BY <2>2, HeadInHand
  <2>4. client'[t] \in {client[t], <<>>}
    BY <2>2, <2>3, ReplyTyped
  <2> QED BY <1>2, <2>1, <2>2, <2>4
<1>9. CASE GatewayIdle
  <2>1. UNCHANGED table /\ pc'[t] = pc[t]
    BY <1>9 DEF GatewayIdle, Goto
  <2>2. client'[t] = client[t]
    BY <1>9 DEF GatewayIdle
  <2> QED BY <1>2, <2>1, <2>2
<1>10. ASSUME NEW u \in Terms, TermdIdle(u) PROVE Goal
  <2>1. CASE t = u
    BY <1>10, <2>1 DEF TermdIdle, Goto
  <2>2. CASE t # u
    <3>1. client'[t] = client[t] /\ pc'[t] = pc[t] /\ UNCHANGED table
      BY <1>10, <2>2 DEF TermdIdle, Goto
    <3> QED BY <1>2, <3>1
  <2> QED BY <2>1, <2>2
<1>11. ASSUME NEW u \in Terms, ReportUp(u) PROVE Goal
  <2>1. CASE t = u
    BY <1>11, <2>1 DEF ReportUp, Goto
  <2>2. CASE t # u
    <3>1. client'[t] = client[t] /\ pc'[t] = pc[t] /\ table'[t] = table[t]
      BY <1>11, <2>2 DEF ReportUp, Goto
    <3> QED BY <1>2, <3>1
  <2> QED BY <2>1, <2>2
<1>12. ASSUME NEW u \in Terms, ReportDown(u) PROVE Goal
  <2>1. UNCHANGED client /\ pc[u] = "lost"
    BY <1>12 DEF ReportDown, net
  <2>2. CASE t = u
    BY <1>1, <1>12, <2>1, <2>2 DEF ReportDown, Goto
  <2>3. CASE t # u
    <3>1. pc'[t] = pc[t] /\ table'[t] = table[t]
      BY <1>12, <2>3 DEF ReportDown, Goto
    <3> QED BY <1>2, <2>1, <3>1
  <2> QED BY <2>2, <2>3
<1>13. ASSUME NEW p \in Procs, NEW loc \in {"init", "loop", "handle", "forward"},
              Goto(p, loc), pc[p] # "accepted", UNCHANGED <<client, table>>
       PROVE  Goal
  BY <1>2, <1>13 DEF Goto
<1>14. ASSUME NEW p \in Procs, Start(p) \/ Recv(p) PROVE Goal
  BY <1>13, <1>14 DEF Start, Recv, net
<1>15. CASE GatewayForward
  <2>1. \E loc \in {"loop", "forward"} : Goto(GW, loc)
    BY <1>15 DEF GatewayForward
  <2> QED BY <1>13, <1>15, <2>1 DEF GatewayForward, net
<1>16. CASE LocatorRoute
  BY <1>13, <1>16 DEF LocatorRoute, net
<1>17. ASSUME NEW u \in Terms, TermdAck(u) PROVE Goal
  BY <1>13, <1>17 DEF TermdAck, net
<1>18. CASE UNCHANGED <<client, table, pc>>
  BY <1>2, <1>18
<1> QED
  BY <1>3, <1>4, <1>5, <1>6, <1>7, <1>8, <1>9, <1>10, <1>11, <1>12, <1>14, <1>15, <1>16, <1>17, <1>18
  DEF Next, Work, Gateway, Locator, Termd, Operator, Gui, Faults, vars, net, TerminalRead, MaintRead

(* A termd past the report of its connection is "connected" in the table,   *)
(* through kills and restarts that leave the row to the next process        *)
(* (termd/main.cpp:65-72).                                                  *)
THEOREM ReportedClients == Spec => []ClientIsReported
<1>1. Init => PathInv /\ ClientIsReported
  BY StartedInv DEF Init
<1>2. Init => LostIsClosed
  BY PathAssumption DEF Init, Started, LostIsClosed, Procs, Servers
<1> QED BY <1>1, <1>2, PathStep, ReportedStep, PTL DEF Spec
-----------------------------------------------------------------------------
(* The registry.  Only a termd's start, its idle turn and its death show.   *)

(* A process that goes from one place in its loop to another is registered  *)
(* before and after.                                                        *)
LEMMA StaysRegistered ==
  ASSUME NEW p \in Procs, NEW loc, Goto(p, loc),
         pc \in [Procs -> {"down", "init", "loop", "handle", "forward", "ack", "accepted", "lost"}],
         pc[p] \notin {"down", "init"} <=> loc \notin {"down", "init"}
  PROVE  Registered' = Registered
<1>1. \A t \in Terms : t \in Procs
  BY DEF Procs, Servers
<1>2. \A t \in Terms : pc'[t] \notin {"down", "init"} <=> pc[t] \notin {"down", "init"}
  BY <1>1 DEF Goto
<1> QED BY <1>2 DEF Registered

LEMMA ReportReports ==
  ASSUME PathInv, NEW t \in Terms, ReportUp(t) \/ ReportDown(t)
  PROVE  R!Report(t)
<1> USE PathAssumption DEF PathInv, TypeOK, Servers, Procs
<1>1. pc[t] \in {"accepted", "lost"}
  BY DEF ReportUp, ReportDown
<1>2. Registered' = Registered
  <2>1. \E loc \in {"loop", "lost"} : Goto(t, loc)
    BY DEF ReportUp, ReportDown
  <2>2. pc \in [Procs -> {"down", "init", "loop", "handle", "forward", "ack", "accepted", "lost"}]
    OBVIOUS
  <2> QED BY <1>1, <2>1, <2>2, StaysRegistered
<1>3. \E s \in R!States : table' = [table EXCEPT ![t] = s]
  BY DEF ReportUp, ReportDown, R!States
<1>4. t \in Registered
  BY <1>1 DEF Registered
<1> QED BY <1>2, <1>3, <1>4 DEF R!Report

LEMMA RegistryStep == PathInv /\ [Next]_vars => [R!Next]_(R!vars)
<1> SUFFICES ASSUME PathInv, [Next]_vars PROVE [R!Next]_(R!vars)
  OBVIOUS
<1> USE PathAssumption DEF PathInv, TypeOK, Servers, Procs
<1>1. pc \in [Procs -> {"down", "init", "loop", "handle", "forward", "ack", "accepted", "lost"}]
  OBVIOUS
<1>2. ASSUME UNCHANGED <<table, pc>> PROVE [R!Next]_(R!vars)
  BY <1>2 DEF R!vars, Registered
<1>3. ASSUME NEW p \in Procs, NEW loc, Goto(p, loc), UNCHANGED table,
             pc[p] \notin {"down", "init"} <=> loc \notin {"down", "init"}
      PROVE  [R!Next]_(R!vars)
  <2>1. Registered' = Registered
    BY <1>1, <1>3, StaysRegistered
  <2> QED BY <1>3, <2>1 DEF R!vars
<1>4. ASSUME NEW p \in Servers, Connect(p) \/ PeerClose(p) \/ PeerNotice(p)
      PROVE  [R!Next]_(R!vars)
  BY <1>2, <1>4 DEF Connect, PeerClose, PeerNotice
<1>5. ASSUME NEW to, SendLock(to) PROVE [R!Next]_(R!vars)
  BY <1>2, <1>5 DEF SendLock
<1>6. ASSUME NEW t \in Terms, TerminalRead(t) PROVE [R!Next]_(R!vars)
  BY <1>2, <1>6 DEF TerminalRead
<1>7. CASE MaintRead
  BY <1>2, <1>7 DEF MaintRead
<1>8. ASSUME NEW p \in Procs, Start(p) PROVE [R!Next]_(R!vars)
  BY <1>3, <1>8 DEF Start
<1>9. ASSUME NEW p \in Procs, Ready(p) PROVE [R!Next]_(R!vars)
  <2>1. CASE p \in Terms
    <3>1. p \notin Registered
      BY <1>9 DEF Ready, Registered
    <3>2. Registered' = Registered \cup {p}
      BY <1>9, <2>1 DEF Ready, Goto, Registered
    <3>3. R!Enter(p)
      BY <1>9, <2>1 DEF Ready, R!Enter
    <3>4. R!Join(p)
      BY <3>1, <3>2, <3>3 DEF R!Join
    <3> QED BY <2>1, <3>4 DEF R!Next
  <2>2. CASE p \notin Terms
    <3>1. table' = table
      BY <1>9, <2>2 DEF Ready
    <3>2. Registered' = Registered
      BY <1>9, <2>2 DEF Ready, Goto, Registered
    <3> QED BY <3>1, <3>2 DEF R!vars
  <2> QED BY <2>1, <2>2
<1>10. ASSUME NEW p \in Procs, Kill(p) \/ InitFail(p) PROVE [R!Next]_(R!vars)
  <2>1. UNCHANGED table
    BY <1>10 DEF Kill, InitFail
  <2>2. Registered' = Registered \ {p}
    BY <1>10 DEF Kill, InitFail, Goto, Registered
  <2>3. CASE p \in Terms
    BY <2>1, <2>2, <2>3 DEF R!Leave, R!Next
  <2>4. CASE p \notin Terms
    BY <2>1, <2>2, <2>4 DEF R!vars, Registered
  <2> QED BY <2>3, <2>4
<1>11. ASSUME NEW p \in Procs, Recv(p) PROVE [R!Next]_(R!vars)
  BY <1>3, <1>11 DEF Recv
<1>12. CASE GatewayIdle
  <2>1. GW \in Procs /\ pc[GW] = "loop" /\ UNCHANGED table
    BY <1>12 DEF GatewayIdle
  <2>2. Goto(GW, "forward") \/ UNCHANGED pc
    BY <1>12 DEF GatewayIdle
  <2> QED BY <1>2, <1>3, <2>1, <2>2
<1>13. CASE GatewayForward
  <2>1. GW \in Procs /\ \E loc \in {"loop", "forward"} : Goto(GW, loc)
    BY <1>13 DEF GatewayForward
  <2> QED BY <1>3, <1>13, <2>1 DEF GatewayForward
<1>14. CASE GatewayRespond
  BY <1>3, <1>14 DEF GatewayRespond
<1>15. CASE LocatorRoute
  BY <1>3, <1>15 DEF LocatorRoute
<1>16. ASSUME NEW t \in Terms, TermdDeliver(t) \/ TermdAck(t) PROVE [R!Next]_(R!vars)
  BY <1>3, <1>16 DEF TermdDeliver, TermdAck
<1>17. ASSUME NEW t \in Terms, TermdIdle(t) PROVE [R!Next]_(R!vars)
  <2>1. UNCHANGED table /\ pc[t] = "loop" /\ \E loc \in {"accepted", "lost"} : Goto(t, loc)
    BY <1>17 DEF TermdIdle
  <2> QED BY <1>3, <2>1
<1>18. ASSUME NEW t \in Terms, ReportUp(t) \/ ReportDown(t) PROVE [R!Next]_(R!vars)
  BY <1>18, ReportReports DEF R!Next
<1>19. CASE UNCHANGED vars
  BY <1>2, <1>19 DEF vars
<1> QED
  BY <1>4, <1>5, <1>6, <1>7, <1>8, <1>9, <1>10, <1>11, <1>12, <1>13, <1>14, <1>15, <1>16, <1>17,
     <1>18, <1>19
     DEF Next, Work, Gateway, Locator, Termd, Operator, Gui, Faults

(* CommandPath treats the terminal table as a registry (ImplementsRegistry):*)
(* for any number of terminals and faults, an entry changes only by the     *)
(* termd that serves the terminal, and restarts take it as it was left.     *)
THEOREM PathUsesRegistry == Spec => ImplementsRegistry
<1>1. Init => R!Init
  <2> SUFFICES ASSUME Init PROVE R!Init
    OBVIOUS
  <2>1. table = [t \in Terms |-> "unused"]
    BY DEF Init, Started
  <2>2. Registered = {}
    BY DEF Init, Started, Registered, Procs, Servers
  <2> QED BY <2>1, <2>2 DEF R!Init
<1>2. Init => PathInv
  BY StartedInv DEF Init
<1> QED BY <1>1, <1>2, PathStep, RegistryStep, PTL DEF Spec, ImplementsRegistry, R!Spec
-----------------------------------------------------------------------------
(* The messages the circle gateway -> locator -> t -> gateway holds.        *)
Load(t) ==
  Len(queue[LOC]) + Len(hand[LOC]) + Len(queue[t]) + Len(hand[t])
    + Len(queue[GW]) + Len(hand[GW])

(* The gateway reads its socket only with its own queue empty, and while it *)
(* forwards what it read nothing new enters a circle of one terminal.       *)
LoadBounded(t) == pc[GW] = "forward" => Load(t) <= 2 * Cap + 2 + Batch

Fits ==
  /\ \A p \in Procs : Len(queue[p]) \in Nat /\ Len(hand[p]) \in Nat
  /\ \A p \in Procs : p # GW => Len(hand[p]) <= 1
  /\ pc[GW] = "forward" => Len(hand[GW]) <= Batch
  /\ \A p \in Terms \cup {LOC} : Len(queue[p]) <= Cap

LEMMA Lengths == PathInv => Fits
<1> SUFFICES ASSUME PathInv PROVE Fits
  OBVIOUS
<1>1. \A p \in Procs : queue[p] \in Seq(Cmds) /\ hand[p] \in Seq(Cmds)
  BY DEF PathInv, TypeOK
<1>2. \A p \in Procs : Len(queue[p]) \in Nat /\ Len(hand[p]) \in Nat
  BY <1>1, LenProperties
<1>3. ASSUME NEW p \in Procs, p # GW PROVE Len(hand[p]) <= 1
  <2> DEFINE k == Len(hand[p])
  <2>1. Len(hand[p]) = 1 \/ hand[p] = <<>>
    BY <1>3 DEF PathInv, TypeOK, HandFitsPc
  <2>2. k = 1 \/ k = 0
    BY <2>1
  <2> HIDE DEF k
  <2>3. k <= 1
    BY <2>2
  <2> QED BY <2>3 DEF k
<1>4. pc[GW] = "forward" => Len(hand[GW]) <= Batch
  BY PathAssumption DEF PathInv, HandFitsPc, Procs, Servers
<1> QED BY <1>2, <1>3, <1>4 DEF PathInv, QueuesBounded, Fits

LEMMA LoadStep ==
  ASSUME PathInv, [Next]_vars, NEW t, Terms = {t}, LoadBounded(t)
  PROVE  LoadBounded(t)'
<1> SUFFICES ASSUME pc'[GW] = "forward" PROVE Load(t)' <= 2 * Cap + 2 + Batch
  BY DEF LoadBounded
<1>1. PathInv'
  BY PathStep
<1> DEFINE ql == Len(queue[LOC])
           hl == Len(hand[LOC])
           qt == Len(queue[t])
           ht == Len(hand[t])
           qg == Len(queue[GW])
           hg == Len(hand[GW])
<1>2. GW # LOC /\ t # GW /\ t # LOC /\ {GW, LOC, t} \subseteq Procs /\ Procs = {GW, LOC, t}
  BY PathAssumption DEF Procs, Servers
<1>3. /\ {ql, hl, qt, ht, qg, hg} \subseteq Nat
      /\ ql <= Cap /\ qt <= Cap /\ hl <= 1 /\ ht <= 1 /\ Cap \in Nat /\ Batch \in Nat
  BY <1>2, Lengths, PathAssumption DEF Fits
<1>4. /\ {ql', hl', qt', ht', qg', hg'} \subseteq Nat
      /\ ql' <= Cap /\ qt' <= Cap /\ hl' <= 1 /\ ht' <= 1 /\ hg' <= Batch
  <2>1. Fits'
    BY <1>1, Lengths, PTL
  <2> QED BY <1>2, <2>1 DEF Fits
<1>5. Load(t)' = ql' + hl' + qt' + ht' + qg' + hg'
  BY DEF Load
<1>6. pc[GW] = "forward" => ql + hl + qt + ht + qg + hg <= 2 * Cap + 2 + Batch
  BY DEF Load, LoadBounded
<1>7. /\ queue \in [Procs -> Seq(Cmds)] /\ hand \in [Procs -> Seq(Cmds)]
      /\ pc \in [Procs -> {"down", "init", "loop", "handle", "forward", "ack", "accepted", "lost"}]
  BY DEF PathInv, TypeOK
<1> HIDE DEF ql, hl, qt, ht, qg, hg
<1>8. ASSUME pc[GW] = "forward",
             ql' + hl' + qt' + ht' + qg' + hg' <= ql + hl + qt + ht + qg + hg
      PROVE  Load(t)' <= 2 * Cap + 2 + Batch
  BY <1>3, <1>4, <1>5, <1>6, <1>8
<1>9. CASE GatewayIdle
  <2>1. qg' = 0
    BY <1>9 DEF GatewayIdle, qg
  <2> QED BY <1>3, <1>4, <1>5, <2>1
<1>10. CASE UNCHANGED <<queue, hand>> /\ pc[GW] = "forward"
  BY <1>3, <1>8, <1>10 DEF ql, hl, qt, ht, qg, hg
<1>11. CASE TermdIdle(t) \/ ReportUp(t) \/ ReportDown(t)
  <2>1. UNCHANGED <<queue, hand>> /\ pc[GW] = "forward"
    BY <1>2, <1>7, <1>11 DEF TermdIdle, ReportUp, ReportDown, Goto
  <2> QED BY <1>10, <2>1
<1>12. CASE GatewayForward
  <2>1. pc[GW] = "forward" /\ SendTo(LOC, Head(hand[GW]), Cap)
        /\ hand' = [hand EXCEPT ![GW] = Tail(@)]
    BY <1>12 DEF GatewayForward
  <2>2. Head(hand[GW]) \in Cmds /\ Len(Tail(hand[GW])) = Len(hand[GW]) - 1
    BY <1>2, <2>1, HeadInHand
  <2>3. hg' = hg - 1 /\ hl' = hl /\ ht' = ht
    BY <1>2, <1>7, <2>1, <2>2 DEF hg, hl, ht
  <2>4. qg' = qg /\ qt' = qt /\ (ql' = ql \/ ql' = ql + 1)
    BY <1>2, <1>7, <2>1, <2>2, SendTyped DEF qg, qt, ql
  <2>5. ql' + hl' + qt' + ht' + qg' + hg' <= ql + hl + qt + ht + qg + hg
    BY <1>3, <2>3, <2>4
  <2> QED BY <1>8, <2>1, <2>5
<1>13. CASE LocatorRoute
  <2>1. /\ pc[LOC] = "handle" /\ pc'[GW] = pc[GW]
        /\ UNCHANGED queue \/ SendTo(t, Head(hand[LOC]), Cap) \/ SendTo(LOC, Head(hand[LOC]), Cap)
        /\ hand' = [hand EXCEPT ![LOC] = <<>>]
    <3> DEFINE to == Resolve(log[Head(hand[LOC])])
    <3>1. to \subseteq {t, LOC}
      BY DEF Resolve
    <3>2. UNCHANGED queue \/ \E p \in {t, LOC} : SendTo(p, Head(hand[LOC]), Cap)
      BY <1>13, <3>1 DEF LocatorRoute
    <3> QED BY <1>2, <1>7, <1>13, <3>2 DEF LocatorRoute, Goto
  <2>2. Head(hand[LOC]) \in Cmds /\ hl >= 1
    BY <1>2, <2>1, HeadInHand DEF hl
  <2>3. hl' = 0 /\ hg' = hg /\ ht' = ht
    BY <1>2, <1>7, <2>1 DEF hg, hl, ht
  <2>4. /\ qg' = qg
        /\ \/ ql' = ql /\ qt' = qt
           \/ ql' = ql /\ qt' = qt + 1
           \/ qt' = qt /\ ql' = ql + 1
    <3>1. CASE UNCHANGED queue
      BY <3>1 DEF qg, qt, ql
    <3>2. ASSUME NEW p \in {t, LOC}, SendTo(p, Head(hand[LOC]), Cap)
          PROVE  /\ \A q \in Procs \ {p} : queue'[q] = queue[q]
                 /\ queue'[p] = queue[p] \/ Len(queue'[p]) = Len(queue[p]) + 1
      BY <1>2, <1>7, <2>2, <3>2, SendTyped
    <3>3. CASE SendTo(t, Head(hand[LOC]), Cap)
      BY <1>2, <3>2, <3>3 DEF qg, qt, ql
    <3>4. CASE SendTo(LOC, Head(hand[LOC]), Cap)
      BY <1>2, <3>2, <3>4 DEF qg, qt, ql
    <3> QED BY <2>1, <3>1, <3>3, <3>4
  <2>5. ql' + hl' + qt' + ht' + qg' + hg' <= ql + hl + qt + ht + qg + hg
    BY <1>3, <2>2, <2>3, <2>4
  <2> QED BY <1>8, <2>1, <2>5
<1>14. CASE TermdAck(t)
  <2>1. /\ pc[t] = "ack" /\ pc'[GW] = pc[GW]
        /\ SendTo(GW, Head(hand[t]), AckCap)
        /\ hand' = [hand EXCEPT ![t] = <<>>]
    BY <1>2, <1>7, <1>14 DEF TermdAck, Goto
  <2>2. Head(hand[t]) \in Cmds /\ ht >= 1
    BY <1>2, <2>1, HeadInHand DEF ht
  <2>3. ht' = 0 /\ hg' = hg /\ hl' = hl
    BY <1>2, <1>7, <2>1 DEF hg, hl, ht
  <2>4. ql' = ql /\ qt' = qt /\ (qg' = qg \/ qg' = qg + 1)
    BY <1>2, <1>7, <2>1, <2>2, SendTyped DEF qg, qt, ql
  <2>5. ql' + hl' + qt' + ht' + qg' + hg' <= ql + hl + qt + ht + qg + hg
    BY <1>3, <2>2, <2>3, <2>4
  <2> QED BY <1>8, <2>1, <2>5
<1>15. ASSUME NEW p \in {LOC, t}, Recv(p) PROVE Load(t)' <= 2 * Cap + 2 + Batch
  <2>1. /\ pc[p] = "loop" /\ pc'[GW] = pc[GW] /\ queue[p] # <<>>
        /\ queue' = [queue EXCEPT ![p] = Tail(@)]
        /\ hand' = [hand EXCEPT ![p] = <<Head(queue[p])>>]
    BY <1>2, <1>7, <1>15 DEF Recv, Goto
  <2>2. Len(Tail(queue[p])) = Len(queue[p]) - 1 /\ Len(hand[p]) = 0
    <3>1. hand[p] = <<>>
      BY <1>2, <2>1 DEF PathInv, HandFitsPc
    <3>2. queue[p] \in Seq(Cmds) /\ queue[p] # <<>>
      BY <1>2, <1>7, <2>1
    <3> QED BY <3>1, <3>2, HeadTailProperties
  <2>3. qg' = qg /\ hg' = hg
    BY <1>2, <1>7, <2>1 DEF qg, hg
  <2>4. CASE p = LOC
    <3>1. ql' = ql - 1 /\ hl = 0 /\ hl' <= 1 /\ qt' = qt /\ ht' = ht
      BY <1>2, <1>4, <1>7, <2>1, <2>2, <2>4 DEF ql, hl, qt, ht
    <3>2. ql' + hl' + qt' + ht' + qg' + hg' <= ql + hl + qt + ht + qg + hg
      BY <1>3, <1>4, <2>3, <3>1
    <3> QED BY <1>8, <2>1, <3>2
  <2>5. CASE p = t
    <3>1. qt' = qt - 1 /\ ht = 0 /\ ht' <= 1 /\ ql' = ql /\ hl' = hl
      BY <1>2, <1>4, <1>7, <2>1, <2>2, <2>5 DEF ql, hl, qt, ht
    <3>2. ql' + hl' + qt' + ht' + qg' + hg' <= ql + hl + qt + ht + qg + hg
      BY <1>3, <1>4, <2>3, <3>1
    <3> QED BY <1>8, <2>1, <3>2
  <2> QED BY <2>4, <2>5
<1>16. ASSUME NEW p \in Procs, Kill(p) PROVE Load(t)' <= 2 * Cap + 2 + Batch
  <2>1. /\ pc' = [pc EXCEPT ![p] = "down"]
        /\ hand' = [hand EXCEPT ![p] = <<>>]
        /\ UNCHANGED queue
    BY <1>16 DEF Kill, Goto
  <2>2. p # GW /\ pc[GW] = "forward"
    BY <1>2, <1>7, <2>1
  <2>3. /\ ql' = ql /\ qt' = qt /\ qg' = qg /\ hg' = hg
        /\ (hl' = hl \/ hl' = 0) /\ (ht' = ht \/ ht' = 0)
    BY <1>2, <1>7, <2>1, <2>2 DEF ql, hl, qt, ht, qg, hg
  <2>4. ql' + hl' + qt' + ht' + qg' + hg' <= ql + hl + qt + ht + qg + hg
    BY <1>3, <2>3
  <2> QED BY <1>8, <2>2, <2>4
<1>24. ASSUME NEW p \in Procs, InitFail(p) PROVE Load(t)' <= 2 * Cap + 2 + Batch
  <2>1. /\ pc' = [pc EXCEPT ![p] = "down"]
        /\ queue' = [queue EXCEPT ![p] = <<>>]
        /\ UNCHANGED hand
    BY <1>24 DEF InitFail, Goto
  <2>2. p # GW /\ pc[GW] = "forward"
    BY <1>2, <1>7, <2>1
  <2>3. /\ hl' = hl /\ ht' = ht /\ hg' = hg /\ qg' = qg
        /\ (ql' = ql \/ ql' = 0) /\ (qt' = qt \/ qt' = 0)
    BY <1>2, <1>7, <2>1, <2>2 DEF ql, hl, qt, ht, qg, hg
  <2>4. ql' + hl' + qt' + ht' + qg' + hg' <= ql + hl + qt + ht + qg + hg
    BY <1>3, <2>3
  <2> QED BY <1>8, <2>2, <2>4
<1>17. ASSUME NEW p \in Procs, Start(p) \/ Ready(p)
       PROVE  Load(t)' <= 2 * Cap + 2 + Batch
  <2>1. UNCHANGED <<queue, hand>> /\ pc[GW] = "forward"
    BY <1>2, <1>7, <1>17 DEF Start, Ready, Goto
  <2> QED BY <1>10, <2>1
<1>18. CASE TermdDeliver(t)
  <2>1. UNCHANGED <<queue, hand>> /\ pc[GW] = "forward"
    BY <1>2, <1>7, <1>18 DEF TermdDeliver, Goto
  <2> QED BY <1>10, <2>1
<1>19. CASE Recv(GW) \/ GatewayRespond
  <2>1. pc'[GW] # "forward"
    BY <1>2, <1>7, <1>19 DEF Recv, GatewayRespond, Goto
  <2> QED BY <2>1
<1>20. CASE UNCHANGED <<queue, hand, pc>>
  BY <1>10, <1>20
<1>21. CASE Work
  BY <1>2, <1>9, <1>11, <1>12, <1>13, <1>14, <1>15, <1>18, <1>19, <1>21
  DEF Work, Gateway, Locator, Termd
<1>22. CASE Operator \/ Gui \/ UNCHANGED vars
  <2>1. UNCHANGED <<queue, hand, pc>>
    BY <1>22
    DEF Operator, SendLock, Gui, MaintRead, TerminalRead, Connect, PeerClose, PeerNotice, vars
  <2> QED BY <1>20, <2>1
<1>23. CASE Faults
  BY <1>16, <1>17, <1>23, <1>24 DEF Faults
<1> QED BY <1>21, <1>22, <1>23 DEF Next

(* With one terminal whose acknowledgements the gateway's queue can hold as  *)
(* many of as it reads commands at once, the three processes never wait for *)
(* one another in a circle, whatever is killed, restarted or disconnected:  *)
(* the circle would hold more messages than it can have taken in.           *)
THEOREM OneTerminalNoCircle ==
  ASSUME NEW t, Terms = {t}, Batch <= AckCap
  PROVE  /\ Spec => []NoCircularWait
         /\ SpecSupervised => []NoCircularWait
<1>1. ASSUME NEW up \in SUBSET Procs, NEW on \in SUBSET Servers, Started(up, on)
      PROVE  PathInv /\ LoadBounded(t)
  <2>1. pc[GW] # "forward"
    BY <1>1 DEF Started, Procs, Servers
  <2> QED BY <1>1, <2>1, StartedInv DEF LoadBounded
<1>2. PathInv /\ LoadBounded(t) /\ [Next]_vars => PathInv' /\ LoadBounded(t)'
  BY PathStep, LoadStep
<1>3. PathInv /\ LoadBounded(t) => NoCircularWait
  <2> SUFFICES ASSUME PathInv, LoadBounded(t),
                      pc[GW] = "forward", Len(queue[LOC]) = Cap,
                      pc[LOC] = "handle", Len(queue[t]) = Cap,
                      pc[t] = "ack", Len(queue[GW]) = AckCap
               PROVE  FALSE
    BY DEF NoCircularWait, CircularWait
  <2>1. {GW, LOC, t} \subseteq Procs
    BY DEF Procs, Servers
  <2>2. Len(hand[LOC]) = 1 /\ Len(hand[t]) = 1
    BY <2>1 DEF PathInv, HandFitsPc
  <2>3. Len(hand[GW]) \in Nat /\ Len(hand[GW]) >= 1
    BY <2>1, HeadInHand
  <2>4. Load(t) <= 2 * Cap + 2 + Batch
    BY DEF LoadBounded
  <2> DEFINE hg == Len(hand[GW])
  <2>5. Cap + 1 + Cap + 1 + AckCap + hg <= 2 * Cap + 2 + Batch
    BY <2>2, <2>4 DEF Load
  <2> HIDE DEF hg
  <2>6. hg \in Nat /\ hg >= 1 /\ Cap \in Nat /\ AckCap \in Nat /\ Batch \in Nat
    BY <2>3, PathAssumption DEF hg
  <2> QED BY <2>5, <2>6
<1>4. Init \/ Started(Procs, Servers) => PathInv /\ LoadBounded(t)
  BY <1>1 DEF Init
<1>5. Spec => []NoCircularWait
  BY <1>2, <1>3, <1>4, PTL DEF Spec
<1>6. SpecSupervised => []NoCircularWait
  <2>1. SpecUp => []NoCircularWait
    BY <1>2, <1>3, <1>4, PTL DEF SpecUp
  <2>2. SpecSupervised => SpecUp
    BY PTL DEF SpecSupervised
  <2> QED BY <2>1, <2>2, PTL
<1> QED BY <1>5, <1>6
=============================================================================
