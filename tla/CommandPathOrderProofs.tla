------------------------ MODULE CommandPathOrderProofs ------------------------
(***************************************************************************)
(* Nothing on CommandPath reorders, repeats, invents or misdirects a       *)
(* command: proofs for any number of terminals, any queue and socket       *)
(* sizes, and any number of kills, restarts and lost connections.          *)
(***************************************************************************)
EXTENDS CommandPathProofs, CommandPathDelivery

-----------------------------------------------------------------------------
(* The inductive invariant.  Commands are numbered as they are sent, so     *)
(* order on the path is order of numbers: whatever is nearer to the         *)
(* terminals is older than all that is further away.                        *)

Below(A, B) == \A a \in A, b \in B : a < b

(* Of a server's connections at most the newest is alive, and it is alive   *)
(* only while the peer has it.                                              *)
NewestAlive ==
  /\ \A i \in DOMAIN client[GW] : client[GW][i].alive => peer[GW] = "on" /\ pend[GW] = <<>>
  /\ \A i \in DOMAIN pend[GW] :
       pend[GW][i].alive => peer[GW] = "on" /\ \A j \in DOMAIN pend[GW] : j <= i

(* An older connection holds older commands.                                *)
SocketsInOrder ==
  /\ \A i \in DOMAIN client[GW] : Increasing(client[GW][i].up)
  /\ \A i \in DOMAIN pend[GW] : Increasing(pend[GW][i].up)
  /\ Below(Unread(client[GW]), Unread(pend[GW]))
  /\ \A i, j \in DOMAIN pend[GW] :
       i < j => Below(Held(pend[GW][i].up), Held(pend[GW][j].up))

(* The strays apart, which come back to the end of the locator's queue.     *)
IncreasingBut(s, X) ==
  \A i, j \in DOMAIN s : i < j /\ s[i] \notin X /\ s[j] \notin X => s[i] < s[j]

QueuesInOrder ==
  /\ \A t \in Terms : Increasing(shown[t]) /\ Increasing(down[t]) /\ Increasing(queue[t])
  /\ IncreasingBut(queue[LOC], Stray)
  /\ pc[GW] = "forward" => Increasing(hand[GW])

StagesInOrder ==
  /\ Below(Forwarding, InSockets)
  /\ Below(Queued, AtGateway)
  /\ Below(Routing, ToLocator)
  /\ \A t \in Terms :
       /\ Below(Held(queue[t]), Upstream)
       /\ Below(Held(hand[t]), ToTermd(t))
       /\ Below(Held(down[t]), AtTermd(t))
       /\ Below(Held(shown[t]), Coming(t))

(* What has passed the locator is on its way to, or has been shown on, the  *)
(* terminal it names, and everything anywhere has been sent.                *)
Addressed ==
  /\ Upstream \subseteq DOMAIN log
  /\ \A t \in Terms :
       \A n \in Held(queue[t]) \cup Held(hand[t]) \cup Held(down[t]) \cup Held(shown[t]) :
         n \in DOMAIN log /\ log[n] = t

Ordered == QueuesInOrder /\ StagesInOrder /\ Addressed

OrderInv == PathInv /\ NewestAlive /\ SocketsInOrder /\ Ordered

-----------------------------------------------------------------------------
(* Sequences in order.                                                      *)

LEMMA HeldEmpty == Held(<<>>) = {}
BY DEF Held

LEMMA HeldOne ==
  ASSUME NEW n
  PROVE  Held(<<n>>) = {n}
BY DEF Held

LEMMA HeldType ==
  ASSUME NEW S, NEW s \in Seq(S)
  PROVE  Held(s) \subseteq S
BY ElementOfSeq, LenProperties DEF Held

LEMMA HeldAppend ==
  ASSUME NEW S, NEW s \in Seq(S), NEW n \in S
  PROVE  Held(Append(s, n)) = Held(s) \cup {n}
<1> DEFINE a == Append(s, n)
<1>1. /\ Len(s) \in Nat /\ DOMAIN s = 1..Len(s)
      /\ DOMAIN a = 1..Len(s) + 1
      /\ \A i \in 1..Len(s) : a[i] = s[i]
      /\ a[Len(s) + 1] = n
  BY LenProperties, AppendProperties
<1> HIDE DEF a
<1>2. ASSUME NEW x \in Held(a) PROVE x \in Held(s) \cup {n}
  <2>1. PICK i \in 1..Len(s) + 1 : x = a[i]
    BY <1>1 DEF Held
  <2>2. i \in 1..Len(s) \/ i = Len(s) + 1
    BY <1>1, LastIndex
  <2> QED BY <1>1, <2>1, <2>2 DEF Held
<1>3. ASSUME NEW x \in Held(s) \cup {n} PROVE x \in Held(a)
  <2>1. CASE x = n
    <3>1. Len(s) + 1 \in 1..Len(s) + 1
      BY <1>1
    <3> QED BY <1>1, <2>1, <3>1 DEF Held
  <2>2. CASE x \in Held(s)
    <3>1. PICK i \in 1..Len(s) : x = s[i]
      BY <1>1, <2>2 DEF Held
    <3>2. i \in 1..Len(s) + 1
      BY <1>1
    <3> QED BY <1>1, <3>1, <3>2 DEF Held
  <2> QED BY <2>1, <2>2
<1> QED BY <1>2, <1>3 DEF a

LEMMA OrderAppend ==
  ASSUME NEW s \in Seq(Cmds), NEW n \in Cmds, Increasing(s), Below(Held(s), {n})
  PROVE  Increasing(Append(s, n))
<1> DEFINE a == Append(s, n)
<1>1. /\ Len(s) \in Nat /\ DOMAIN s = 1..Len(s)
      /\ DOMAIN a = 1..Len(s) + 1
      /\ \A i \in 1..Len(s) : a[i] = s[i]
      /\ a[Len(s) + 1] = n
  BY LenProperties, AppendProperties
<1> HIDE DEF a
<1> SUFFICES ASSUME NEW i \in 1..Len(s) + 1, NEW j \in 1..Len(s) + 1, i < j
             PROVE  a[i] < a[j]
  BY <1>1 DEF Increasing, a
<1>2. i \in 1..Len(s)
  BY <1>1
<1>3. CASE j \in 1..Len(s)
  BY <1>1, <1>2, <1>3 DEF Increasing
<1>4. CASE j = Len(s) + 1
  BY <1>1, <1>2, <1>4 DEF Below, Held
<1> QED BY <1>1, <1>3, <1>4, LastIndex

LEMMA ButAppend ==
  ASSUME NEW s \in Seq(Cmds), NEW n \in Cmds, NEW X, IncreasingBut(s, X),
         n \in X \/ Below(Held(s) \ X, {n})
  PROVE  IncreasingBut(Append(s, n), X)
<1> DEFINE a == Append(s, n)
<1>1. /\ Len(s) \in Nat /\ DOMAIN s = 1..Len(s)
      /\ DOMAIN a = 1..Len(s) + 1
      /\ \A i \in 1..Len(s) : a[i] = s[i]
      /\ a[Len(s) + 1] = n
  BY LenProperties, AppendProperties
<1> HIDE DEF a
<1> SUFFICES ASSUME NEW i \in 1..Len(s) + 1, NEW j \in 1..Len(s) + 1, i < j,
                    a[i] \notin X, a[j] \notin X
             PROVE  a[i] < a[j]
  BY <1>1 DEF IncreasingBut, a
<1>2. i \in 1..Len(s)
  BY <1>1
<1>3. CASE j \in 1..Len(s)
  BY <1>1, <1>2, <1>3 DEF IncreasingBut
<1>4. CASE j = Len(s) + 1
  BY <1>1, <1>2, <1>4 DEF Below, Held
<1> QED BY <1>1, <1>3, <1>4, LastIndex

(* Taking the head off.                                                     *)
LEMMA OrderTail ==
  ASSUME NEW s \in Seq(Cmds), s # <<>>
  PROVE  /\ Held(Tail(s)) \subseteq Held(s)
         /\ Head(s) \in Held(s)
         /\ Held(s) = {Head(s)} \cup Held(Tail(s))
         /\ Increasing(s) => Increasing(Tail(s)) /\ Below({Head(s)}, Held(Tail(s)))
<1> DEFINE u == Tail(s)
<1>1. /\ Len(s) \in Nat /\ Len(s) >= 1 /\ DOMAIN s = 1..Len(s)
      /\ DOMAIN u = 1..Len(s) - 1
      /\ \A i \in 1..Len(s) - 1 : u[i] = s[i + 1]
      /\ Head(s) = s[1]
  BY LenProperties, HeadTailProperties, EmptySeq
<1> HIDE DEF u
<1>2. Held(u) \subseteq Held(s) /\ Head(s) \in Held(s)
  <2>1. \A i \in 1..Len(s) - 1 : i + 1 \in 1..Len(s)
    BY <1>1
  <2>2. 1 \in 1..Len(s)
    BY <1>1
  <2> QED BY <1>1, <2>1, <2>2 DEF Held
<1>3. ASSUME NEW x \in Held(s) PROVE x \in {Head(s)} \cup Held(u)
  <2>1. PICK i \in 1..Len(s) : x = s[i]
    BY <1>1 DEF Held
  <2>2. CASE i = 1
    BY <1>1, <2>1, <2>2
  <2>3. CASE i # 1
    <3>1. i - 1 \in 1..Len(s) - 1 /\ (i - 1) + 1 = i
      BY <1>1, <2>3
    <3> QED BY <1>1, <2>1, <3>1 DEF Held
  <2> QED BY <2>2, <2>3
<1>4. ASSUME Increasing(s) PROVE Increasing(u) /\ Below({Head(s)}, Held(u))
  <2>1. ASSUME NEW i \in 1..Len(s) - 1, NEW j \in 1..Len(s) - 1, i < j
        PROVE  u[i] < u[j]
    <3>1. i + 1 \in 1..Len(s) /\ j + 1 \in 1..Len(s) /\ i + 1 < j + 1
      BY <1>1, <2>1
    <3> QED BY <1>1, <1>4, <3>1 DEF Increasing
  <2>2. ASSUME NEW j \in 1..Len(s) - 1 PROVE Head(s) < u[j]
    <3>1. 1 \in 1..Len(s) /\ j + 1 \in 1..Len(s) /\ 1 < j + 1
      BY <1>1
    <3> QED BY <1>1, <1>4, <3>1 DEF Increasing
  <2> QED BY <1>1, <2>1, <2>2 DEF Increasing, Below, Held
<1> QED BY <1>2, <1>3, <1>4 DEF u

LEMMA ButTail ==
  ASSUME NEW s \in Seq(Cmds), s # <<>>, NEW X, IncreasingBut(s, X)
  PROVE  /\ IncreasingBut(Tail(s), X)
         /\ Head(s) \notin X => Below({Head(s)}, Held(Tail(s)) \ X)
<1> DEFINE u == Tail(s)
<1>1. /\ Len(s) \in Nat /\ Len(s) >= 1 /\ DOMAIN s = 1..Len(s)
      /\ DOMAIN u = 1..Len(s) - 1
      /\ \A i \in 1..Len(s) - 1 : u[i] = s[i + 1]
      /\ Head(s) = s[1]
  BY LenProperties, HeadTailProperties, EmptySeq
<1> HIDE DEF u
<1>2. ASSUME NEW i \in 1..Len(s) - 1, NEW j \in 1..Len(s) - 1, i < j,
             u[i] \notin X, u[j] \notin X
      PROVE  u[i] < u[j]
  <2>1. i + 1 \in 1..Len(s) /\ j + 1 \in 1..Len(s) /\ i + 1 < j + 1
    BY <1>1, <1>2
  <2> QED BY <1>1, <1>2, <2>1 DEF IncreasingBut
<1>3. ASSUME Head(s) \notin X, NEW j \in 1..Len(s) - 1, u[j] \notin X PROVE Head(s) < u[j]
  <2>1. 1 \in 1..Len(s) /\ j + 1 \in 1..Len(s) /\ 1 < j + 1
    BY <1>1
  <2> QED BY <1>1, <1>3, <2>1 DEF IncreasingBut
<1> QED BY <1>1, <1>2, <1>3 DEF IncreasingBut, Below, Held, u

(* Cutting in two.                                                          *)
LEMMA OrderCut ==
  ASSUME NEW s \in Seq(Cmds), NEW n \in 1..Len(s), Increasing(s)
  PROVE  LET front == SubSeq(s, 1, n)
             rest  == SubSeq(s, n + 1, Len(s))
         IN  /\ Held(front) \subseteq Held(s) /\ Held(rest) \subseteq Held(s)
             /\ Increasing(front) /\ Increasing(rest)
             /\ Below(Held(front), Held(rest))
<1> DEFINE front == SubSeq(s, 1, n)
           rest  == SubSeq(s, n + 1, Len(s))
<1>1. /\ Len(s) \in Nat /\ DOMAIN s = 1..Len(s) /\ n \in Nat /\ 1 <= n /\ n <= Len(s)
      /\ \A i \in 1..Len(s) : s[i] \in Cmds
  BY LenProperties, ElementOfSeq
<1>2. DOMAIN front = 1..n /\ \A i \in 1..n : front[i] = s[i]
  <2>1. \A i \in 1..n : s[i] \in Cmds
    BY <1>1
  <2>2. 1 \in Int /\ n \in Int /\ 1 <= n
    BY <1>1
  <2>3. /\ front \in Seq(Cmds)
        /\ Len(front) = n - 1 + 1
        /\ \A i \in 1..(n - 1 + 1) : front[i] = s[1 + i - 1]
    BY <2>1, <2>2, SubSeqProperties
  <2> HIDE DEF front
  <2>4. DOMAIN front = 1..Len(front)
    BY <2>3, LenProperties
  <2> QED BY <1>1, <2>3, <2>4
<1>3. /\ DOMAIN rest = 1..(Len(s) - n)
      /\ \A i \in 1..(Len(s) - n) : rest[i] = s[n + i]
  <2>1. \A i \in n+1..Len(s) : s[i] \in Cmds
    BY <1>1
  <2>2. n + 1 \in Int /\ Len(s) \in Int
    BY <1>1
  <2>3. /\ rest \in Seq(Cmds)
        /\ Len(rest) = IF n + 1 <= Len(s) THEN Len(s) - (n + 1) + 1 ELSE 0
        /\ \A i \in 1..(Len(s) - (n + 1) + 1) : rest[i] = s[n + 1 + i - 1]
    BY <2>1, <2>2, SubSeqProperties
  <2> HIDE DEF rest
  <2>4. DOMAIN rest = 1..Len(rest) /\ Len(rest) = Len(s) - n
    BY <1>1, <2>3, LenProperties
  <2>5. ASSUME NEW i \in 1..(Len(s) - n) PROVE rest[i] = s[n + i]
    <3>1. i \in 1..(Len(s) - (n + 1) + 1) /\ n + 1 + i - 1 = n + i
      BY <1>1
    <3>2. rest[i] = s[n + 1 + i - 1]
      BY <2>3, <3>1
    <3> QED BY <3>1, <3>2
  <2> QED BY <2>4, <2>5
<1> HIDE DEF front, rest
<1>4. \A i \in 1..n : i \in 1..Len(s)
  BY <1>1
<1>5. \A i \in 1..(Len(s) - n) : n + i \in 1..Len(s)
  BY <1>1
<1>6. Held(front) \subseteq Held(s) /\ Held(rest) \subseteq Held(s)
  BY <1>1, <1>2, <1>3, <1>4, <1>5 DEF Held
<1>7. Increasing(front)
  BY <1>1, <1>2, <1>4 DEF Increasing
<1>8. Increasing(rest)
  <2> SUFFICES ASSUME NEW i \in 1..(Len(s) - n), NEW j \in 1..(Len(s) - n), i < j
               PROVE  rest[i] < rest[j]
    BY <1>3 DEF Increasing
  <2>1. n + i < n + j
    BY <1>1
  <2> QED BY <1>1, <1>3, <1>5, <2>1 DEF Increasing
<1>9. Below(Held(front), Held(rest))
  <2> SUFFICES ASSUME NEW i \in 1..n, NEW j \in 1..(Len(s) - n)
               PROVE  front[i] < rest[j]
    BY <1>2, <1>3 DEF Below, Held
  <2>1. i < n + j
    BY <1>1
  <2> QED BY <1>1, <1>2, <1>3, <1>4, <1>5, <2>1 DEF Increasing
<1> QED BY <1>6, <1>7, <1>8, <1>9 DEF front, rest

-----------------------------------------------------------------------------
(* Stages.                                                                  *)

LEMMA BelowPart ==
  ASSUME NEW A, NEW B, NEW A2 \in SUBSET A, NEW B2 \in SUBSET B, Below(A, B)
  PROVE  Below(A2, B2)
BY DEF Below

(* The step moves nothing away from the terminals.                          *)
NothingBack ==
  /\ InSockets' \subseteq InSockets
  /\ AtGateway' \subseteq AtGateway
  /\ ToLocator' \subseteq ToLocator
  /\ Upstream' \subseteq Upstream
  /\ \A t \in Terms : /\ ToTermd(t)' \subseteq ToTermd(t)
                      /\ AtTermd(t)' \subseteq AtTermd(t)
                      /\ Coming(t)' \subseteq Coming(t)

(* A stage that takes nothing in stays ahead of those behind it.            *)
LEMMA StageStays ==
  ASSUME StagesInOrder, NothingBack
  PROVE  /\ Forwarding' \subseteq Forwarding => Below(Forwarding', InSockets')
         /\ Queued' \subseteq Queued => Below(Queued', AtGateway')
         /\ Routing' \subseteq Routing => Below(Routing', ToLocator')
         /\ \A t \in Terms :
              /\ Held(queue'[t]) \subseteq Held(queue[t]) => Below(Held(queue'[t]), Upstream')
              /\ Held(hand'[t]) \subseteq Held(hand[t]) => Below(Held(hand'[t]), ToTermd(t)')
              /\ Held(down'[t]) \subseteq Held(down[t]) => Below(Held(down'[t]), AtTermd(t)')
              /\ Held(shown'[t]) \subseteq Held(shown[t]) => Below(Held(shown'[t]), Coming(t)')
BY BelowPart DEF StagesInOrder, NothingBack

LEMMA StagesStay ==
  ASSUME Below(Forwarding', InSockets'), Below(Queued', AtGateway'),
         Below(Routing', ToLocator'),
         \A t \in Terms : /\ Below(Held(queue'[t]), Upstream')
                          /\ Below(Held(hand'[t]), ToTermd(t)')
                          /\ Below(Held(down'[t]), AtTermd(t)')
                          /\ Below(Held(shown'[t]), Coming(t)')
  PROVE StagesInOrder'
BY DEF StagesInOrder

(* The steps that pass no command on.                                       *)
PassesNothing ==
  /\ UNCHANGED log
  /\ InSockets' \subseteq InSockets
  /\ pc'[GW] = "forward" => pc[GW] = "forward" /\ hand'[GW] = hand[GW]
  /\ queue'[LOC] \in {queue[LOC], <<>>}
  /\ hand'[LOC] \in {hand[LOC], <<>>}
  /\ \A t \in Terms :
       /\ queue'[t] \in {queue[t], <<>>}
       /\ hand'[t] \in {hand[t], <<>>}
       /\ pc'[t] = "handle" => pc[t] = "handle"
       /\ down'[t] \in {down[t], <<>>}
       /\ shown'[t] = shown[t]

LEMMA PassesNothingBack ==
  ASSUME PassesNothing
  PROVE  /\ NothingBack
         /\ Forwarding' \subseteq Forwarding
         /\ Stray' = Stray /\ Queued' \subseteq Queued /\ Routing' \subseteq Routing
         /\ \A t \in Terms : /\ Held(queue'[t]) \subseteq Held(queue[t])
                             /\ Held(hand'[t]) \subseteq Held(hand[t])
                             /\ Held(down'[t]) \subseteq Held(down[t])
<1>1. Forwarding' \subseteq Forwarding
  BY DEF PassesNothing, Forwarding
<1>2. Stray' = Stray
  BY DEF PassesNothing, Stray
<1>3. Queued' \subseteq Queued /\ Routing' \subseteq Routing
  <2>1. /\ Held(queue'[LOC]) \subseteq Held(queue[LOC])
        /\ Held(hand'[LOC]) \subseteq Held(hand[LOC])
    BY HeldEmpty DEF PassesNothing
  <2> QED BY <1>2, <2>1 DEF Queued, Routing
<1>4. \A t \in Terms : /\ Held(queue'[t]) \subseteq Held(queue[t])
                       /\ Held(hand'[t]) \subseteq Held(hand[t])
                       /\ Held(down'[t]) \subseteq Held(down[t])
  BY HeldEmpty DEF PassesNothing
<1>5. \A t \in Terms : Delivering(t)' \subseteq Delivering(t)
  BY <1>4 DEF PassesNothing, Delivering
<1>6. InSockets' \subseteq InSockets /\ AtGateway' \subseteq AtGateway
  BY <1>1 DEF PassesNothing, AtGateway
<1>7. ToLocator' \subseteq ToLocator
  BY <1>3, <1>6 DEF ToLocator
<1>8. Upstream' \subseteq Upstream
  BY <1>3, <1>7 DEF Upstream
<1>9. \A t \in Terms : ToTermd(t)' \subseteq ToTermd(t)
  BY <1>4, <1>8 DEF ToTermd
<1>10. \A t \in Terms : AtTermd(t)' \subseteq AtTermd(t)
  BY <1>5, <1>9 DEF AtTermd
<1>11. \A t \in Terms : Coming(t)' \subseteq Coming(t)
  BY <1>4, <1>10 DEF Coming
<1> QED
  BY <1>1, <1>2, <1>3, <1>4, <1>6, <1>7, <1>8, <1>9, <1>10, <1>11 DEF NothingBack

LEMMA PassesNothingOrdered ==
  ASSUME Ordered, PassesNothing
  PROVE  Ordered'
<1> USE DEF Ordered
<1>1. /\ NothingBack /\ Forwarding' \subseteq Forwarding
      /\ Stray' = Stray /\ Queued' \subseteq Queued /\ Routing' \subseteq Routing
      /\ \A t \in Terms : /\ Held(queue'[t]) \subseteq Held(queue[t])
                          /\ Held(hand'[t]) \subseteq Held(hand[t])
                          /\ Held(down'[t]) \subseteq Held(down[t])
  BY PassesNothingBack
<1>2. Increasing(<<>>) /\ IncreasingBut(<<>>, Stray)
  BY DEF Increasing, IncreasingBut
<1>3. QueuesInOrder'
  <2>1. IncreasingBut(queue'[LOC], Stray)
    BY <1>2 DEF PassesNothing, QueuesInOrder
  <2>2. /\ \A t \in Terms : Increasing(shown'[t]) /\ Increasing(down'[t]) /\ Increasing(queue'[t])
        /\ pc'[GW] = "forward" => Increasing(hand'[GW])
    BY <1>2 DEF PassesNothing, QueuesInOrder
  <2> QED BY <1>1, <2>1, <2>2 DEF QueuesInOrder
<1>4. \A t \in Terms : Held(shown'[t]) = Held(shown[t])
  BY DEF PassesNothing
<1>5. StagesInOrder'
  BY <1>1, <1>4, StageStays, StagesStay
<1>6. Addressed'
  BY <1>1, <1>4 DEF Addressed, PassesNothing, NothingBack
<1> QED BY <1>3, <1>5, <1>6

-----------------------------------------------------------------------------
(* The gateway's connections.                                               *)

(* Closing connections and dropping what they hold.                         *)
LEMMA SocketsTrimmed ==
  ASSUME SocketsInOrder,
         DOMAIN client'[GW] \subseteq DOMAIN client[GW],
         \A i \in DOMAIN client'[GW] : client'[GW][i].up \in {client[GW][i].up, <<>>},
         DOMAIN pend'[GW] \subseteq DOMAIN pend[GW],
         \A i \in DOMAIN pend'[GW] : pend'[GW][i].up \in {pend[GW][i].up, <<>>}
  PROVE  SocketsInOrder' /\ InSockets' \subseteq InSockets
<1>1. /\ \A i \in DOMAIN client'[GW] : Held(client'[GW][i].up) \subseteq Held(client[GW][i].up)
      /\ \A i \in DOMAIN pend'[GW] : Held(pend'[GW][i].up) \subseteq Held(pend[GW][i].up)
  BY HeldEmpty
<1>2. Increasing(<<>>)
  BY DEF Increasing
<1>3. /\ \A i \in DOMAIN client'[GW] : Increasing(client'[GW][i].up)
      /\ \A i \in DOMAIN pend'[GW] : Increasing(pend'[GW][i].up)
  BY <1>2 DEF SocketsInOrder
<1>4. Unread(client'[GW]) \subseteq Unread(client[GW])
  BY <1>1 DEF Unread
<1>5. Unread(pend'[GW]) \subseteq Unread(pend[GW])
  BY <1>1 DEF Unread
<1>6. Below(Unread(client'[GW]), Unread(pend'[GW]))
  BY <1>4, <1>5, BelowPart DEF SocketsInOrder
<1>7. ASSUME NEW i \in DOMAIN pend'[GW], NEW j \in DOMAIN pend'[GW], i < j
      PROVE  Below(Held(pend'[GW][i].up), Held(pend'[GW][j].up))
  <2>1. Below(Held(pend[GW][i].up), Held(pend[GW][j].up))
    BY <1>7 DEF SocketsInOrder
  <2> QED BY <1>1, <2>1, BelowPart
<1>8. SocketsInOrder'
  BY <1>3, <1>6, <1>7 DEF SocketsInOrder
<1> QED BY <1>4, <1>5, <1>8 DEF InSockets

LEMMA SocketsSame ==
  ASSUME NewestAlive, SocketsInOrder,
         client'[GW] = client[GW], pend'[GW] = pend[GW], peer'[GW] = peer[GW]
  PROVE  NewestAlive' /\ SocketsInOrder' /\ InSockets' = InSockets
BY DEF NewestAlive, SocketsInOrder, InSockets

LEMMA ConnectSockets ==
  ASSUME PathInv, NewestAlive, SocketsInOrder, Connect(GW)
  PROVE  NewestAlive' /\ SocketsInOrder' /\ InSockets' \subseteq InSockets
<1> DEFINE new == [alive |-> TRUE, up |-> <<>>]
           b   == pend[GW]
<1>1. /\ b \in Seq(Sock) /\ pend \in [Servers -> Seq(Sock)] /\ GW \in Servers
      /\ peer \in [Servers -> {"off", "on", "eof"}]
  BY DEF PathInv, TypeOK, Servers
<1>2. new \in Sock /\ new.up = <<>>
  BY DEF Sock
<1>3. /\ pend'[GW] = Append(b, new) /\ peer[GW] = "off" /\ peer'[GW] = "on"
      /\ UNCHANGED client
  BY <1>1 DEF Connect
<1> HIDE DEF new
<1> DEFINE m == Len(b)
           c == pend'[GW]
<1>4. m \in Nat /\ DOMAIN b = 1..m
  BY <1>1, LenProperties
<1>5. /\ DOMAIN c = 1..m + 1
      /\ \A i \in 1..m : c[i] = b[i]
      /\ c[m + 1] = new
  BY <1>1, <1>2, <1>3, <1>4, AppendProperties, LenProperties
<1> HIDE DEF m, c
<1>6. \A i \in 1..m + 1 : i \in 1..m \/ i = m + 1
  BY <1>4, LastIndex
<1>7. c[m + 1].up = <<>> /\ Held(c[m + 1].up) = {} /\ Increasing(c[m + 1].up)
  BY <1>2, <1>5, HeldEmpty DEF Increasing
<1>8. Unread(c) \subseteq Unread(b)
  <2>1. ASSUME NEW i \in 1..m + 1 PROVE Held(c[i].up) \subseteq Unread(b)
    <3>1. CASE i \in 1..m
      BY <1>4, <1>5, <3>1 DEF Unread
    <3> QED BY <1>6, <1>7, <3>1
  <2> QED BY <1>5, <2>1 DEF Unread
<1>9. SocketsInOrder'
  <2>1. \A i \in DOMAIN c : Increasing(c[i].up)
    BY <1>4, <1>5, <1>6, <1>7 DEF SocketsInOrder
  <2>2. ASSUME NEW i \in DOMAIN c, NEW j \in DOMAIN c, i < j
        PROVE  Below(Held(c[i].up), Held(c[j].up))
    <3>1. CASE j = m + 1
      BY <1>7, <3>1 DEF Below
    <3>2. CASE j \in 1..m
      <4>1. i \in 1..m
        BY <1>4, <1>5, <2>2, <3>2
      <4> QED BY <1>4, <1>5, <2>2, <3>2, <4>1 DEF SocketsInOrder
    <3> QED BY <1>5, <1>6, <3>1, <3>2
  <2>3. Below(Unread(client'[GW]), Unread(c))
    BY <1>3, <1>8, BelowPart DEF SocketsInOrder
  <2> QED BY <1>3, <2>1, <2>2, <2>3 DEF SocketsInOrder, c
<1>10. NewestAlive'
  <2>1. \A i \in DOMAIN client[GW] : ~client[GW][i].alive
    BY <1>3 DEF NewestAlive
  <2>2. ASSUME NEW i \in DOMAIN c, c[i].alive PROVE i = m + 1
    BY <1>3, <1>4, <1>5, <1>6, <2>2 DEF NewestAlive
  <2>3. ASSUME NEW i \in DOMAIN c, c[i].alive PROVE \A j \in DOMAIN c : j <= i
    BY <1>4, <1>5, <2>2, <2>3
  <2> QED BY <1>3, <2>1, <2>3 DEF NewestAlive, c
<1> QED BY <1>3, <1>8, <1>9, <1>10 DEF InSockets, c

LEMMA CloseSockets ==
  ASSUME PathInv, NewestAlive, SocketsInOrder,
         PeerClose(GW) \/ PeerNotice(GW) \/ Kill(GW) \/ InitFail(GW) \/ GatewayRespond
  PROVE  NewestAlive' /\ SocketsInOrder' /\ InSockets' \subseteq InSockets
<1>1. /\ GW \in Servers
      /\ pend \in [Servers -> Seq(Sock)] /\ client \in [Servers -> Seq(Sock)]
      /\ peer \in [Servers -> {"off", "on", "eof"}]
  BY DEF PathInv, TypeOK, Servers
<1>2. DOMAIN <<>> = {}
  OBVIOUS
<1>3. CASE PeerClose(GW)
  <2>1. PICK orderly \in BOOLEAN :
          /\ pend'[GW] = Hangup(pend[GW], orderly)
          /\ client'[GW] = Hangup(client[GW], orderly)
    BY <1>1, <1>3 DEF PeerClose
  <2>2. /\ DOMAIN pend'[GW] = DOMAIN pend[GW]
        /\ \A i \in DOMAIN pend[GW] :
             ~pend'[GW][i].alive /\ pend'[GW][i].up \in {pend[GW][i].up, <<>>}
    BY <2>1, NewestAlive DEF Hangup, NewestAlive
  <2>3. /\ DOMAIN client'[GW] = DOMAIN client[GW]
        /\ \A i \in DOMAIN client[GW] :
             ~client'[GW][i].alive /\ client'[GW][i].up \in {client[GW][i].up, <<>>}
    BY <2>1 DEF Hangup
  <2>4. SocketsInOrder' /\ InSockets' \subseteq InSockets
    BY <2>2, <2>3, SocketsTrimmed
  <2> QED BY <2>2, <2>3, <2>4 DEF NewestAlive
<1>4. CASE PeerNotice(GW)
  <2>1. UNCHANGED <<pend, client>> /\ peer[GW] # "on"
    BY <1>1, <1>4 DEF PeerNotice
  <2>2. SocketsInOrder' /\ InSockets' \subseteq InSockets
    BY <2>1 DEF SocketsInOrder, InSockets
  <2> QED BY <2>1, <2>2 DEF NewestAlive
<1>5. CASE Kill(GW) \/ InitFail(GW)
  <2>1. pend'[GW] = <<>> /\ client'[GW] = <<>>
    BY <1>1, <1>5 DEF Kill, InitFail, SocketsClose
  <2>2. SocketsInOrder' /\ InSockets' \subseteq InSockets
    BY <1>2, <2>1, SocketsTrimmed
  <2> QED BY <1>2, <2>1, <2>2 DEF NewestAlive
<1>6. CASE GatewayRespond
  <2>1. /\ pend'[GW] = pend[GW] /\ peer'[GW] = peer[GW]
        /\ client'[GW] \in {client[GW], <<>>}
    BY <1>1, <1>6 DEF GatewayRespond, Reply, TcpSend
  <2>2. SocketsInOrder' /\ InSockets' \subseteq InSockets
    BY <1>2, <2>1, SocketsTrimmed
  <2> QED BY <1>2, <2>1, <2>2 DEF NewestAlive
<1> QED BY <1>3, <1>4, <1>5, <1>6

LEMMA Written ==
  ASSUME NEW s \in Seq(Sock), NEW n
  PROVE  /\ DOMAIN s = 1..Len(s) /\ Len(s) \in Nat
         /\ \A i \in DOMAIN s : s[i].up \in Seq(Cmds) /\ s[i].alive \in BOOLEAN
         /\ DOMAIN Write(s, n) = DOMAIN s
         /\ \A i \in DOMAIN s : Write(s, n)[i].alive = s[i].alive
         /\ \A i \in DOMAIN s :
              Write(s, n)[i].up = IF s[i].alive THEN Append(s[i].up, n) ELSE s[i].up
<1>1. DOMAIN s = 1..Len(s) /\ Len(s) \in Nat /\ \A i \in DOMAIN s : s[i] \in Sock
  BY LenProperties, ElementOfSeq
<1>2. \A x \in Sock : x.up \in Seq(Cmds) /\ x.alive \in BOOLEAN
  BY DEF Sock
<1>3. DOMAIN Write(s, n) = DOMAIN s
  BY DEF Write
<1>4. ASSUME NEW i \in DOMAIN s
      PROVE  /\ Write(s, n)[i].alive = s[i].alive
             /\ Write(s, n)[i].up = IF s[i].alive THEN Append(s[i].up, n) ELSE s[i].up
  <2>1. s[i].alive \in BOOLEAN
    BY <1>1, <1>2
  <2>2. CASE s[i].alive
    BY <2>2 DEF Write
  <2>3. CASE ~s[i].alive
    BY <2>3 DEF Write
  <2> QED BY <2>1, <2>2, <2>3
<1> QED BY <1>1, <1>2, <1>3, <1>4

(* The newest command goes to the newest connection, if that is alive.      *)
LEMMA SendSockets ==
  ASSUME PathInv, NewestAlive, SocketsInOrder, InSockets \subseteq DOMAIN log,
         NEW to \in Terms \cup Strangers, SendLock(to)
  PROVE  /\ NewestAlive' /\ SocketsInOrder'
         /\ InSockets \subseteq InSockets' /\ InSockets' \subseteq InSockets \cup {Len(log) + 1}
<1> DEFINE n == Len(log) + 1
           b == pend[GW]
           c == client[GW]
           b1 == pend'[GW]
           c1 == client'[GW]
<1>1. /\ GW \in Servers /\ b \in Seq(Sock) /\ c \in Seq(Sock)
      /\ pend \in [Servers -> Seq(Sock)] /\ client \in [Servers -> Seq(Sock)]
      /\ peer'[GW] = peer[GW]
  BY DEF PathInv, TypeOK, Servers, SendLock
<1>2. b1 = Write(b, n) /\ c1 = Write(c, n)
  BY <1>1 DEF SendLock
<1>3. /\ Len(log) \in Nat /\ DOMAIN log = 1..Len(log) /\ n \in Cmds
  <2>1. log \in Seq(Terms \cup Strangers)
    BY DEF PathInv, TypeOK
  <2>2. Len(log) \in Nat /\ DOMAIN log = 1..Len(log)
    BY <2>1, LenProperties
  <2> QED BY <2>2, PathAssumption DEF SendLock, Cmds
<1>4. \A k \in DOMAIN log : k < n
  BY <1>3
<1>5. /\ DOMAIN b = 1..Len(b) /\ Len(b) \in Nat
      /\ \A i \in DOMAIN b : b[i].up \in Seq(Cmds) /\ b[i].alive \in BOOLEAN
  BY <1>1, Written
<1>6. \A i \in DOMAIN c : c[i].up \in Seq(Cmds) /\ c[i].alive \in BOOLEAN
  BY <1>1, Written
<1>7. /\ DOMAIN b1 = DOMAIN b
      /\ \A i \in DOMAIN b : b1[i].alive = b[i].alive
      /\ \A i \in DOMAIN b :
           b1[i].up = IF b[i].alive THEN Append(b[i].up, n) ELSE b[i].up
  BY <1>1, <1>2, Written
<1>8. /\ DOMAIN c1 = DOMAIN c
      /\ \A i \in DOMAIN c : c1[i].alive = c[i].alive
      /\ \A i \in DOMAIN c :
           c1[i].up = IF c[i].alive THEN Append(c[i].up, n) ELSE c[i].up
  BY <1>1, <1>2, Written
<1>9. /\ \A i \in DOMAIN b : b[i].alive => \A j \in DOMAIN b : j <= i
      /\ \A i \in DOMAIN c : c[i].alive => b = <<>>
  BY DEF NewestAlive
<1>10. NewestAlive'
  <2>1. b1 = <<>> <=> b = <<>>
    <3>1. Len(b1) = Len(b)
      BY <1>2 DEF Write
    <3> HIDE DEF b, b1
    <3> QED BY <1>1, <1>5, <3>1
  <2> QED BY <1>1, <1>7, <1>8, <2>1 DEF NewestAlive
<1>11. Unread(b) \subseteq DOMAIN log /\ Unread(c) \subseteq DOMAIN log
  BY DEF InSockets
<1>12. SocketsInOrder
  OBVIOUS
<1> HIDE DEF n, b, c, b1, c1
<1>13. ASSUME NEW i \in DOMAIN b
       PROVE  /\ Increasing(b1[i].up)
              /\ Held(b[i].up) \subseteq Held(b1[i].up)
              /\ Held(b1[i].up) \subseteq Held(b[i].up) \cup {n}
              /\ ~b[i].alive => Held(b1[i].up) = Held(b[i].up)
  <2>1. Increasing(b[i].up) /\ Held(b[i].up) \subseteq DOMAIN log
    BY <1>11, <1>12 DEF SocketsInOrder, Unread, b
  <2>2. CASE b[i].alive
    <3>1. Below(Held(b[i].up), {n})
      BY <1>4, <2>1 DEF Below
    <3> QED BY <1>3, <1>5, <1>7, <2>1, <2>2, <3>1, OrderAppend, HeldAppend
  <2>3. CASE ~b[i].alive
    BY <1>7, <2>1, <2>3
  <2> QED BY <2>2, <2>3
<1>14. ASSUME NEW i \in DOMAIN c
       PROVE  /\ Increasing(c1[i].up)
              /\ Held(c[i].up) \subseteq Held(c1[i].up)
              /\ Held(c1[i].up) \subseteq Held(c[i].up) \cup {n}
              /\ ~c[i].alive => Held(c1[i].up) = Held(c[i].up)
  <2>1. Increasing(c[i].up) /\ Held(c[i].up) \subseteq DOMAIN log
    BY <1>11, <1>12 DEF SocketsInOrder, Unread, c
  <2>2. CASE c[i].alive
    <3>1. Below(Held(c[i].up), {n})
      BY <1>4, <2>1 DEF Below
    <3> QED BY <1>3, <1>6, <1>8, <2>1, <2>2, <3>1, OrderAppend, HeldAppend
  <2>3. CASE ~c[i].alive
    BY <1>8, <2>1, <2>3
  <2> QED BY <2>2, <2>3
<1>15. /\ Unread(b1) \subseteq Unread(b) \cup {n} /\ Unread(c1) \subseteq Unread(c) \cup {n}
       /\ Unread(b) \subseteq Unread(b1) /\ Unread(c) \subseteq Unread(c1)
  <2>1. Unread(b1) \subseteq Unread(b) \cup {n}
    BY <1>7, <1>13 DEF Unread
  <2>2. Unread(c1) \subseteq Unread(c) \cup {n}
    BY <1>8, <1>14 DEF Unread
  <2>3. Unread(b) \subseteq Unread(b1)
    BY <1>7, <1>13 DEF Unread
  <2>4. Unread(c) \subseteq Unread(c1)
    BY <1>8, <1>14 DEF Unread
  <2> QED BY <2>1, <2>2, <2>3, <2>4
<1>16. Below(Unread(c1), Unread(b1))
  <2>1. CASE b = <<>>
    <3>1. Unread(b1) = {}
      BY <1>7, <2>1 DEF Unread
    <3> QED BY <3>1 DEF Below
  <2>2. CASE b # <<>>
    <3>1. Unread(c1) \subseteq Unread(c)
      BY <1>6, <1>8, <1>9, <1>14, <2>2 DEF Unread
    <3>2. Below(Unread(c), Unread(b)) /\ Below(Unread(c), {n})
      BY <1>4, <1>11, <1>12 DEF SocketsInOrder, Below, b, c
    <3> QED BY <1>15, <3>1, <3>2 DEF Below
  <2> QED BY <2>1, <2>2
<1>17. ASSUME NEW i \in DOMAIN b, NEW j \in DOMAIN b, i < j
       PROVE  Below(Held(b1[i].up), Held(b1[j].up))
  <2>1. ~b[i].alive
    BY <1>5, <1>9, <1>17
  <2>2. Held(b1[i].up) = Held(b[i].up) /\ Held(b1[j].up) \subseteq Held(b[j].up) \cup {n}
    BY <1>13, <2>1
  <2>3. Below(Held(b[i].up), Held(b[j].up))
    BY <1>12, <1>17 DEF SocketsInOrder, b
  <2>4. Held(b[i].up) \subseteq Unread(b)
    BY DEF Unread
  <2>5. Below(Held(b[i].up), {n})
    BY <1>4, <1>11, <2>4 DEF Below
  <2> QED BY <2>2, <2>3, <2>5 DEF Below
<1>18. SocketsInOrder'
  BY <1>7, <1>8, <1>13, <1>14, <1>16, <1>17 DEF SocketsInOrder, b1, c1
<1>19. InSockets \subseteq InSockets' /\ InSockets' \subseteq InSockets \cup {n}
  BY <1>15 DEF InSockets, b, c, b1, c1
<1> QED BY <1>10, <1>18, <1>19 DEF n

(* Accepting replaces the old connection by the oldest waiting one; reading *)
(* takes the oldest commands that any connection holds.                     *)
LEMMA IdleSockets ==
  ASSUME PathInv, NewestAlive, SocketsInOrder, GatewayIdle
  PROVE  /\ NewestAlive' /\ SocketsInOrder' /\ InSockets' \subseteq InSockets
         /\ \/ UNCHANGED <<hand, pc>>
            \/ /\ Goto(GW, "forward")
               /\ \E chunk : hand' = [hand EXCEPT ![GW] = chunk]
               /\ Increasing(hand'[GW])
               /\ Held(hand'[GW]) \subseteq InSockets
               /\ Below(Held(hand'[GW]), InSockets')
<1> DEFINE b       == pend[GW]
           accepts == b # <<>>
           now     == IF accepts THEN <<Head(b)>> ELSE client[GW]
           unread  == IF now = <<>> THEN <<>> ELSE now[1].up
           gone    == now # <<>> /\ unread = <<>> /\ ~now[1].alive
           b1      == pend'[GW]
           c1      == client'[GW]
<1>1. /\ GW \in Servers /\ GW \in Procs /\ b \in Seq(Sock) /\ client[GW] \in Seq(Sock)
      /\ pend \in [Servers -> Seq(Sock)] /\ client \in [Servers -> Seq(Sock)]
      /\ hand \in [Procs -> Seq(Cmds)]
      /\ Len(client[GW]) \in Nat /\ Len(client[GW]) <= 1
  BY LenProperties DEF PathInv, TypeOK, Servers, Procs
<1>2. b1 = (IF accepts THEN Tail(b) ELSE b) /\ peer'[GW] = peer[GW]
  BY <1>1 DEF GatewayIdle
<1>3. \/ /\ unread # <<>>
         /\ \E n \in Chunk(unread) :
              /\ hand' = [hand EXCEPT ![GW] = SubSeq(unread, 1, n)]
              /\ c1 = <<[alive |-> now[1].alive,
                         up    |-> SubSeq(unread, n + 1, Len(unread))]>>
         /\ Goto(GW, "forward")
      \/ /\ unread = <<>>
         /\ c1 = IF gone THEN <<>> ELSE now
         /\ UNCHANGED <<hand, pc>>
  BY <1>1 DEF GatewayIdle
<1>4. Len(b) \in Nat /\ DOMAIN b = 1..Len(b)
  BY <1>1, LenProperties
<1>5. accepts => /\ now = <<b[1]>> /\ 1 \in DOMAIN b
                 /\ DOMAIN b1 = 1..Len(b) - 1
                 /\ \A i \in 1..Len(b) - 1 : b1[i] = b[i + 1]
  BY <1>1, <1>2, <1>4, HeadTailProperties, LenProperties, EmptySeq
<1>6. \A i \in DOMAIN b1 : accepts => i + 1 \in DOMAIN b
  BY <1>4, <1>5
<1>7. now \in Seq(Sock) /\ DOMAIN now \subseteq {1} /\ (now # <<>> => 1 \in DOMAIN now)
  <2>1. CASE accepts
    <3>1. b[1] \in Sock
      BY <1>1, <1>4, <1>5, <2>1, ElementOfSeq
    <3> QED BY <1>5, <2>1, <3>1
  <2>2. CASE ~accepts
    <3>1. now = client[GW]
      BY <2>2
    <3>2. DOMAIN client[GW] = 1..Len(client[GW])
      BY <1>1, LenProperties
    <3>3. client[GW] # <<>> => Len(client[GW]) # 0
      BY <1>1, EmptySeq
    <3> HIDE DEF now
    <3> QED BY <1>1, <3>1, <3>2, <3>3
  <2> QED BY <2>1, <2>2
<1>8. now # <<>> => now[1].up \in Seq(Cmds)
  BY <1>7, Written
<1>9. unread \in Seq(Cmds)
  BY <1>8
(* The connection now read, and those that wait on.                         *)
<1>10. /\ now # <<>> /\ now[1].alive => peer[GW] = "on" /\ b1 = <<>>
       /\ \A i \in DOMAIN b1 :
            b1[i].alive => peer[GW] = "on" /\ \A j \in DOMAIN b1 : j <= i
  <2>1. CASE accepts
    <3>1. now = <<b[1]>> /\ now[1] = b[1]
      BY <1>5, <2>1
    <3>2. b[1].alive => peer[GW] = "on" /\ b1 = <<>>
      <4> SUFFICES ASSUME b[1].alive PROVE peer[GW] = "on" /\ b1 = <<>>
        OBVIOUS
      <4>1. peer[GW] = "on" /\ \A j \in 1..Len(b) : j <= 1
        BY <1>4, <1>5, <2>1 DEF NewestAlive
      <4>2. Len(b) = 1
        <5> DEFINE k == Len(b)
        <5>1. k \in Nat /\ 1 \in 1..k
          BY <1>4, <1>5, <2>1
        <5>2. \A j \in 1..k : j <= 1
          BY <4>1
        <5> HIDE DEF k
        <5>3. k = 1
          BY <5>1, <5>2
        <5> QED BY <5>3 DEF k
      <4>3. b1 \in Seq(Sock) /\ Len(b1) = 0
        <5>1. b1 = Tail(b)
          BY <1>2, <2>1
        <5> HIDE DEF b1
        <5> QED BY <1>1, <2>1, <4>2, <5>1, HeadTailProperties
      <4> QED BY <4>1, <4>3, EmptySeq
    <3>3. ASSUME NEW i \in DOMAIN b1, b1[i].alive
          PROVE  peer[GW] = "on" /\ \A j \in DOMAIN b1 : j <= i
      <4>1. b1[i] = b[i + 1] /\ i + 1 \in DOMAIN b
        BY <1>5, <1>6, <2>1
      <4>2. peer[GW] = "on" /\ \A j \in DOMAIN b : j <= i + 1
        BY <3>3, <4>1 DEF NewestAlive
      <4>3. \A j \in DOMAIN b1 : j <= i
        BY <1>4, <1>5, <1>6, <2>1, <4>2
      <4> QED BY <4>2, <4>3
    <3> HIDE DEF b1, now
    <3> QED BY <3>1, <3>2, <3>3
  <2>2. CASE ~accepts
    BY <1>2, <1>7, <2>2 DEF NewestAlive
  <2> QED BY <2>1, <2>2
<1>11. /\ Increasing(unread)
       /\ Held(unread) \subseteq InSockets
       /\ \A i \in DOMAIN b1 : Increasing(b1[i].up)
       /\ Unread(b1) \subseteq InSockets
       /\ Below(Held(unread), Unread(b1))
       /\ \A i, j \in DOMAIN b1 : i < j => Below(Held(b1[i].up), Held(b1[j].up))
  <2>1. CASE accepts
    <3>1. unread = b[1].up /\ 1 \in DOMAIN b
      BY <1>5, <2>1
    <3>2. \A i \in DOMAIN b1 : b1[i] = b[i + 1] /\ i + 1 \in DOMAIN b
      BY <1>5, <1>6, <2>1
    <3>3. /\ Increasing(b[1].up) /\ Held(b[1].up) \subseteq Unread(b)
          /\ \A i \in DOMAIN b1 : Increasing(b[i + 1].up) /\ Held(b[i + 1].up) \subseteq Unread(b)
      BY <3>1, <3>2 DEF SocketsInOrder, Unread
    <3>4. ASSUME NEW i \in DOMAIN b1 PROVE Below(Held(b[1].up), Held(b1[i].up))
      <4>1. 1 < i + 1
        BY <1>4, <1>5, <2>1
      <4> QED BY <3>1, <3>2, <4>1 DEF SocketsInOrder
    <3>5. ASSUME NEW i \in DOMAIN b1, NEW j \in DOMAIN b1, i < j
          PROVE  Below(Held(b1[i].up), Held(b1[j].up))
      <4>1. i + 1 < j + 1
        BY <1>4, <1>5, <2>1, <3>5
      <4> QED BY <3>2, <4>1 DEF SocketsInOrder
    <3>6. Unread(b) \subseteq InSockets
      BY DEF InSockets
    <3> HIDE DEF b, b1, unread
    <3>7. Unread(b1) \subseteq Unread(b)
      BY <3>2, <3>3 DEF Unread
    <3>8. Below(Held(b[1].up), Unread(b1))
      BY <3>4 DEF Below, Unread
    <3> QED BY <3>1, <3>2, <3>3, <3>5, <3>6, <3>7, <3>8
  <2>2. CASE ~accepts
    <3>1. now = client[GW] /\ b1 = b /\ b = <<>>
      BY <1>2, <2>2
    <3>2. Unread(b1) = {} /\ DOMAIN b1 = {}
      BY <3>1 DEF Unread
    <3>3. Increasing(unread) /\ Held(unread) \subseteq Unread(client[GW])
      <4>1. CASE now = <<>>
        BY <4>1, HeldEmpty DEF Increasing
      <4>2. CASE now # <<>>
        BY <1>7, <3>1, <4>2 DEF SocketsInOrder, Unread
      <4> QED BY <4>1, <4>2
    <3>4. Unread(client[GW]) \subseteq InSockets
      BY DEF InSockets
    <3> HIDE DEF b, b1, unread, now
    <3> QED BY <3>2, <3>3, <3>4 DEF Below
  <2> QED BY <2>1, <2>2
<1> HIDE DEF unread, gone, now, b1, c1
<1>12. ASSUME NEW rest \in Seq(Cmds),
              Increasing(rest), Held(rest) \subseteq Held(unread),
              \A i \in DOMAIN c1 : now # <<>> /\ c1[i].alive = now[1].alive /\ c1[i].up = rest
       PROVE  /\ NewestAlive' /\ SocketsInOrder' /\ InSockets' \subseteq InSockets
              /\ InSockets' \subseteq Held(rest) \cup Unread(b1)
  <2>1. NewestAlive'
    BY <1>2, <1>10, <1>12 DEF NewestAlive, b1, c1
  <2>2. Unread(c1) \subseteq Held(rest)
    BY <1>12 DEF Unread
  <2>3. Below(Unread(c1), Unread(b1))
    BY <1>11, <1>12, <2>2, BelowPart
  <2>4. \A i \in DOMAIN c1 : Increasing(c1[i].up)
    BY <1>12
  <2>5. SocketsInOrder'
    BY <1>11, <2>3, <2>4 DEF SocketsInOrder, b1, c1
  <2>6. InSockets' = Unread(c1) \cup Unread(b1)
    BY DEF InSockets, b1, c1
  <2> QED BY <1>11, <1>12, <2>1, <2>2, <2>5, <2>6
<1>13. ASSUME unread # <<>>,
              NEW n \in Chunk(unread),
              hand' = [hand EXCEPT ![GW] = SubSeq(unread, 1, n)],
              c1 = <<[alive |-> now[1].alive, up |-> SubSeq(unread, n + 1, Len(unread))]>>,
              Goto(GW, "forward")
       PROVE  /\ NewestAlive' /\ SocketsInOrder' /\ InSockets' \subseteq InSockets
              /\ Goto(GW, "forward")
              /\ \E chunk : hand' = [hand EXCEPT ![GW] = chunk]
              /\ Increasing(hand'[GW])
              /\ Held(hand'[GW]) \subseteq InSockets
              /\ Below(Held(hand'[GW]), InSockets')
  <2> DEFINE front == SubSeq(unread, 1, n)
             rest  == SubSeq(unread, n + 1, Len(unread))
  <2>1. n \in 1..Len(unread)
    BY <1>9, <1>13, LenProperties DEF Chunk
  <2>2. /\ Held(front) \subseteq Held(unread) /\ Held(rest) \subseteq Held(unread)
        /\ Increasing(front) /\ Increasing(rest) /\ Below(Held(front), Held(rest))
        /\ rest \in Seq(Cmds)
    BY <1>9, <1>11, <2>1, OrderCut, Pieces
  <2>3. now # <<>>
    BY <1>13 DEF unread
  <2>4. DOMAIN c1 = {1} /\ c1[1].alive = now[1].alive /\ c1[1].up = rest
    BY <1>13
  <2>5. hand'[GW] = front /\ \E chunk : hand' = [hand EXCEPT ![GW] = chunk]
    BY <1>1, <1>13
  <2> HIDE DEF front, rest
  <2>6. /\ NewestAlive' /\ SocketsInOrder' /\ InSockets' \subseteq InSockets
        /\ InSockets' \subseteq Held(rest) \cup Unread(b1)
    BY <1>12, <2>2, <2>3, <2>4
  <2>7. Below(Held(front), Unread(b1))
    BY <1>11, <2>2, BelowPart
  <2>8. Below(Held(front), InSockets')
    BY <2>2, <2>6, <2>7 DEF Below
  <2> QED BY <1>11, <1>13, <2>2, <2>5, <2>6, <2>8
<1>14. ASSUME unread = <<>>,
              c1 = IF gone THEN <<>> ELSE now,
              UNCHANGED <<hand, pc>>
       PROVE  NewestAlive' /\ SocketsInOrder' /\ InSockets' \subseteq InSockets
  <2>1. unread \in Seq(Cmds) /\ Increasing(unread)
    BY <1>9, <1>11
  <2>2. \A i \in DOMAIN c1 : now # <<>> /\ i = 1 /\ c1 = now
    BY <1>7, <1>14
  <2>3. \A i \in DOMAIN c1 : now # <<>> /\ c1[i].alive = now[1].alive /\ c1[i].up = unread
    BY <2>2 DEF unread
  <2> QED BY <1>12, <2>1, <2>3
<1> QED BY <1>3, <1>13, <1>14

-----------------------------------------------------------------------------
(* The steps that pass no command on.                                       *)
LEMMA PassingNothing ==
  ASSUME PathInv, NewestAlive, SocketsInOrder,
         \/ \E p \in Servers : Connect(p) \/ PeerClose(p) \/ PeerNotice(p)
         \/ \E p \in Procs : Start(p) \/ Ready(p) \/ InitFail(p) \/ Kill(p)
         \/ \E t \in Terms : TermdIdle(t) \/ ReportUp(t) \/ ReportDown(t) \/ TermdAck(t)
         \/ MaintRead \/ GatewayRespond \/ Recv(GW)
         \/ UNCHANGED vars
  PROVE  PassesNothing /\ NewestAlive' /\ SocketsInOrder'
<1>1. /\ GW # LOC /\ GW \notin Terms /\ LOC \notin Terms
      /\ GW \in Servers /\ GW \in Procs /\ LOC \in Procs /\ Terms \subseteq Servers
      /\ Servers \subseteq Procs /\ Servers = {GW} \cup Terms
  BY PathAssumption DEF Servers, Procs
<1>2. /\ queue \in [Procs -> Seq(Cmds)] /\ hand \in [Procs -> Seq(Cmds)]
      /\ pc \in [Procs -> {"down", "init", "loop", "handle", "forward", "ack", "accepted", "lost"}]
      /\ pend \in [Servers -> Seq(Sock)] /\ client \in [Servers -> Seq(Sock)]
      /\ peer \in [Servers -> {"off", "on", "eof"}] /\ down \in [Servers -> Seq(Cmds)]
      /\ shown \in [Terms -> Seq(Cmds)]
  BY DEF PathInv, TypeOK
<1>3. ASSUME client'[GW] = client[GW], pend'[GW] = pend[GW], peer'[GW] = peer[GW]
      PROVE  NewestAlive' /\ SocketsInOrder' /\ InSockets' \subseteq InSockets
  BY <1>3, SocketsSame
<1>4. ASSUME NEW p \in Servers, Connect(p)
      PROVE  PassesNothing /\ NewestAlive' /\ SocketsInOrder'
  <2>1. UNCHANGED <<queue, pc, hand, down, log, shown>>
    BY <1>4 DEF Connect, user
  <2>2. NewestAlive' /\ SocketsInOrder' /\ InSockets' \subseteq InSockets
    <3>1. CASE p = GW
      BY <1>4, <3>1, ConnectSockets
    <3>2. CASE p # GW
      BY <1>1, <1>2, <1>3, <1>4, <3>2 DEF Connect
    <3> QED BY <3>1, <3>2
  <2> QED BY <2>1, <2>2 DEF PassesNothing
<1>5. ASSUME NEW p \in Servers, PeerClose(p) \/ PeerNotice(p)
      PROVE  PassesNothing /\ NewestAlive' /\ SocketsInOrder'
  <2>1. /\ UNCHANGED <<queue, pc, hand, log, shown>>
        /\ down' = [down EXCEPT ![p] = <<>>]
    BY <1>5 DEF PeerClose, PeerNotice, user
  <2>2. NewestAlive' /\ SocketsInOrder' /\ InSockets' \subseteq InSockets
    <3>1. CASE p = GW
      BY <1>5, <3>1, CloseSockets
    <3>2. CASE p # GW
      BY <1>1, <1>2, <1>3, <1>5, <3>2 DEF PeerClose, PeerNotice
    <3> QED BY <3>1, <3>2
  <2>3. \A t \in Terms : down'[t] \in {down[t], <<>>}
    BY <1>1, <1>2, <2>1
  <2> QED BY <2>1, <2>2, <2>3 DEF PassesNothing
<1>6. ASSUME NEW p \in Procs, Start(p) \/ Ready(p)
      PROVE  PassesNothing /\ NewestAlive' /\ SocketsInOrder'
  <2>1. /\ UNCHANGED <<queue, hand, pend, client, peer, down, log, shown>>
        /\ \E loc \in {"init", "loop"} : pc' = [pc EXCEPT ![p] = loc]
    BY <1>6 DEF Start, Ready, Goto, net, user
  <2>2. \A q \in Procs : pc'[q] = pc[q] \/ pc'[q] \in {"init", "loop"}
    BY <1>2, <2>1
  <2>3. NewestAlive' /\ SocketsInOrder' /\ InSockets' \subseteq InSockets
    BY <1>3, <2>1
  <2> QED BY <1>1, <2>1, <2>2, <2>3 DEF PassesNothing
<1>7. ASSUME NEW p \in Procs, Kill(p) \/ InitFail(p)
      PROVE  PassesNothing /\ NewestAlive' /\ SocketsInOrder'
  <2>1. /\ UNCHANGED <<down, log, shown>>
        /\ pc' = [pc EXCEPT ![p] = "down"]
        /\ hand' = [hand EXCEPT ![p] = <<>>] \/ UNCHANGED hand
        /\ queue' = [queue EXCEPT ![p] = <<>>] \/ UNCHANGED queue
        /\ SocketsClose(p)
    BY <1>7 DEF Kill, InitFail, Goto, user
  <2>2. \A q \in Procs : /\ pc'[q] = pc[q] \/ pc'[q] = "down"
                         /\ hand'[q] \in {hand[q], <<>>} /\ queue'[q] \in {queue[q], <<>>}
    BY <1>2, <2>1
  <2>3. pc'[GW] = "forward" => pc[GW] = "forward" /\ hand'[GW] = hand[GW]
    BY <1>1, <1>2, <2>1
  <2>4. NewestAlive' /\ SocketsInOrder' /\ InSockets' \subseteq InSockets
    <3>1. CASE p = GW
      BY <1>7, <3>1, CloseSockets
    <3>2. CASE p # GW
      BY <1>1, <1>3, <2>1, <3>2 DEF SocketsClose
    <3> QED BY <3>1, <3>2
  <2> QED BY <1>1, <2>1, <2>2, <2>3, <2>4 DEF PassesNothing
<1>8. ASSUME NEW t \in Terms, TermdIdle(t) \/ ReportUp(t) \/ ReportDown(t)
      PROVE  PassesNothing /\ NewestAlive' /\ SocketsInOrder'
  <2>1. /\ UNCHANGED <<queue, hand, peer, down, log, shown>>
        /\ \E loc \in {"accepted", "lost", "loop"} : pc' = [pc EXCEPT ![t] = loc]
    BY <1>8 DEF TermdIdle, ReportUp, ReportDown, Goto, net, user
  <2>2. \A q \in Procs : pc'[q] = pc[q] \/ pc'[q] \in {"accepted", "lost", "loop"}
    BY <1>2, <2>1
  <2>3. client'[GW] = client[GW] /\ pend'[GW] = pend[GW]
    BY <1>1, <1>2, <1>8 DEF TermdIdle, ReportUp, ReportDown, net
  <2>4. NewestAlive' /\ SocketsInOrder' /\ InSockets' \subseteq InSockets
    BY <1>3, <2>1, <2>3
  <2> QED BY <1>1, <2>1, <2>2, <2>4 DEF PassesNothing
<1>9. ASSUME NEW t \in Terms, TermdAck(t)
      PROVE  PassesNothing /\ NewestAlive' /\ SocketsInOrder'
  <2>1. /\ UNCHANGED <<pend, client, peer, down, log, shown>>
        /\ pc' = [pc EXCEPT ![t] = "loop"]
        /\ hand' = [hand EXCEPT ![t] = <<>>]
        /\ pc[t] = "ack" /\ SendTo(GW, Head(hand[t]), AckCap)
    BY <1>9 DEF TermdAck, Goto, net, user
  <2>2. \A q \in Procs : \/ pc'[q] = pc[q] /\ hand'[q] = hand[q]
                         \/ pc'[q] = "loop" /\ hand'[q] = <<>>
    BY <1>2, <2>1
  <2>3. \A q \in Procs : q # GW => queue'[q] = queue[q]
    BY <1>2, <2>1 DEF SendTo, Enqueue
  <2>4. NewestAlive' /\ SocketsInOrder' /\ InSockets' \subseteq InSockets
    BY <1>3, <2>1
  <2> QED BY <1>1, <2>1, <2>2, <2>3, <2>4 DEF PassesNothing
<1>10. ASSUME MaintRead
       PROVE  PassesNothing /\ NewestAlive' /\ SocketsInOrder'
  <2>1. /\ UNCHANGED <<queue, hand, pc, pend, client, peer, log, shown>>
        /\ down' = [down EXCEPT ![GW] = Tail(@)]
    BY <1>10 DEF MaintRead
  <2>2. \A t \in Terms : down'[t] = down[t]
    BY <1>1, <1>2, <2>1
  <2>3. NewestAlive' /\ SocketsInOrder' /\ InSockets' \subseteq InSockets
    BY <1>3, <2>1
  <2> QED BY <2>1, <2>2, <2>3 DEF PassesNothing
<1>11. ASSUME GatewayRespond
       PROVE  PassesNothing /\ NewestAlive' /\ SocketsInOrder'
  <2>1. /\ UNCHANGED <<queue, log, shown>>
        /\ pc' = [pc EXCEPT ![GW] = "loop"]
        /\ hand' = [hand EXCEPT ![GW] = <<>>]
    BY <1>11 DEF GatewayRespond, Goto, user
  <2>2. \A q \in Procs : q # GW => pc'[q] = pc[q] /\ hand'[q] = hand[q]
    BY <1>2, <2>1
  <2>3. \A t \in Terms : down'[t] = down[t]
    BY <1>1, <1>2, <1>11 DEF GatewayRespond, Reply, TcpSend
  <2>4. pc'[GW] # "forward"
    BY <1>1, <1>2, <2>1
  <2>5. NewestAlive' /\ SocketsInOrder' /\ InSockets' \subseteq InSockets
    BY <1>11, CloseSockets
  <2> QED BY <1>1, <2>1, <2>2, <2>3, <2>4, <2>5 DEF PassesNothing
<1>12. ASSUME Recv(GW)
       PROVE  PassesNothing /\ NewestAlive' /\ SocketsInOrder'
  <2>1. /\ UNCHANGED <<pend, client, peer, down, log, shown>>
        /\ pc' = [pc EXCEPT ![GW] = "handle"]
        /\ hand' = [hand EXCEPT ![GW] = <<Head(queue[GW])>>]
        /\ queue' = [queue EXCEPT ![GW] = Tail(@)]
    BY <1>12 DEF Recv, Goto, net, user
  <2>2. \A q \in Procs : q # GW => pc'[q] = pc[q] /\ hand'[q] = hand[q] /\ queue'[q] = queue[q]
    BY <1>2, <2>1
  <2>3. pc'[GW] # "forward"
    BY <1>1, <1>2, <2>1
  <2>4. NewestAlive' /\ SocketsInOrder' /\ InSockets' \subseteq InSockets
    BY <1>3, <2>1
  <2> QED BY <1>1, <2>1, <2>2, <2>3, <2>4 DEF PassesNothing
<1>13. ASSUME UNCHANGED vars
       PROVE  PassesNothing /\ NewestAlive' /\ SocketsInOrder'
  <2>1. UNCHANGED <<queue, hand, pc, pend, client, peer, down, log, shown>>
    BY <1>13 DEF vars, net, user
  <2> QED BY <1>3, <2>1 DEF PassesNothing
<1> QED BY <1>4, <1>5, <1>6, <1>7, <1>8, <1>9, <1>10, <1>11, <1>12, <1>13

-----------------------------------------------------------------------------
(* The steps that pass a command on take it from the head of one stage to   *)
(* the end of the next, or lose it.                                         *)

LEMMA TermdStays ==
  ASSUME NEW t \in Terms, Upstream' \subseteq Upstream,
         queue'[t] = queue[t], hand'[t] = hand[t], pc'[t] = pc[t], down'[t] = down[t]
  PROVE  /\ ToTermd(t)' \subseteq ToTermd(t)
         /\ AtTermd(t)' \subseteq AtTermd(t)
         /\ Coming(t)' \subseteq Coming(t)
<1>1. ToTermd(t)' \subseteq ToTermd(t)
  BY DEF ToTermd
<1>2. Delivering(t)' = Delivering(t)
  BY DEF Delivering
<1>3. AtTermd(t)' \subseteq AtTermd(t)
  BY <1>1, <1>2 DEF AtTermd
<1>4. Coming(t)' \subseteq Coming(t)
  BY <1>3 DEF Coming
<1> QED BY <1>1, <1>3, <1>4

(* Steps of terminal t and of its termd.                                    *)
OnlyAt(t) ==
  /\ UNCHANGED <<log, pend, peer>> /\ client'[GW] = client[GW]
  /\ \A p \in Procs \ {t} : queue'[p] = queue[p] /\ hand'[p] = hand[p] /\ pc'[p] = pc[p]
  /\ \A u \in Terms \ {t} : down'[u] = down[u] /\ shown'[u] = shown[u]

LEMMA OnlyAtOrdered ==
  ASSUME Ordered, NewestAlive, SocketsInOrder, NEW t \in Terms, OnlyAt(t),
         ToTermd(t)' \subseteq ToTermd(t), AtTermd(t)' \subseteq AtTermd(t),
         Coming(t)' \subseteq Coming(t),
         Increasing(queue'[t]), Increasing(down'[t]), Increasing(shown'[t]),
         Held(queue'[t]) \subseteq Held(queue[t]),
         Below(Held(hand'[t]), ToTermd(t)'), Below(Held(down'[t]), AtTermd(t)'),
         Below(Held(shown'[t]), Coming(t)'),
         Held(queue'[t]) \cup Held(hand'[t]) \cup Held(down'[t]) \cup Held(shown'[t])
           \subseteq Held(queue[t]) \cup Held(hand[t]) \cup Held(down[t]) \cup Held(shown[t])
  PROVE  Ordered' /\ NothingBack /\ NewestAlive' /\ SocketsInOrder'
<1> USE DEF Ordered
<1>1. GW \in Procs \ {t} /\ LOC \in Procs \ {t} /\ Terms \subseteq Procs
  BY PathAssumption DEF Procs, Servers
<1>2. /\ queue'[LOC] = queue[LOC] /\ hand'[LOC] = hand[LOC]
      /\ hand'[GW] = hand[GW] /\ pc'[GW] = pc[GW]
      /\ client'[GW] = client[GW] /\ pend'[GW] = pend[GW] /\ peer'[GW] = peer[GW]
      /\ log' = log
  BY <1>1 DEF OnlyAt
<1>3. \A u \in Terms \ {t} :
        /\ queue'[u] = queue[u] /\ hand'[u] = hand[u] /\ pc'[u] = pc[u]
        /\ down'[u] = down[u] /\ shown'[u] = shown[u]
  BY <1>1 DEF OnlyAt
<1>4. NewestAlive' /\ SocketsInOrder' /\ InSockets' = InSockets
  BY <1>2, SocketsSame
<1>5. Forwarding' = Forwarding
  BY <1>2 DEF Forwarding
<1>6. AtGateway' = AtGateway
  BY <1>4, <1>5 DEF AtGateway
<1>13. Stray' = Stray /\ Queued' = Queued /\ Routing' = Routing
  BY <1>2 DEF Stray, Queued, Routing
<1>7. ToLocator' = ToLocator
  BY <1>6, <1>13 DEF ToLocator
<1>8. Upstream' = Upstream
  BY <1>7, <1>13 DEF Upstream
<1>9. NothingBack
  BY <1>3, <1>4, <1>6, <1>7, <1>8, TermdStays DEF NothingBack
<1>10. QueuesInOrder'
  BY <1>2, <1>3, <1>13 DEF QueuesInOrder
<1>11. StagesInOrder'
  <2>1. ASSUME NEW u \in Terms
        PROVE  /\ Below(Held(queue'[u]), Upstream') /\ Below(Held(hand'[u]), ToTermd(u)')
               /\ Below(Held(down'[u]), AtTermd(u)') /\ Below(Held(shown'[u]), Coming(u)')
    <3>1. CASE u = t
      BY <1>9, <3>1, StageStays
    <3>2. CASE u # t
      BY <1>3, <1>9, <3>2, StageStays
    <3> QED BY <3>1, <3>2
  <2> QED BY <1>5, <1>9, <1>13, <2>1, StageStays, StagesStay
<1>12. Addressed'
  BY <1>2, <1>3, <1>8 DEF Addressed
<1> QED BY <1>4, <1>9, <1>10, <1>11, <1>12

LEMMA TerminalReadOrdered ==
  ASSUME PathInv, NewestAlive, SocketsInOrder, Ordered, NEW t \in Terms, TerminalRead(t)
  PROVE  Ordered' /\ NothingBack /\ NewestAlive' /\ SocketsInOrder'
<1>1. /\ down \in [Servers -> Seq(Cmds)] /\ shown \in [Terms -> Seq(Cmds)]
      /\ t \in Servers /\ Terms \subseteq Servers
  BY DEF PathInv, TypeOK, Servers
<1>2. /\ down[t] # <<>> /\ down'[t] = Tail(down[t])
      /\ shown'[t] = Append(shown[t], Head(down[t]))
      /\ \A u \in Terms \ {t} : down'[u] = down[u] /\ shown'[u] = shown[u]
      /\ UNCHANGED <<queue, pc, hand, pend, client, peer, log>>
  BY <1>1 DEF TerminalRead
<1>3. OnlyAt(t)
  BY <1>2 DEF OnlyAt
<1> DEFINE h == Head(down[t])
<1>4. down[t] \in Seq(Cmds) /\ shown[t] \in Seq(Cmds) /\ h \in Cmds
  BY <1>1, <1>2, HeadTailProperties
<1>5. /\ Increasing(down[t]) /\ Increasing(shown[t]) /\ Increasing(queue[t])
      /\ Below(Held(down[t]), AtTermd(t)) /\ Below(Held(shown[t]), Coming(t))
      /\ Below(Held(hand[t]), ToTermd(t))
  BY DEF Ordered, QueuesInOrder, StagesInOrder
<1>6. /\ Held(down[t]) = {h} \cup Held(down'[t]) /\ Increasing(down'[t])
      /\ Below({h}, Held(down'[t]))
  BY <1>2, <1>4, <1>5, OrderTail
<1>7. Coming(t) = Held(down[t]) \cup AtTermd(t)
  BY DEF Coming
<1> HIDE DEF h
<1>8. Below(Held(shown[t]), {h}) /\ Below({h}, AtTermd(t))
  BY <1>5, <1>6, <1>7 DEF Below
<1>9. Held(shown'[t]) = Held(shown[t]) \cup {h} /\ Increasing(shown'[t])
  BY <1>2, <1>4, <1>5, <1>8, HeldAppend, OrderAppend DEF h
<1>10. ToTermd(t)' = ToTermd(t) /\ AtTermd(t)' = AtTermd(t)
  <2>1. ToTermd(t)' = ToTermd(t)
    BY <1>2 DEF ToTermd, Upstream, ToLocator, AtGateway, Forwarding, InSockets, Queued, Routing, Stray
  <2>2. Delivering(t)' = Delivering(t)
    BY <1>2 DEF Delivering
  <2> QED BY <2>1, <2>2 DEF AtTermd
<1>11. Coming(t)' = Held(down'[t]) \cup AtTermd(t)
  BY <1>10 DEF Coming
<1>12. Coming(t)' \subseteq Coming(t)
  BY <1>6, <1>7, <1>11
<1>13. Below(Held(down'[t]), AtTermd(t)')
  BY <1>5, <1>6, <1>10 DEF Below
<1>14. Below(Held(shown'[t]), Coming(t)')
  BY <1>5, <1>6, <1>7, <1>8, <1>9, <1>11 DEF Below
<1>15. /\ queue'[t] = queue[t] /\ hand'[t] = hand[t]
       /\ Held(queue'[t]) = Held(queue[t]) /\ Held(hand'[t]) = Held(hand[t])
  BY <1>2
<1> QED
  BY <1>3, <1>5, <1>6, <1>9, <1>10, <1>12, <1>13, <1>14, <1>15, OnlyAtOrdered

LEMMA TermdRecvOrdered ==
  ASSUME PathInv, NewestAlive, SocketsInOrder, Ordered, NEW t \in Terms, Recv(t)
  PROVE  Ordered' /\ NothingBack /\ NewestAlive' /\ SocketsInOrder'
<1>1. /\ queue \in [Procs -> Seq(Cmds)] /\ hand \in [Procs -> Seq(Cmds)]
      /\ pc \in [Procs -> {"down", "init", "loop", "handle", "forward", "ack", "accepted", "lost"}]
      /\ t \in Procs /\ GW \in Procs \ {t} /\ LOC \in Procs \ {t}
  BY PathAssumption DEF PathInv, TypeOK, Servers, Procs
<1> DEFINE h == Head(queue[t])
<1>2. /\ pc[t] = "loop" /\ queue[t] # <<>>
      /\ queue'[t] = Tail(queue[t]) /\ hand'[t] = <<h>> /\ pc'[t] = "handle"
      /\ \A p \in Procs \ {t} : queue'[p] = queue[p] /\ hand'[p] = hand[p] /\ pc'[p] = pc[p]
      /\ UNCHANGED <<log, pend, client, peer, down, shown>>
  BY <1>1 DEF Recv, Goto, net, user
<1>3. OnlyAt(t)
  BY <1>2 DEF OnlyAt
<1>4. queue[t] \in Seq(Cmds) /\ h \in Cmds
  BY <1>1, <1>2, HeadTailProperties
<1>5. /\ Increasing(down[t]) /\ Increasing(shown[t]) /\ Increasing(queue[t])
      /\ Below(Held(down[t]), AtTermd(t)) /\ Below(Held(shown[t]), Coming(t))
      /\ Below(Held(queue[t]), Upstream)
  BY DEF Ordered, QueuesInOrder, StagesInOrder
<1>6. /\ Held(queue[t]) = {h} \cup Held(queue'[t]) /\ Increasing(queue'[t])
      /\ Below({h}, Held(queue'[t]))
  BY <1>2, <1>4, <1>5, OrderTail
<1>7. Held(hand'[t]) = {h}
  BY <1>2, HeldOne
<1> HIDE DEF h
<1>8. Upstream' = Upstream
  BY <1>1, <1>2 DEF Upstream, ToLocator, AtGateway, Forwarding, InSockets, Queued, Routing, Stray
<1>9. ToTermd(t)' = Held(queue'[t]) \cup Upstream /\ ToTermd(t) = Held(queue[t]) \cup Upstream
  BY <1>8 DEF ToTermd
<1>10. Delivering(t)' = {h}
  BY <1>2, <1>7 DEF Delivering
<1>11. ToTermd(t)' \subseteq ToTermd(t) /\ AtTermd(t)' \subseteq AtTermd(t)
  BY <1>6, <1>9, <1>10 DEF AtTermd
<1>12. Held(down'[t]) = Held(down[t]) /\ Held(shown'[t]) = Held(shown[t])
       /\ down'[t] = down[t] /\ shown'[t] = shown[t]
  BY <1>2
<1>13. Coming(t)' \subseteq Coming(t)
  BY <1>11, <1>12 DEF Coming
<1>14. Below(Held(hand'[t]), ToTermd(t)')
  BY <1>5, <1>6, <1>7, <1>9 DEF Below
<1>15. Below(Held(down'[t]), AtTermd(t)') /\ Below(Held(shown'[t]), Coming(t)')
  BY <1>5, <1>11, <1>12, <1>13, BelowPart
<1> QED
  BY <1>3, <1>5, <1>6, <1>7, <1>11, <1>12, <1>13, <1>14, <1>15, OnlyAtOrdered

LEMMA OneInHand ==
  ASSUME PathInv, NEW p \in Procs, pc[p] \in {"handle", "ack"}
  PROVE  Held(hand[p]) = {Head(hand[p])} /\ Head(hand[p]) \in Cmds
<1>1. hand[p] \in Seq(Cmds) /\ Len(hand[p]) = 1
  BY DEF PathInv, TypeOK, HandFitsPc
<1>2. hand[p] # <<>> /\ DOMAIN hand[p] = 1..1
  BY <1>1, EmptySeq, LenProperties
<1>3. Head(hand[p]) = hand[p][1] /\ Head(hand[p]) \in Cmds
  BY <1>1, <1>2, HeadTailProperties
<1>4. Held(hand[p]) = {hand[p][1]}
  BY <1>2 DEF Held
<1> QED BY <1>3, <1>4

LEMMA TermdDeliverOrdered ==
  ASSUME PathInv, NewestAlive, SocketsInOrder, Ordered, NEW t \in Terms, TermdDeliver(t)
  PROVE  Ordered' /\ NothingBack /\ NewestAlive' /\ SocketsInOrder'
<1>1. /\ queue \in [Procs -> Seq(Cmds)] /\ hand \in [Procs -> Seq(Cmds)]
      /\ pc \in [Procs -> {"down", "init", "loop", "handle", "forward", "ack", "accepted", "lost"}]
      /\ client \in [Servers -> Seq(Sock)] /\ down \in [Servers -> Seq(Cmds)]
      /\ t \in Procs /\ GW \in Procs \ {t} /\ LOC \in Procs \ {t}
      /\ t \in Servers /\ GW \in Servers \ {t} /\ Terms \subseteq Servers
  BY PathAssumption DEF PathInv, TypeOK, Servers, Procs
<1> DEFINE h == Head(hand[t])
<1>2. /\ pc[t] = "handle" /\ pc'[t] = "ack"
      /\ \A p \in Procs \ {t} : pc'[p] = pc[p]
      /\ UNCHANGED <<log, queue, hand, pend, peer, shown>>
  BY <1>1 DEF TermdDeliver, Goto, user
<1>3. /\ client'[GW] = client[GW]
      /\ \A u \in Terms \ {t} : down'[u] = down[u]
      /\ down'[t] \in {down[t], Append(down[t], h)}
  BY <1>1 DEF TermdDeliver, Reply, TcpSend
<1>4. OnlyAt(t)
  BY <1>2, <1>3 DEF OnlyAt
<1>5. down[t] \in Seq(Cmds) /\ h \in Cmds /\ Held(hand[t]) = Delivering(t) /\ h \in Held(hand[t])
  <2>1. Held(hand[t]) = {h} /\ h \in Cmds
    BY <1>1, <1>2, OneInHand
  <2> HIDE DEF h
  <2> QED BY <1>1, <1>2, <2>1 DEF Delivering
<1>6. /\ Increasing(down[t]) /\ Increasing(shown[t]) /\ Increasing(queue[t])
      /\ Below(Held(down[t]), AtTermd(t)) /\ Below(Held(shown[t]), Coming(t))
      /\ Below(Held(hand[t]), ToTermd(t))
  BY DEF Ordered, QueuesInOrder, StagesInOrder
<1> HIDE DEF h
<1>7. AtTermd(t) = Held(hand[t]) \cup ToTermd(t)
  BY <1>5 DEF AtTermd
<1>8. Below(Held(down[t]), {h})
  BY <1>5, <1>6, <1>7 DEF Below
<1>9. Increasing(down'[t]) /\ Held(down'[t]) \subseteq Held(down[t]) \cup {h}
  <2>1. CASE down'[t] = down[t]
    BY <1>6, <2>1
  <2>2. CASE down'[t] = Append(down[t], h)
    BY <1>5, <1>6, <1>8, <2>2, HeldAppend, OrderAppend
  <2> QED BY <1>3, <2>1, <2>2
<1>10. ToTermd(t)' = ToTermd(t)
  BY <1>1, <1>2, <1>3 DEF ToTermd, Upstream, ToLocator, AtGateway, Forwarding, InSockets, Queued, Routing, Stray
<1>11. AtTermd(t)' = ToTermd(t)
  BY <1>2, <1>10 DEF AtTermd, Delivering
<1>12. Coming(t)' \subseteq Coming(t)
  BY <1>5, <1>7, <1>9, <1>11 DEF Coming
<1>13. /\ queue'[t] = queue[t] /\ hand'[t] = hand[t] /\ shown'[t] = shown[t]
       /\ Held(queue'[t]) = Held(queue[t]) /\ Held(hand'[t]) = Held(hand[t])
       /\ Held(shown'[t]) = Held(shown[t])
  BY <1>2
<1>14. Below(Held(down'[t]), AtTermd(t)')
  BY <1>5, <1>6, <1>7, <1>9, <1>11 DEF Below
<1>15. Below(Held(shown'[t]), Coming(t)')
  BY <1>6, <1>12, <1>13, BelowPart
<1>16. AtTermd(t)' \subseteq AtTermd(t) /\ ToTermd(t)' \subseteq ToTermd(t)
  BY <1>7, <1>10, <1>11
<1>17. Below(Held(hand'[t]), ToTermd(t)')
  BY <1>6, <1>10, <1>13
<1> QED
  BY <1>4, <1>5, <1>6, <1>9, <1>12, <1>13, <1>14, <1>15, <1>16, <1>17, OnlyAtOrdered

(* Steps between the gateway's sockets and the locator.                     *)
LEMMA UpstreamOrdered ==
  ASSUME Ordered, UNCHANGED log,
         \A t \in Terms : /\ queue'[t] = queue[t] /\ hand'[t] = hand[t] /\ pc'[t] = pc[t]
                          /\ down'[t] = down[t] /\ shown'[t] = shown[t],
         InSockets' \subseteq InSockets, AtGateway' \subseteq AtGateway,
         ToLocator' \subseteq ToLocator, Upstream' \subseteq Upstream,
         IncreasingBut(queue'[LOC], Stray), pc'[GW] = "forward" => Increasing(hand'[GW]),
         Below(Forwarding', InSockets'), Below(Queued', AtGateway'),
         Below(Routing', ToLocator')
  PROVE  Ordered' /\ NothingBack
<1> USE DEF Ordered
<1>1. NothingBack
  BY TermdStays DEF NothingBack
<1>2. QueuesInOrder'
  <2>1. Stray' = Stray
    BY DEF Stray
  <2> QED BY <2>1 DEF QueuesInOrder
<1>3. \A t \in Terms :
        /\ Held(queue'[t]) = Held(queue[t]) /\ Held(hand'[t]) = Held(hand[t])
        /\ Held(down'[t]) = Held(down[t]) /\ Held(shown'[t]) = Held(shown[t])
  OBVIOUS
<1>4. StagesInOrder'
  BY <1>1, <1>3, StageStays, StagesStay
<1>5. Addressed'
  BY <1>3 DEF Addressed
<1> QED BY <1>1, <1>2, <1>4, <1>5

LEMMA LocatorRecvOrdered ==
  ASSUME PathInv, NewestAlive, SocketsInOrder, Ordered, Recv(LOC)
  PROVE  Ordered' /\ NothingBack /\ NewestAlive' /\ SocketsInOrder'
<1>1. /\ queue \in [Procs -> Seq(Cmds)] /\ hand \in [Procs -> Seq(Cmds)]
      /\ pc \in [Procs -> {"down", "init", "loop", "handle", "forward", "ack", "accepted", "lost"}]
      /\ LOC \in Procs /\ GW \in Procs \ {LOC} /\ Terms \subseteq Procs \ {LOC}
  BY PathAssumption DEF PathInv, TypeOK, Servers, Procs
<1> DEFINE h == Head(queue[LOC])
<1>2. /\ queue[LOC] # <<>>
      /\ queue'[LOC] = Tail(queue[LOC]) /\ hand'[LOC] = <<h>>
      /\ \A p \in Procs \ {LOC} : queue'[p] = queue[p] /\ hand'[p] = hand[p] /\ pc'[p] = pc[p]
      /\ UNCHANGED <<log, pend, client, peer, down, shown>>
  BY <1>1 DEF Recv, Goto, net, user
<1>3. NewestAlive' /\ SocketsInOrder' /\ InSockets' = InSockets
  BY <1>2, SocketsSame
<1>4. Forwarding' = Forwarding
  BY <1>1, <1>2 DEF Forwarding
<1>5. AtGateway' = AtGateway
  BY <1>3, <1>4 DEF AtGateway
<1>6. queue[LOC] \in Seq(Cmds)
  BY <1>1
<1>7. /\ IncreasingBut(queue[LOC], Stray) /\ (pc[GW] = "forward" => Increasing(hand[GW]))
      /\ Below(Forwarding, InSockets) /\ Below(Queued, AtGateway)
  BY DEF Ordered, QueuesInOrder, StagesInOrder
<1>8. /\ Stray' = Stray
      /\ Queued = ({h} \ Stray) \cup Queued' /\ IncreasingBut(queue'[LOC], Stray)
      /\ Below({h} \ Stray, Queued')
  <2>1. Stray' = Stray
    BY <1>2 DEF Stray
  <2>2. Held(queue[LOC]) = {h} \cup Held(queue'[LOC])
    BY <1>2, <1>6, OrderTail
  <2>3. /\ IncreasingBut(queue'[LOC], Stray)
        /\ h \notin Stray => Below({h}, Held(queue'[LOC]) \ Stray)
    BY <1>2, <1>6, <1>7, ButTail
  <2> HIDE DEF h
  <2> QED BY <2>1, <2>2, <2>3 DEF Queued, Below
<1>9. Routing' = {h} \ Stray
  BY <1>2, <1>8, HeldOne DEF Routing
<1> HIDE DEF h
<1>10. /\ ToLocator' = Queued' \cup AtGateway
       /\ ToLocator = Queued \cup AtGateway
  BY <1>5 DEF ToLocator
<1>11. ToLocator' \subseteq ToLocator /\ Upstream' \subseteq Upstream
  BY <1>8, <1>9, <1>10 DEF Upstream
<1>12. Below(Routing', ToLocator') /\ Below(Queued', AtGateway')
  BY <1>5, <1>7, <1>8, <1>9, <1>10 DEF Below
<1>13. pc'[GW] = "forward" => Increasing(hand'[GW])
  BY <1>1, <1>2, <1>7
<1>14. Below(Forwarding', InSockets')
  BY <1>3, <1>4, <1>7
<1>15. \A t \in Terms : /\ queue'[t] = queue[t] /\ hand'[t] = hand[t] /\ pc'[t] = pc[t]
                        /\ down'[t] = down[t] /\ shown'[t] = shown[t]
  BY <1>1, <1>2
<1>16. Ordered' /\ NothingBack
  BY <1>2, <1>3, <1>5, <1>8, <1>11, <1>12, <1>13, <1>14, <1>15, UpstreamOrdered
<1> QED BY <1>3, <1>16

LEMMA GatewayForwardOrdered ==
  ASSUME PathInv, NewestAlive, SocketsInOrder, Ordered, GatewayForward
  PROVE  Ordered' /\ NothingBack /\ NewestAlive' /\ SocketsInOrder'
<1>1. /\ queue \in [Procs -> Seq(Cmds)] /\ hand \in [Procs -> Seq(Cmds)]
      /\ pc \in [Procs -> {"down", "init", "loop", "handle", "forward", "ack", "accepted", "lost"}]
      /\ GW \in Procs /\ LOC \in Procs \ {GW} /\ Terms \subseteq Procs \ {GW, LOC}
  BY PathAssumption DEF PathInv, TypeOK, Servers, Procs
<1> DEFINE h == Head(hand[GW])
<1>2. /\ pc[GW] = "forward" /\ hand'[GW] = Tail(hand[GW])
      /\ \A p \in Procs \ {GW} : hand'[p] = hand[p] /\ pc'[p] = pc[p]
      /\ UNCHANGED <<log, pend, client, peer, down, shown>>
  BY <1>1 DEF GatewayForward, Goto, net, user
<1>3. /\ queue'[LOC] \in {queue[LOC], Append(queue[LOC], h)}
      /\ \A p \in Procs \ {LOC} : queue'[p] = queue[p]
  BY <1>1 DEF GatewayForward, SendTo, Enqueue
<1>4. NewestAlive' /\ SocketsInOrder' /\ InSockets' = InSockets
  BY <1>2, SocketsSame
<1>5. hand[GW] \in Seq(Cmds) /\ hand[GW] # <<>> /\ queue[LOC] \in Seq(Cmds) /\ h \in Cmds
  <2>1. Len(hand[GW]) \in Nat /\ Len(hand[GW]) >= 1 /\ h \in Cmds
    BY <1>1, <1>2, HeadInHand
  <2>2. hand[GW] # <<>>
    BY <2>1
  <2> QED BY <1>1, <2>1, <2>2
<1>6. /\ IncreasingBut(queue[LOC], Stray) /\ Increasing(hand[GW])
      /\ Below(Forwarding, InSockets) /\ Below(Queued, AtGateway)
      /\ Below(Routing, ToLocator)
  BY <1>2 DEF Ordered, QueuesInOrder, StagesInOrder
<1>7. /\ Held(hand[GW]) = {h} \cup Held(hand'[GW]) /\ Increasing(hand'[GW])
      /\ Below({h}, Held(hand'[GW]))
  BY <1>2, <1>5, <1>6, OrderTail
<1> HIDE DEF h
<1>8. Forwarding = {h} \cup Held(hand'[GW]) /\ Forwarding' \subseteq Held(hand'[GW])
  BY <1>2, <1>7 DEF Forwarding
<1>9. /\ AtGateway = Forwarding \cup InSockets
      /\ AtGateway' = Forwarding' \cup InSockets
  BY <1>4 DEF AtGateway
<1>10. Below({h}, AtGateway') /\ Below(Forwarding', InSockets')
  BY <1>4, <1>6, <1>7, <1>8, <1>9 DEF Below
<1>11. /\ IncreasingBut(queue'[LOC], Stray)
       /\ Queued' \subseteq Queued \cup {h}
  <2>3. Stray' = Stray
    BY <1>2 DEF Stray
  <2>1. CASE queue'[LOC] = queue[LOC]
    BY <1>6, <2>1, <2>3 DEF Queued
  <2>2. CASE queue'[LOC] = Append(queue[LOC], h)
    <3>1. Below(Held(queue[LOC]) \ Stray, {h})
      BY <1>6, <1>8, <1>9 DEF Below, Queued
    <3>2. Held(queue'[LOC]) = Held(queue[LOC]) \cup {h}
      BY <1>5, <2>2, HeldAppend
    <3>3. IncreasingBut(queue'[LOC], Stray)
      BY <1>5, <1>6, <2>2, <3>1, ButAppend
    <3> QED BY <2>3, <3>2, <3>3 DEF Queued
  <2> QED BY <1>3, <2>1, <2>2
<1>12. AtGateway' \subseteq AtGateway
  BY <1>8, <1>9
<1>13. Below(Queued', AtGateway')
  BY <1>6, <1>10, <1>11, <1>12 DEF Below
<1>14. ToLocator' \subseteq ToLocator
  BY <1>8, <1>9, <1>11, <1>12 DEF ToLocator
<1>15. hand'[LOC] = hand[LOC] /\ Routing' = Routing
  BY <1>1, <1>2 DEF Routing, Stray
<1>16. Upstream' \subseteq Upstream /\ Below(Routing', ToLocator')
  BY <1>6, <1>14, <1>15, BelowPart DEF Upstream
<1>17. \A t \in Terms : /\ queue'[t] = queue[t] /\ hand'[t] = hand[t] /\ pc'[t] = pc[t]
                        /\ down'[t] = down[t] /\ shown'[t] = shown[t]
  BY <1>1, <1>2, <1>3
<1>18. Ordered' /\ NothingBack
  BY <1>2, <1>4, <1>7, <1>10, <1>11, <1>12, <1>13, <1>14, <1>16, <1>17, UpstreamOrdered
<1> QED BY <1>4, <1>18

LEMMA GatewayIdleOrdered ==
  ASSUME PathInv, NewestAlive, SocketsInOrder, Ordered, GatewayIdle
  PROVE  Ordered' /\ NothingBack /\ NewestAlive' /\ SocketsInOrder'
<1>1. /\ queue \in [Procs -> Seq(Cmds)] /\ hand \in [Procs -> Seq(Cmds)]
      /\ pc \in [Procs -> {"down", "init", "loop", "handle", "forward", "ack", "accepted", "lost"}]
      /\ GW \in Procs /\ LOC \in Procs \ {GW} /\ Terms \subseteq Procs \ {GW, LOC}
  BY PathAssumption DEF PathInv, TypeOK, Servers, Procs
<1>2. UNCHANGED <<queue, log, down, shown>> /\ pc[GW] = "loop"
  BY DEF GatewayIdle, user
<1>3. NewestAlive' /\ SocketsInOrder' /\ InSockets' \subseteq InSockets
  BY IdleSockets
<1>4. CASE UNCHANGED <<hand, pc>>
  <2>1. PassesNothing
    BY <1>2, <1>3, <1>4 DEF PassesNothing
  <2> QED BY <1>3, <2>1, PassesNothingBack, PassesNothingOrdered
<1>5. ASSUME Goto(GW, "forward"),
             NEW chunk, hand' = [hand EXCEPT ![GW] = chunk],
             Increasing(hand'[GW]), Held(hand'[GW]) \subseteq InSockets,
             Below(Held(hand'[GW]), InSockets')
      PROVE  Ordered' /\ NothingBack
  <2>1. /\ pc'[GW] = "forward"
        /\ \A p \in Procs \ {GW} : hand'[p] = hand[p] /\ pc'[p] = pc[p]
    BY <1>1, <1>5 DEF Goto
  <2>2. Forwarding' = Held(hand'[GW]) /\ Forwarding = {}
    BY <1>2, <2>1 DEF Forwarding
  <2>3. AtGateway' \subseteq AtGateway
    BY <1>3, <1>5, <2>2 DEF AtGateway
  <2>5. Queued' = Queued /\ Routing' = Routing
    BY <1>1, <1>2, <2>1 DEF Queued, Routing, Stray
  <2>4. ToLocator' \subseteq ToLocator
    BY <2>3, <2>5 DEF ToLocator
  <2>6. Upstream' \subseteq Upstream
    BY <2>4, <2>5 DEF Upstream
  <2>7. /\ IncreasingBut(queue[LOC], Stray) /\ Below(Queued, AtGateway)
        /\ Below(Routing, ToLocator)
    BY DEF Ordered, QueuesInOrder, StagesInOrder
  <2>8. /\ IncreasingBut(queue'[LOC], Stray) /\ Below(Queued', AtGateway')
        /\ Below(Routing', ToLocator')
    BY <1>2, <2>3, <2>4, <2>5, <2>7, BelowPart
  <2>9. Below(Forwarding', InSockets')
    BY <1>5, <2>2
  <2>10. \A t \in Terms : /\ queue'[t] = queue[t] /\ hand'[t] = hand[t] /\ pc'[t] = pc[t]
                          /\ down'[t] = down[t] /\ shown'[t] = shown[t]
    BY <1>1, <1>2, <2>1
  <2> QED
    BY <1>2, <1>3, <1>5, <2>3, <2>4, <2>6, <2>8, <2>9, <2>10, UpstreamOrdered
<1> QED BY <1>3, <1>4, <1>5, IdleSockets

LEMMA LocatorRouteOrdered ==
  ASSUME PathInv, NewestAlive, SocketsInOrder, Ordered, LocatorRoute
  PROVE  Ordered' /\ NothingBack /\ NewestAlive' /\ SocketsInOrder'
<1>1. /\ queue \in [Procs -> Seq(Cmds)] /\ hand \in [Procs -> Seq(Cmds)]
      /\ pc \in [Procs -> {"down", "init", "loop", "handle", "forward", "ack", "accepted", "lost"}]
      /\ LOC \in Procs /\ GW \in Procs \ {LOC} /\ Terms \subseteq Procs \ {GW, LOC}
  BY PathAssumption DEF PathInv, TypeOK, Servers, Procs
<1> DEFINE h == Head(hand[LOC])
<1>2. /\ pc[LOC] = "handle" /\ hand'[LOC] = <<>>
      /\ \A p \in Procs \ {LOC} : hand'[p] = hand[p] /\ pc'[p] = pc[p]
      /\ UNCHANGED <<log, pend, client, peer, down, shown>>
  BY <1>1 DEF LocatorRoute, Goto, net, user
<1>3. Held(hand[LOC]) = {h} /\ h \in Cmds
  BY <1>1, <1>2, OneInHand
<1> HIDE DEF h
<1>3a. Stray' = Stray /\ Held(hand[LOC]) \subseteq DOMAIN log
  <2>1. Stray' = Stray /\ Routing \subseteq DOMAIN log
    BY <1>2 DEF Stray, Ordered, Addressed, Upstream
  <2> QED BY <2>1 DEF Routing, Stray
(* To the terminal it names, or round again, or nowhere.                    *)
<1>4. \/ UNCHANGED queue
      \/ log[h] \in Terms /\ queue' = [queue EXCEPT ![log[h]] = Append(@, h)]
      \/ h \in Stray /\ queue' = [queue EXCEPT ![LOC] = Append(@, h)]
  <2>1. \/ UNCHANGED queue
        \/ \E p \in Resolve(log[h]) : SendTo(p, h, Cap)
    BY DEF LocatorRoute, h
  <2>2. ASSUME NEW p \in Resolve(log[h]), SendTo(p, h, Cap)
        PROVE  UNCHANGED queue \/ queue' = [queue EXCEPT ![p] = Append(@, h)]
    BY <2>2 DEF SendTo, Enqueue
  <2>3. \A p \in Resolve(log[h]) :
          \/ p = log[h] /\ log[h] \in Terms
          \/ p = LOC /\ log[h] \in Zeros
    BY DEF Resolve
  <2>4. log[h] \in Zeros => h \in Stray
    BY <1>3, <1>3a DEF Stray
  <2> QED BY <2>1, <2>2, <2>3, <2>4
<1>5. /\ Queued' = Queued /\ IncreasingBut(queue'[LOC], Stray)
      /\ \A t \in Terms : \/ queue'[t] = queue[t]
                          \/ queue'[t] = Append(queue[t], h) /\ log[h] = t
  <2>1. IncreasingBut(queue[LOC], Stray)
    BY DEF Ordered, QueuesInOrder
  <2>2. CASE UNCHANGED queue
    BY <1>3a, <2>1, <2>2 DEF Queued
  <2>3. CASE log[h] \in Terms /\ queue' = [queue EXCEPT ![log[h]] = Append(@, h)]
    <3>1. queue'[LOC] = queue[LOC]
      BY <1>1, <2>3
    <3>2. \A t \in Terms : \/ queue'[t] = queue[t]
                           \/ queue'[t] = Append(queue[t], h) /\ log[h] = t
      BY <1>1, <2>3
    <3> QED BY <1>3a, <2>1, <3>1, <3>2 DEF Queued
  <2>4. CASE h \in Stray /\ queue' = [queue EXCEPT ![LOC] = Append(@, h)]
    <3>1. queue'[LOC] = Append(queue[LOC], h) /\ queue[LOC] \in Seq(Cmds)
      BY <1>1, <2>4
    <3>2. \A t \in Terms : queue'[t] = queue[t]
      BY <1>1, <2>4
    <3>3. Held(queue'[LOC]) = Held(queue[LOC]) \cup {h}
      BY <1>3, <3>1, HeldAppend
    <3>4. IncreasingBut(queue'[LOC], Stray)
      BY <1>3, <2>1, <2>4, <3>1, ButAppend
    <3> QED BY <1>3a, <2>4, <3>2, <3>3, <3>4 DEF Queued
  <2> QED BY <1>4, <2>2, <2>3, <2>4
<1>6. NewestAlive' /\ SocketsInOrder' /\ InSockets' = InSockets
  BY <1>2, SocketsSame
<1>7. Forwarding' = Forwarding
  BY <1>1, <1>2 DEF Forwarding
<1>8. AtGateway' = AtGateway
  BY <1>6, <1>7 DEF AtGateway
<1>9. ToLocator' = ToLocator
  BY <1>5, <1>8 DEF ToLocator
<1>10. /\ Routing = {h} \ Stray /\ Routing' = {}
       /\ Upstream = ({h} \ Stray) \cup ToLocator /\ Upstream' = ToLocator
  <2>1. Routing = {h} \ Stray /\ Routing' = {}
    BY <1>2, <1>3, HeldEmpty DEF Routing
  <2> QED BY <1>9, <2>1 DEF Upstream
<1>11. /\ QueuesInOrder /\ StagesInOrder /\ Addressed
       /\ Below(Forwarding, InSockets) /\ Below(Queued, AtGateway)
       /\ Below(Routing, ToLocator)
       /\ \A t \in Terms : Below(Held(queue[t]), Upstream) /\ Increasing(queue[t])
  BY DEF Ordered, QueuesInOrder, StagesInOrder
<1>12. Below({h} \ Stray, ToLocator)
  BY <1>10, <1>11
<1>13. ASSUME NEW t \in Terms
       PROVE  /\ Increasing(queue'[t])
              /\ Held(queue'[t]) \subseteq Held(queue[t]) \cup ({h} \ Stray)
              /\ Held(queue'[t]) \subseteq Held(queue[t]) \/ log[h] = t
  <2>1. CASE queue'[t] = queue[t]
    BY <1>11, <2>1
  <2>2. CASE queue'[t] = Append(queue[t], h) /\ log[h] = t
    <3>1. h \notin Stray
      BY <2>2, PathAssumption DEF Stray
    <3>2. Below(Held(queue[t]), {h})
      BY <1>10, <1>11, <3>1 DEF Below
    <3>3. queue[t] \in Seq(Cmds)
      BY <1>1
    <3>4. Increasing(queue'[t]) /\ Held(queue'[t]) = Held(queue[t]) \cup {h}
      BY <1>3, <1>11, <2>2, <3>2, <3>3, HeldAppend, OrderAppend
    <3> QED BY <2>2, <3>1, <3>4
  <2> QED BY <1>5, <2>1, <2>2
<1>14. \A t \in Terms : Below(Held(queue'[t]), Upstream')
  BY <1>10, <1>11, <1>12, <1>13 DEF Below
<1>15. \A t \in Terms : /\ hand'[t] = hand[t] /\ pc'[t] = pc[t]
                        /\ down'[t] = down[t] /\ shown'[t] = shown[t]
  BY <1>1, <1>2
<1>16. \A t \in Terms : ToTermd(t)' \subseteq ToTermd(t)
  BY <1>10, <1>13 DEF ToTermd
<1>17. \A t \in Terms : Delivering(t)' = Delivering(t)
  BY <1>15 DEF Delivering
<1>18. \A t \in Terms : AtTermd(t)' \subseteq AtTermd(t)
  BY <1>16, <1>17 DEF AtTermd
<1>19. \A t \in Terms : Coming(t)' \subseteq Coming(t)
  BY <1>15, <1>18 DEF Coming
<1>20. NothingBack
  BY <1>6, <1>8, <1>9, <1>10, <1>16, <1>18, <1>19 DEF NothingBack
<1>21. StagesInOrder'
  <2>1. Routing' \subseteq Routing /\ Queued' = Queued
    BY <1>5, <1>10
  <2>2. \A t \in Terms : /\ Held(hand'[t]) = Held(hand[t]) /\ Held(down'[t]) = Held(down[t])
                         /\ Held(shown'[t]) = Held(shown[t])
    BY <1>15
  <2> QED BY <1>7, <1>11, <1>14, <1>20, <2>1, <2>2, StageStays, StagesStay
<1>22. QueuesInOrder'
  BY <1>1, <1>2, <1>5, <1>11, <1>13, <1>15, <1>3a DEF QueuesInOrder
<1>23. Addressed'
  <2>1. h \in DOMAIN log
    BY <1>3, <1>3a
  <2>2. Upstream' \subseteq DOMAIN log /\ log' = log
    BY <1>2, <1>10, <1>11 DEF Addressed
  <2>3. ASSUME NEW t \in Terms, NEW n \in Held(queue'[t])
        PROVE  n \in DOMAIN log /\ log[n] = t
    BY <1>11, <1>13, <2>1, <2>3 DEF Addressed
  <2>4. ASSUME NEW t \in Terms,
               NEW n \in Held(hand'[t]) \cup Held(down'[t]) \cup Held(shown'[t])
        PROVE  n \in DOMAIN log /\ log[n] = t
    BY <1>11, <1>15, <2>4 DEF Addressed
  <2> QED BY <2>2, <2>3, <2>4 DEF Addressed
<1> QED BY <1>6, <1>20, <1>21, <1>22, <1>23 DEF Ordered

(* The command that is sent is newer than all there is.                     *)
LEMMA SendLockOrdered ==
  ASSUME PathInv, NewestAlive, SocketsInOrder, Ordered,
         NEW to \in Terms \cup Strangers, SendLock(to)
  PROVE  /\ Ordered' /\ NewestAlive' /\ SocketsInOrder'
         /\ \E new \in SUBSET {Len(log) + 1} :
              /\ Upstream' = Upstream \cup new
              /\ \A t \in Terms : Coming(t)' = Coming(t) \cup new
<1> DEFINE n == Len(log) + 1
<1>1. log \in Seq(Terms \cup Strangers) /\ log' = Append(log, to)
  BY DEF PathInv, TypeOK, SendLock
<1>2. Len(log) \in Nat /\ DOMAIN log = 1..Len(log)
  BY <1>1, LenProperties
<1>3. /\ \A k \in DOMAIN log : k < n /\ k \in DOMAIN log' /\ log'[k] = log[k]
      /\ n \in DOMAIN log'
  <2>1. /\ DOMAIN log' = 1..n
        /\ \A k \in 1..Len(log) : log'[k] = log[k]
    BY <1>1, <1>2, AppendProperties, LenProperties
  <2> QED BY <1>2, <2>1
<1>4. UNCHANGED <<queue, pc, hand, down, shown>>
  BY DEF SendLock
<1>5. /\ QueuesInOrder /\ StagesInOrder /\ Addressed
      /\ Below(Forwarding, InSockets) /\ Below(Queued, AtGateway)
      /\ Below(Routing, ToLocator)
      /\ \A t \in Terms : /\ Below(Held(queue[t]), Upstream) /\ Below(Held(hand[t]), ToTermd(t))
                          /\ Below(Held(down[t]), AtTermd(t)) /\ Below(Held(shown[t]), Coming(t))
      /\ Upstream \subseteq DOMAIN log
      /\ \A t \in Terms :
           Held(queue[t]) \cup Held(hand[t]) \cup Held(down[t]) \cup Held(shown[t]) \subseteq DOMAIN log
  BY DEF Ordered, StagesInOrder, Addressed
<1>6. InSockets \subseteq DOMAIN log
  BY <1>5 DEF Upstream, ToLocator, AtGateway
<1>3a. Stray \subseteq Stray' /\ Queued' = Queued /\ Routing' = Routing
  <2>1. Stray \subseteq Stray' /\ Stray' \subseteq Stray \cup {n} /\ n \notin DOMAIN log
    <3>1. DOMAIN log' = DOMAIN log \cup {n}
      <4>1. DOMAIN log' = 1..n
        BY <1>1, <1>2, AppendProperties, LenProperties
      <4> QED BY <1>2, <4>1
    <3> QED BY <1>2, <1>3, <3>1 DEF Stray
  <2>2. Held(queue[LOC]) \subseteq DOMAIN log /\ Held(hand[LOC]) \subseteq DOMAIN log
    <3>1. Queued \subseteq DOMAIN log /\ Routing \subseteq DOMAIN log
      BY <1>5 DEF Upstream, ToLocator
    <3> QED BY <3>1 DEF Queued, Routing, Stray
  <2> HIDE DEF n
  <2> QED BY <1>4, <2>1, <2>2 DEF Queued, Routing
<1>7. /\ NewestAlive' /\ SocketsInOrder'
      /\ InSockets \subseteq InSockets' /\ InSockets' \subseteq InSockets \cup {n}
  BY <1>6, SendSockets
<1> DEFINE new == InSockets' \cap {n}
<1>8. InSockets' = InSockets \cup new
  BY <1>7
<1>9. new \subseteq {n}
  OBVIOUS
<1> HIDE DEF n, new
<1>10. ASSUME NEW A, NEW B, A \subseteq DOMAIN log, Below(A, B)
       PROVE  Below(A, B \cup new)
  BY <1>3, <1>9, <1>10 DEF Below
<1>11. Forwarding' = Forwarding
  BY <1>4 DEF Forwarding
<1>12. AtGateway' = AtGateway \cup new
  BY <1>8, <1>11 DEF AtGateway
<1>13. ToLocator' = ToLocator \cup new
  BY <1>12, <1>3a DEF ToLocator
<1>14. Upstream' = Upstream \cup new
  BY <1>13, <1>3a DEF Upstream
<1>15. \A t \in Terms : ToTermd(t)' = ToTermd(t) \cup new
  BY <1>4, <1>14 DEF ToTermd
<1>16. \A t \in Terms : AtTermd(t)' = AtTermd(t) \cup new
  BY <1>4, <1>15 DEF AtTermd, Delivering
<1>17. \A t \in Terms : Coming(t)' = Coming(t) \cup new
  BY <1>4, <1>16 DEF Coming
<1>18. Forwarding \cup Queued \cup Routing \subseteq DOMAIN log
  BY <1>5 DEF Upstream, ToLocator, AtGateway
<1>19. Below(Forwarding', InSockets')
  BY <1>5, <1>8, <1>10, <1>11, <1>18
<1>20. Below(Queued', AtGateway') /\ Below(Routing', ToLocator')
  BY <1>5, <1>10, <1>12, <1>13, <1>18, <1>3a
<1>21. \A t \in Terms : /\ Below(Held(queue'[t]), Upstream')
                        /\ Below(Held(hand'[t]), ToTermd(t)')
                        /\ Below(Held(down'[t]), AtTermd(t)')
                        /\ Below(Held(shown'[t]), Coming(t)')
  BY <1>4, <1>5, <1>10, <1>14, <1>15, <1>16, <1>17
<1>22. StagesInOrder'
  BY <1>19, <1>20, <1>21, StagesStay
<1>23. QueuesInOrder'
  <2>1. IncreasingBut(queue[LOC], Stray')
    BY <1>5, <1>3a DEF QueuesInOrder, IncreasingBut
  <2> QED BY <1>4, <1>5, <2>1 DEF QueuesInOrder
<1>24. Addressed'
  <2>1. Upstream' \subseteq DOMAIN log'
    BY <1>3, <1>5, <1>9, <1>14
  <2>2. \A t \in Terms :
          \A k \in Held(queue'[t]) \cup Held(hand'[t]) \cup Held(down'[t]) \cup Held(shown'[t]) :
            k \in DOMAIN log' /\ log'[k] = t
    BY <1>3, <1>4, <1>5 DEF Addressed
  <2> QED BY <2>1, <2>2 DEF Addressed
<1> QED BY <1>7, <1>9, <1>14, <1>17, <1>22, <1>23, <1>24 DEF Ordered, n

-----------------------------------------------------------------------------
(* The invariant holds, and every step is one of the promised ones.         *)

LEMMA StartedOrder ==
  ASSUME NEW up \in SUBSET Procs, NEW on \in SUBSET Servers, Started(up, on)
  PROVE  OrderInv /\ log = <<>> /\ \A t \in Terms : shown[t] = <<>> /\ Coming(t) = {}
<1>1. PathInv
  BY StartedInv
<1>2. /\ GW \in Servers /\ GW \in Procs /\ LOC \in Procs
      /\ Terms \subseteq Servers /\ Terms \subseteq Procs
  BY DEF Servers, Procs
<1>3. /\ \A p \in Procs : queue[p] = <<>> /\ hand[p] = <<>>
      /\ pend[GW] = <<>> /\ log = <<>>
      /\ \A t \in Terms : down[t] = <<>> /\ shown[t] = <<>>
  BY <1>2 DEF Started
<1>4. \/ client[GW] = <<>>
      \/ client[GW] = <<[alive |-> TRUE, up |-> <<>>]>> /\ peer[GW] = "on"
  BY <1>2 DEF Started
<1>5. \A i \in DOMAIN client[GW] : client[GW][i].up = <<>>
  BY <1>4
<1>6. DOMAIN pend[GW] = {} /\ Held(<<>>) = {} /\ Increasing(<<>>) /\ IncreasingBut(<<>>, Stray)
  BY <1>3, HeldEmpty DEF Increasing, IncreasingBut
<1>7. Unread(pend[GW]) = {} /\ Unread(client[GW]) = {}
  BY <1>5, <1>6 DEF Unread
<1>8. NewestAlive
  BY <1>3, <1>4, <1>6 DEF NewestAlive
<1>9. SocketsInOrder
  BY <1>5, <1>6, <1>7 DEF SocketsInOrder, Below
<1>10. QueuesInOrder
  BY <1>2, <1>3, <1>6 DEF QueuesInOrder
<1>11. Upstream = {} /\ Forwarding = {}
  BY <1>2, <1>3, <1>6, <1>7
  DEF Upstream, ToLocator, AtGateway, Forwarding, InSockets, Queued, Routing
<1>12. \A t \in Terms : /\ Held(queue[t]) = {} /\ Held(hand[t]) = {}
                        /\ Held(down[t]) = {} /\ Held(shown[t]) = {}
  BY <1>2, <1>3, <1>6
<1>13. Queued = {} /\ Routing = {}
  BY <1>2, <1>3, <1>6 DEF Queued, Routing
<1>14. StagesInOrder /\ Addressed
  BY <1>11, <1>12, <1>13 DEF StagesInOrder, Addressed, Below
<1>15. \A t \in Terms : Coming(t) = {}
  BY <1>11, <1>12 DEF Coming, AtTermd, ToTermd, Delivering
<1> QED BY <1>1, <1>3, <1>8, <1>9, <1>10, <1>14, <1>15 DEF OrderInv, Ordered

(* Every step but the sending of a command.                                 *)
LEMMA OrderStepOn ==
  ASSUME OrderInv, Work \/ Gui \/ Faults \/ UNCHANGED vars
  PROVE  OrderInv' /\ NothingBack
<1> USE DEF OrderInv
<1>1. PathInv'
  BY PathStep DEF Next
<1>2. ASSUME \/ \E p \in Servers : Connect(p) \/ PeerClose(p) \/ PeerNotice(p)
             \/ \E p \in Procs : Start(p) \/ Ready(p) \/ InitFail(p) \/ Kill(p)
             \/ \E t \in Terms : TermdIdle(t) \/ ReportUp(t) \/ ReportDown(t) \/ TermdAck(t)
             \/ MaintRead \/ GatewayRespond \/ Recv(GW)
             \/ UNCHANGED vars
      PROVE  OrderInv' /\ NothingBack
  BY <1>1, <1>2, PassingNothing, PassesNothingBack, PassesNothingOrdered
<1>3. ASSUME NEW t \in Terms, TerminalRead(t) \/ Recv(t) \/ TermdDeliver(t)
      PROVE  OrderInv' /\ NothingBack
  BY <1>1, <1>3, TerminalReadOrdered, TermdRecvOrdered, TermdDeliverOrdered
<1>4. ASSUME Recv(LOC) \/ LocatorRoute \/ GatewayForward \/ GatewayIdle
      PROVE  OrderInv' /\ NothingBack
  BY <1>1, <1>4, LocatorRecvOrdered, LocatorRouteOrdered, GatewayForwardOrdered,
     GatewayIdleOrdered
<1> QED
  BY <1>2, <1>3, <1>4 DEF Work, Gateway, Locator, Termd, Gui, Faults

LEMMA OrderStep == OrderInv /\ [Next]_vars => OrderInv'
<1> SUFFICES ASSUME OrderInv, [Next]_vars PROVE OrderInv'
  OBVIOUS
<1>1. ASSUME NEW to \in Terms \cup Strangers, SendLock(to) PROVE OrderInv'
  BY <1>1, PathStep, SendLockOrdered DEF OrderInv, Next, Operator
<1> QED BY <1>1, OrderStepOn DEF Next, Operator

(* Commands reach each terminal in the order they were sent, none twice and *)
(* none of another's (ShownInOrder), for any number of terminals, any queue *)
(* and socket sizes, and any number of kills, restarts and reconnections.   *)
THEOREM CommandsInOrder ==
  /\ Spec => []ShownInOrder
  /\ SpecSupervised => []ShownInOrder
<1>1. Init \/ Started(Procs, Servers) => OrderInv
  BY StartedOrder DEF Init
<1>2. OrderInv => ShownInOrder
  <2> SUFFICES ASSUME OrderInv, NEW t \in Terms
               PROVE  /\ Increasing(shown[t])
                      /\ \A i \in DOMAIN shown[t] : log[shown[t][i]] = t
    BY DEF ShownInOrder
  <2>1. Increasing(shown[t]) /\ \A n \in Held(shown[t]) : log[n] = t
    BY DEF OrderInv, Ordered, QueuesInOrder, Addressed
  <2> QED BY <2>1 DEF Held
<1>3. Spec => []ShownInOrder
  BY <1>1, <1>2, OrderStep, PTL DEF Spec
<1>4. SpecSupervised => []ShownInOrder
  <2>1. SpecUp => []ShownInOrder
    BY <1>1, <1>2, OrderStep, PTL DEF SpecUp
  <2> QED BY <2>1, PTL DEF SpecSupervised
<1> QED BY <1>3, <1>4

-----------------------------------------------------------------------------
(* Refinement.                                                              *)

Lines == [t \in Terms |-> Line(t)]

LEMMA ShowStep ==
  ASSUME OrderInv, NEW t \in Terms, TerminalRead(t)
  PROVE  Delivery!Show(t)
<1>1. /\ down \in [Servers -> Seq(Cmds)] /\ shown \in [Terms -> Seq(Cmds)]
      /\ t \in Servers /\ Terms \subseteq Servers
  BY DEF OrderInv, PathInv, TypeOK, Servers
<1> DEFINE h == Head(down[t])
<1>2. /\ down[t] # <<>> /\ down'[t] = Tail(down[t])
      /\ shown' = [shown EXCEPT ![t] = Append(@, h)]
      /\ \A u \in Terms \ {t} : down'[u] = down[u]
      /\ UNCHANGED <<queue, pc, hand, pend, client, peer, log>>
  BY <1>1 DEF TerminalRead
<1>3. down[t] \in Seq(Cmds) /\ h \in Cmds
  BY <1>1, <1>2, HeadTailProperties
<1>4. Increasing(down[t]) /\ Below(Held(down[t]), AtTermd(t)) /\ h \in Held(down[t]) /\ log[h] = t
  BY <1>2, <1>3, OrderTail DEF OrderInv, Ordered, QueuesInOrder, StagesInOrder, Addressed
<1>5. Held(down[t]) = {h} \cup Held(down'[t]) /\ Below({h}, Held(down'[t]))
  BY <1>2, <1>3, <1>4, OrderTail
<1> HIDE DEF h
<1>6. \A u \in Terms : AtTermd(u)' = AtTermd(u)
  BY <1>2 DEF AtTermd, Delivering, ToTermd, Upstream, ToLocator, AtGateway, Forwarding, InSockets,
              Queued, Routing, Stray
<1>7. \A u \in Terms \ {t} : Coming(u)' = Coming(u)
  BY <1>2, <1>6 DEF Coming
<1>8. Coming(t) = {h} \cup Coming(t)' /\ Below({h}, Coming(t)')
  BY <1>4, <1>5, <1>6 DEF Coming, Below
<1>9. h \notin Coming(t)'
  <2>1. ~(h < h)
    BY <1>3 DEF Cmds
  <2> QED BY <1>8, <2>1 DEF Below
<1>10. h \in Lines[t] /\ \A m \in Lines[t] : h <= m
  <2>1. h \in Line(t)
    BY <1>4, <1>8 DEF Line
  <2>2. ASSUME NEW m \in Line(t) PROVE h <= m
    <3>1. m \in Coming(t)
      BY DEF Line
    <3>2. m = h \/ h < m
      BY <1>8, <3>1 DEF Below
    <3>3. h \in Int
      BY <1>3 DEF Cmds
    <3>4. m \in Int
      <4>1. m \in DOMAIN log
        BY <3>1 DEF OrderInv, Ordered, Addressed, Coming, AtTermd, ToTermd, Delivering
      <4>2. log \in Seq(Terms \cup Strangers)
        BY DEF OrderInv, PathInv, TypeOK
      <4>3. DOMAIN log = 1..Len(log)
        BY <4>2, LenProperties
      <4> QED BY <4>1, <4>3
    <3> QED BY <3>2, <3>3, <3>4
  <2> QED BY <2>1, <2>2 DEF Lines
<1>11. Lines' = [Lines EXCEPT ![t] = @ \ {h}]
  <2>1. Line(t)' = Line(t) \ {h}
    BY <1>2, <1>8, <1>9 DEF Line
  <2>2. \A u \in Terms \ {t} : Line(u)' = Line(u)
    BY <1>2, <1>7 DEF Line
  <2> QED BY <2>1, <2>2 DEF Lines
<1> QED BY <1>2, <1>10, <1>11 DEF Delivery!Show, Lines

LEMMA SendStep ==
  ASSUME OrderInv, NEW to \in Terms \cup Strangers, SendLock(to)
  PROVE  Delivery!Send(to)
<1>1. log \in Seq(Terms \cup Strangers) /\ log' = Append(log, to) /\ UNCHANGED shown
  BY DEF OrderInv, PathInv, TypeOK, SendLock
<1> DEFINE n == Len(log) + 1
<1>2. PICK new \in SUBSET {n} : \A t \in Terms : Coming(t)' = Coming(t) \cup new
  BY SendLockOrdered DEF OrderInv
<1>3. log'[n] = to /\ \A k \in DOMAIN log : log'[k] = log[k]
  BY <1>1, AppendProperties, LenProperties
<1>4. \A t \in Terms : Coming(t) \subseteq DOMAIN log
  BY DEF OrderInv, Ordered, Addressed, Coming, AtTermd, ToTermd, Delivering
<1> HIDE DEF n
<1>5. ASSUME NEW t \in Terms
      PROVE  Line(t)' = IF t = to /\ new = {n} THEN Line(t) \cup {n} ELSE Line(t)
  <2>1. Coming(t)' = Coming(t) \cup new
    BY <1>2
  <2>2. Line(t)' = {k \in Coming(t) : log[k] = t} \cup {k \in new : to = t}
    BY <1>2, <1>3, <1>4, <2>1 DEF Line
  <2>3. new = {} \/ new = {n}
    BY <1>2
  <2> QED BY <2>2, <2>3 DEF Line
<1>6. CASE new = {n}
  <2>1. Lines' = [t \in Terms |-> IF t = to THEN Lines[t] \cup {n} ELSE Lines[t]]
    BY <1>5, <1>6 DEF Lines
  <2> QED BY <1>1, <2>1 DEF Delivery!Send, Lines, n
<1>7. CASE new = {}
  <2>1. Lines' = Lines
    BY <1>5, <1>7 DEF Lines
  <2> QED BY <1>1, <2>1 DEF Delivery!Send, Lines
<1> QED BY <1>2, <1>6, <1>7

LEMMA LoseStep ==
  ASSUME NothingBack, UNCHANGED <<log, shown>>
  PROVE  Delivery!Lose
<1>1. \A t \in Terms : Line(t)' \subseteq Line(t)
  BY DEF NothingBack, Line
<1>2. \A t \in Terms : Lines'[t] \subseteq Lines[t]
  BY <1>1 DEF Lines
<1> QED BY <1>2 DEF Delivery!Lose, Lines

LEMMA DeliveryStep == OrderInv /\ [Next]_vars => [Delivery!Next]_(Delivery!vars)
<1> SUFFICES ASSUME OrderInv, [Next]_vars PROVE [Delivery!Next]_(Delivery!vars)
  OBVIOUS
<1>1. ASSUME NEW to \in Terms \cup Strangers, SendLock(to) PROVE Delivery!Next
  BY <1>1, SendStep DEF Delivery!Next
<1>2. ASSUME NEW t \in Terms, TerminalRead(t) PROVE Delivery!Next
  BY <1>2, ShowStep DEF Delivery!Next
<1>3. ASSUME Work \/ Gui \/ Faults \/ UNCHANGED vars, ~\E t \in Terms : TerminalRead(t)
      PROVE  Delivery!Next
  <2>1. NothingBack
    BY <1>3, OrderStepOn
  <2>2. UNCHANGED <<log, shown>>
    <3>1. CASE Work
      BY <3>1
      DEF Work, Gateway, Locator, Termd, Recv, GatewayIdle, GatewayForward, GatewayRespond,
          LocatorRoute, TermdDeliver, TermdAck, TermdIdle, ReportUp, ReportDown, user
    <3>2. CASE Gui
      BY <1>3, <3>2 DEF Gui, MaintRead, Connect, PeerClose, PeerNotice, user
    <3>3. CASE Faults
      BY <3>3 DEF Faults, Start, Ready, InitFail, Kill, user
    <3>4. CASE UNCHANGED vars
      BY <3>4 DEF vars, user
    <3> QED BY <1>3, <3>1, <3>2, <3>3, <3>4
  <2> QED BY <2>1, <2>2, LoseStep DEF Delivery!Next
<1> QED BY <1>1, <1>2, <1>3 DEF Next, Operator

(* CommandPath implements OrderedDelivery: every step of gateway, locator,  *)
(* termds, sockets and GUIs, kills and restarts included, is a step of      *)
(* lossy lines that never reorder, repeat, invent or misdirect a command.   *)
THEOREM PathImplementsDelivery ==
  /\ Spec => ImplementsOrderedDelivery
  /\ SpecSupervised => ImplementsOrderedDelivery
<1>1. Init \/ Started(Procs, Servers) => OrderInv /\ Delivery!Init
  <2>1. ASSUME OrderInv, log = <<>>, shown = [t \in Terms |-> <<>>],
               \A t \in Terms : Coming(t) = {}
        PROVE  Delivery!Init
    <3>1. \A t \in Terms : Line(t) = {}
      BY <2>1 DEF Line
    <3> QED BY <2>1, <3>1 DEF Delivery!Init
  <2>2. Init \/ Started(Procs, Servers) => shown = [t \in Terms |-> <<>>]
    BY DEF Init, Started
  <2> QED BY <2>1, <2>2, StartedOrder DEF Init
<1>2. Spec => ImplementsOrderedDelivery
  BY <1>1, OrderStep, DeliveryStep, PTL DEF Spec, ImplementsOrderedDelivery, Delivery!Spec
<1>3. SpecSupervised => ImplementsOrderedDelivery
  <2>1. SpecUp => ImplementsOrderedDelivery
    BY <1>1, OrderStep, DeliveryStep, PTL DEF SpecUp, ImplementsOrderedDelivery, Delivery!Spec
  <2> QED BY <2>1, PTL DEF SpecSupervised
<1> QED BY <1>2, <1>3
=============================================================================
