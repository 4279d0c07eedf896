---------------------------- MODULE FramingProofs ----------------------------
(***************************************************************************)
(* Proofs about Framing, for any byte values, sizes and streams.           *)
(***************************************************************************)
EXTENDS Framing, WellFoundedInduction, TLAPS

-----------------------------------------------------------------------------
(* Sequences.                                                               *)

(* A part of a sequence has its type and, taken from the front or the back, *)
(* the length one expects.                                                  *)
LEMMA FrontType ==
  ASSUME NEW S, NEW s \in Seq(S), NEW n \in 0..Len(s)
  PROVE  /\ SubSeq(s, 1, n) \in Seq(S)
         /\ Len(SubSeq(s, 1, n)) = n
         /\ \A i \in 1..n : SubSeq(s, 1, n)[i] = s[i]
OBVIOUS

LEMMA BackType ==
  ASSUME NEW S, NEW s \in Seq(S), NEW n \in 0..Len(s)
  PROVE  /\ SubSeq(s, n + 1, Len(s)) \in Seq(S)
         /\ Len(SubSeq(s, n + 1, Len(s))) = Len(s) - n
         /\ \A i \in 1..(Len(s) - n) : SubSeq(s, n + 1, Len(s))[i] = s[n + i]
OBVIOUS

(* The messages next() gives out lie inside the buffer, and are no longer   *)
(* than a chunk of it that holds a header.                                  *)
LEMMA ExtentInside ==
  ASSUME NEW data \in Seq(Byte), HasMessage(data)
  PROVE  /\ Extent(data) \in 0..Len(data)
         /\ Length(data) \in Nat
         /\ HeaderLen <= Extent(data)
<1>1. Len(data) \in Nat /\ HeaderLen \in Nat /\ 2 <= HeaderLen /\ HeaderLen <= Len(data)
  BY FramingAssumption DEF HasMessage
<1>2. data[2] \in Nat
  <2>1. 2 \in 1..Len(data)
    BY <1>1
  <2>2. data[2] \in Byte
    BY <2>1
  <2> QED BY <2>2, FramingAssumption
<1>3. CASE InRange(Length(data))
  <2>1. Length(data) <= Len(data) /\ HeaderLen <= Length(data)
    BY <1>3 DEF HasMessage, InRange
  <2>2. Extent(data) = Length(data) /\ Length(data) \in Nat
    BY <1>2, <1>3 DEF Extent, Length
  <2> QED BY <1>1, <2>1, <2>2
<1>4. CASE ~InRange(Length(data))
  <2>1. Extent(data) = Len(data) /\ Length(data) \in Nat
    BY <1>2, <1>4 DEF Extent, Length
  <2> QED BY <1>1, <2>1
<1> QED BY <1>3, <1>4

LEMMA MessageType ==
  ASSUME NEW data \in Seq(Byte), HasMessage(data)
  PROVE  /\ Message(data) \in Seq(Byte)
         /\ Len(Message(data)) = Extent(data)
         /\ Message(data)[1] = data[1]
         /\ Length(Message(data)) = Length(data)
<1>1. Extent(data) \in 0..Len(data) /\ HeaderLen <= Extent(data)
  BY ExtentInside
<1>2. 1 \in 1..Extent(data) /\ 2 \in 1..Extent(data)
  BY <1>1, FramingAssumption
<1> QED BY <1>1, <1>2, FrontType DEF Message, Length

LEMMA VerdictType ==
  ASSUME NEW buf
  PROVE  /\ Verdict(buf) \in Verdicts
         /\ Verdict(buf) # "stream" => HeaderOk(buf)
BY DEF Verdict, Verdicts, MessageOk

-----------------------------------------------------------------------------
LEMMA SockType ==
  ASSUME NEW sock \in Sock, NEW b \in Byte
  PROVE  /\ Wrote(sock, b) \in Sock /\ Closed(sock) \in Sock /\ Reset \in Sock
         /\ [open |-> TRUE, unread |-> <<>>] \in Sock
         /\ sock.unread \in Seq(Byte)
BY DEF Sock, Wrote, Closed, Reset

(* The frame of the message at the front of the buffer.                     *)
LEMMA FrameType ==
  ASSUME TypeOK, Consumed >= 0, HasMessage(rx)
  PROVE  /\ FrameOf(rx) \in Frame
         /\ FrameOf(rx).at = Consumed
         /\ FrameOf(rx).len = Extent(rx)
         /\ FrameOf(rx).verdict = Verdict(Message(rx))
<1>1. Extent(rx) \in 0..Len(rx) /\ Verdict(Message(rx)) \in Verdicts
  BY ExtentInside, VerdictType DEF TypeOK
<1>2. Len(got) - Len(rx) \in Nat
  BY DEF Consumed, TypeOK
<1> QED BY <1>1, <1>2 DEF FrameOf, Frame, Consumed

(* The typing of every action.                                              *)
LEMMA Typing == TypeOK /\ Consumed >= 0 /\ [Next]_vars => TypeOK'
<1> SUFFICES ASSUME TypeOK, Consumed >= 0, [Next]_vars PROVE TypeOK'
  OBVIOUS
<1>1. CASE Connect
  <2>1. [open |-> TRUE, unread |-> <<>>] \in Sock
    BY DEF Sock
  <2>2. pend' \in Seq(Sock) /\ conns' \in 0..MaxConns
    BY <1>1, <2>1, FramingAssumption DEF Connect, TypeOK
  <2>3. UNCHANGED <<client, rx, pc, got, frames, written>>
    BY <1>1 DEF Connect
  <2> QED BY <2>2, <2>3 DEF TypeOK
<1>2. CASE PeerWrite
  <2>1. written' \in 0..MaxBytes
    BY <1>2, FramingAssumption DEF PeerWrite, TypeOK
  <2>2. /\ pend' \in Seq(Sock)
        /\ client' # <<>> => client' = <<client'[1]>> /\ client'[1] \in Sock
    <3>1. PICK b \in Byte :
            \/ /\ client # <<>> /\ client[1].open
               /\ client' = <<Wrote(client[1], b)>>
               /\ UNCHANGED pend
            \/ \E i \in DOMAIN pend :
                 /\ pend[i].open
                 /\ pend' = [pend EXCEPT ![i] = Wrote(pend[i], b)]
                 /\ UNCHANGED client
      BY <1>2 DEF PeerWrite
    <3>2. CASE client # <<>> /\ client' = <<Wrote(client[1], b)>> /\ UNCHANGED pend
      <4>1. client[1] \in Sock
        BY <3>2 DEF TypeOK
      <4>2. Wrote(client[1], b) \in Sock
        BY <4>1, SockType
      <4> QED BY <3>2, <4>2 DEF TypeOK
    <3>3. ASSUME NEW i \in DOMAIN pend,
                 pend' = [pend EXCEPT ![i] = Wrote(pend[i], b)], UNCHANGED client
          PROVE  <2>2!1 /\ <2>2!2
      <4>1. pend[i] \in Sock
        BY DEF TypeOK
      <4>2. Wrote(pend[i], b) \in Sock
        BY <4>1, SockType
      <4> QED BY <3>3, <4>2 DEF TypeOK
    <3> QED BY <3>1, <3>2, <3>3
  <2>3. UNCHANGED <<rx, pc, got, frames, conns>>
    BY <1>2 DEF PeerWrite
  <2> QED BY <2>1, <2>2, <2>3 DEF TypeOK
<1>3. CASE PeerClose
  <2>1. ASSUME NEW sock \in Sock PROVE Closed(sock) \in Sock /\ Reset \in Sock
    BY DEF Sock, Closed, Reset
  <2>2. /\ pend' \in Seq(Sock)
        /\ client' # <<>> => client' = <<client'[1]>> /\ client'[1] \in Sock
    <3>1. CASE client # <<>> /\ client' \in {<<Closed(client[1])>>, <<Reset>>} /\ UNCHANGED pend
      <4>1. client[1] \in Sock
        BY <3>1 DEF TypeOK
      <4> QED BY <2>1, <3>1, <4>1 DEF TypeOK
    <3>2. ASSUME NEW i \in DOMAIN pend, NEW sock \in {Closed(pend[i]), Reset},
                 pend' = [pend EXCEPT ![i] = sock], UNCHANGED client
          PROVE  <2>2!1 /\ <2>2!2
      <4>1. pend[i] \in Sock
        BY DEF TypeOK
      <4>2. sock \in Sock
        BY <2>1, <4>1
      <4> QED BY <3>2, <4>2 DEF TypeOK
    <3> QED BY <1>3, <3>1, <3>2 DEF PeerClose
  <2>3. UNCHANGED <<rx, pc, got, frames, written, conns>>
    BY <1>3 DEF PeerClose
  <2> QED BY <2>2, <2>3 DEF TypeOK
<1>4. CASE Accept
  <2>1. pend # <<>> => Head(pend) \in Sock /\ Tail(pend) \in Seq(Sock)
    BY DEF TypeOK
  <2>2. CASE pend = <<>>
    BY <1>4, <2>2 DEF Accept, TypeOK
  <2>3. CASE pend # <<>>
    <3>1. client' = <<Head(pend)>> /\ pend' = Tail(pend) /\ rx' = <<>>
          /\ got' = <<>> /\ frames' = {} /\ pc' = "read"
          /\ written' = written /\ conns' = conns
      BY <1>4, <2>3 DEF Accept
    <3>2. client' = <<client'[1]>> /\ client'[1] \in Sock
      BY <2>1, <2>3, <3>1
    <3> QED BY <2>1, <2>3, <3>1, <3>2 DEF TypeOK
  <2> QED BY <2>2, <2>3
<1>5. CASE Read
  <2>1. client[1] \in Sock
    BY <1>5 DEF Read, TypeOK
  <2>2. PICK n \in Chunks(client[1].unread) :
          /\ rx' = rx \o SubSeq(client[1].unread, 1, n)
          /\ got' = got \o SubSeq(client[1].unread, 1, n)
          /\ client' = <<[open |-> client[1].open,
                          unread |-> SubSeq(client[1].unread, n + 1, Len(client[1].unread))]>>
    BY <1>5 DEF Read
  <2>3. client[1].unread \in Seq(Byte) /\ n \in 0..Len(client[1].unread)
    BY <2>1, FramingAssumption DEF Sock, Chunks
  <2>4. /\ SubSeq(client[1].unread, 1, n) \in Seq(Byte)
        /\ SubSeq(client[1].unread, n + 1, Len(client[1].unread)) \in Seq(Byte)
    BY <2>3, FrontType, BackType
  <2>5. rx' \in Seq(Byte) /\ got' \in Seq(Byte)
    BY <2>2, <2>4 DEF TypeOK
  <2>6. client' = <<client'[1]>> /\ client'[1] \in Sock
    BY <2>1, <2>2, <2>4 DEF Sock
  <2>7. pc' = "drain" /\ UNCHANGED <<pend, frames, written, conns>>
    BY <1>5 DEF Read
  <2> QED BY <2>5, <2>6, <2>7 DEF TypeOK
<1>6. CASE ReadNothing
  BY <1>6 DEF ReadNothing, TypeOK
<1>7. CASE ReadGone
  BY <1>7 DEF ReadGone, TypeOK
<1>8. CASE DrainMessage
  <2>1. rx' = <<>> \/ rx' = Consume(rx, Extent(rx))
    BY <1>8 DEF DrainMessage
  <2>2. Extent(rx) \in 0..Len(rx)
    BY <1>8, ExtentInside DEF DrainMessage, TypeOK
  <2>3. Consume(rx, Extent(rx)) \in Seq(Byte)
    BY <2>2, BackType DEF TypeOK, Consume
  <2>4. rx' \in Seq(Byte)
    <3>1. <<>> \in Seq(Byte)
      OBVIOUS
    <3> QED BY <2>1, <2>3, <3>1, Zenon
  <2>5. pc' = "loop" \/ pc' = pc
    BY <1>8 DEF DrainMessage
  <2>6. client' = <<>> \/ client' = client
    BY <1>8 DEF DrainMessage
  <2>7. client' # <<>> => client' = <<client'[1]>> /\ client'[1] \in Sock
    BY <2>6 DEF TypeOK
  <2>8. FrameOf(rx) \in Frame
    BY <1>8, FrameType DEF DrainMessage
  <2>9. frames' \subseteq Frame
    BY <1>8, <2>8 DEF DrainMessage, TypeOK
  <2>10. UNCHANGED <<pend, got, written, conns>>
    BY <1>8 DEF DrainMessage
  <2> QED BY <2>4, <2>5, <2>7, <2>9, <2>10 DEF TypeOK
<1>9. CASE DrainEnd
  BY <1>9 DEF DrainEnd, TypeOK
<1>10. CASE SendFails
  BY <1>10 DEF SendFails, TypeOK
<1>11. CASE UNCHANGED vars
  BY <1>11 DEF vars, TypeOK
<1> QED
  BY <1>1, <1>2, <1>3, <1>4, <1>5, <1>6, <1>7, <1>8, <1>9, <1>10, <1>11
  DEF Next, Peers, Receiver

-----------------------------------------------------------------------------
(* The inductive invariant.  To the properties it adds that only a standing *)
(* connection is drained, and that what the messages of a standing          *)
(* connection are made of lies before the buffered bytes.                   *)
FramesBehind ==
  client # <<>> => \A f \in frames : f.at + f.len <= Consumed

IInv ==
  /\ TypeOK
  /\ BufferIsOfThisConnection
  /\ BufferIsBounded
  /\ DesyncEndsConnection
  /\ EveryByteInOneMessage
  /\ FramesBehind
  /\ pc = "drain" => client # <<>>

LEMMA InitInv == Init => IInv
BY FramingAssumption
   DEF Init, IInv, TypeOK, BufferIsOfThisConnection, BufferIsBounded, DesyncEndsConnection,
       EveryByteInOneMessage, FramesBehind, Consumed

(* A step that leaves the bytes and the messages alone.                     *)
LEMMA QuietStep ==
  ASSUME IInv, TypeOK', UNCHANGED <<rx, got, frames>>,
         client' # <<>> => client # <<>>,
         pc' = "drain" => client' # <<>>,
         pc' # "drain" => Len(rx) < MaxLen
  PROVE  IInv'
<1>1. Consumed' = Consumed
  BY DEF Consumed
<1>2. BufferIsOfThisConnection'
  BY <1>1 DEF IInv, BufferIsOfThisConnection
<1>3. BufferIsBounded'
  BY DEF IInv, BufferIsBounded
<1>4. DesyncEndsConnection'
  BY DEF IInv, DesyncEndsConnection
<1>5. EveryByteInOneMessage'
  BY <1>1 DEF IInv, EveryByteInOneMessage, GoodHeader
<1>6. FramesBehind'
  BY <1>1 DEF IInv, FramesBehind
<1> QED BY <1>2, <1>3, <1>4, <1>5, <1>6 DEF IInv

(* A new connection starts with nothing.                                    *)
LEMMA FreshStep ==
  ASSUME TypeOK', rx' = <<>>, got' = <<>>, frames' = {}, pc' # "drain"
  PROVE  IInv'
<1>1. Len(rx') = 0 /\ Consumed' = 0
  BY DEF Consumed
<1>2. BufferIsOfThisConnection'
  BY <1>1 DEF BufferIsOfThisConnection
<1>3. BufferIsBounded'
  BY <1>1, FramingAssumption DEF BufferIsBounded
<1>4. DesyncEndsConnection' /\ EveryByteInOneMessage' /\ FramesBehind'
  BY <1>1 DEF DesyncEndsConnection, EveryByteInOneMessage, FramesBehind
<1> QED BY <1>2, <1>3, <1>4 DEF IInv

(* The connection goes and its buffer with it.                              *)
LEMMA GoneStep ==
  ASSUME IInv, TypeOK', rx' = <<>>, client' = <<>>, UNCHANGED <<got, frames>>, pc' # "drain",
         client # <<>>
  PROVE  IInv'
<1>1. Len(rx') = 0
  OBVIOUS
<1>2. Consumed' >= 0
  BY <1>1 DEF Consumed, TypeOK
<1>3. BufferIsOfThisConnection'
  BY <1>1, <1>2 DEF BufferIsOfThisConnection
<1>4. BufferIsBounded'
  BY <1>1, FramingAssumption DEF BufferIsBounded
<1>5. DesyncEndsConnection'
  BY DEF DesyncEndsConnection, IInv
<1>6. EveryByteInOneMessage' /\ FramesBehind'
  BY DEF EveryByteInOneMessage, FramesBehind
<1> QED BY <1>3, <1>4, <1>5, <1>6 DEF IInv

(* A read appends the same bytes to the buffer and to the stream.           *)
LEMMA ReadStep == IInv /\ Read /\ TypeOK' => IInv'
<1> SUFFICES ASSUME IInv, Read, TypeOK' PROVE IInv'
  OBVIOUS
<1>1. PICK n \in Chunks(client[1].unread) :
        /\ rx' = rx \o SubSeq(client[1].unread, 1, n)
        /\ got' = got \o SubSeq(client[1].unread, 1, n)
  BY DEF Read
<1>2. client # <<>> /\ client' # <<>> /\ pc = "read" /\ pc' = "drain" /\ frames' = frames
  BY DEF Read
<1>3. client[1].unread \in Seq(Byte)
  BY <1>2 DEF IInv, TypeOK, Sock
<1> DEFINE chunk == SubSeq(client[1].unread, 1, n)
<1>4. n \in 0..Len(client[1].unread) /\ n <= ChunkLen
  BY <1>1, FramingAssumption DEF Chunks
<1>5. chunk \in Seq(Byte) /\ Len(chunk) = n /\ Len(chunk) \in Nat
  BY <1>3, <1>4, FrontType
<1>6. rx' = rx \o chunk /\ got' = got \o chunk
  BY <1>1
<1> HIDE DEF chunk
<1>7. rx \in Seq(Byte) /\ got \in Seq(Byte) /\ Len(rx) \in Nat /\ Len(got) \in Nat
  BY DEF IInv, TypeOK
<1>8. /\ Len(rx') = Len(rx) + n /\ Len(got') = Len(got) + n
      /\ \A i \in 1..Len(rx) : rx'[i] = rx[i]
      /\ \A i \in 1..n : rx'[Len(rx) + i] = chunk[i]
      /\ \A i \in 1..Len(got) : got'[i] = got[i]
      /\ \A i \in 1..n : got'[Len(got) + i] = chunk[i]
  <2>1. ASSUME NEW s \in Seq(Byte)
        PROVE  /\ Len(s \o chunk) = Len(s) + n
               /\ \A i \in 1..Len(s) : (s \o chunk)[i] = s[i]
               /\ \A i \in 1..n : (s \o chunk)[Len(s) + i] = chunk[i]
    <3>1. /\ Len(s \o chunk) = Len(s) + Len(chunk)
          /\ \A i \in 1..Len(s) : (s \o chunk)[i] = s[i]
          /\ \A i \in 1..Len(chunk) : (s \o chunk)[Len(s) + i] = chunk[i]
      BY <1>5
    <3> QED BY <1>5, <3>1
  <2>2. /\ Len(rx \o chunk) = Len(rx) + n
        /\ \A i \in 1..Len(rx) : (rx \o chunk)[i] = rx[i]
        /\ \A i \in 1..n : (rx \o chunk)[Len(rx) + i] = chunk[i]
    BY <1>7, <2>1
  <2>3. /\ Len(got \o chunk) = Len(got) + n
        /\ \A i \in 1..Len(got) : (got \o chunk)[i] = got[i]
        /\ \A i \in 1..n : (got \o chunk)[Len(got) + i] = chunk[i]
    BY <1>7, <2>1
  <2> QED BY <1>6, <2>2, <2>3
<1>9. Consumed' = Consumed /\ Consumed \in Nat /\ Len(got) = Consumed + Len(rx)
  BY <1>4, <1>7, <1>8 DEF Consumed, IInv, BufferIsOfThisConnection
<1>10. BufferIsOfThisConnection'
  <2>1. ASSUME NEW i \in 1..Len(rx') PROVE rx'[i] = got'[Consumed + i]
    <3>1. CASE i <= Len(rx)
      <4>1. i \in 1..Len(rx) /\ Consumed + i \in 1..Len(got)
        BY <1>7, <1>8, <1>9, <3>1
      <4>2. rx[i] = got[Consumed + i]
        BY <4>1 DEF IInv, BufferIsOfThisConnection
      <4> QED BY <4>1, <4>2, <1>8
    <3>2. CASE i > Len(rx)
      <4>1. PICK j \in 1..n : i = Len(rx) + j
        <5>1. i - Len(rx) \in 1..n /\ i = Len(rx) + (i - Len(rx))
          BY <1>4, <1>7, <1>8, <3>2
        <5> QED BY <5>1
      <4>2. Consumed + i = Len(got) + j
        BY <1>7, <1>9, <4>1
      <4> QED BY <4>1, <4>2, <1>8
    <3> QED BY <1>7, <1>8, <3>1, <3>2
  <2> QED BY <1>9, <2>1 DEF BufferIsOfThisConnection
<1>11. BufferIsBounded'
  <2>1. Len(rx) < MaxLen
    BY <1>2 DEF BufferIsBounded, IInv
  <2>2. MaxLen \in Nat /\ ChunkLen \in Nat /\ n \in Nat
    BY <1>4, FramingAssumption
  <2>3. Len(rx') < MaxLen + ChunkLen
    BY <1>4, <1>7, <1>8, <2>1, <2>2
  <2> QED BY <1>2, <2>3 DEF BufferIsBounded
<1>12. DesyncEndsConnection'
  BY <1>2 DEF DesyncEndsConnection, IInv
<1>13. EveryByteInOneMessage'
  <2>1. ASSUME NEW f \in frames PROVE GoodHeader(got', f.at) /\ f.len = got'[f.at + 2]
    <3>1. GoodHeader(got, f.at) /\ f.len = got[f.at + 2] /\ f.at \in Nat /\ f.len \in Nat
          /\ f.at + f.len <= Consumed
      BY <1>2 DEF IInv, EveryByteInOneMessage, FramesBehind, TypeOK, Frame
    <3>2. f.len >= 2
      BY <3>1, FramingAssumption DEF GoodHeader
    <3>3. f.at + 1 \in 1..Len(got) /\ f.at + 2 \in 1..Len(got)
      BY <1>7, <1>9, <3>1, <3>2
    <3>4. got'[f.at + 1] = got[f.at + 1] /\ got'[f.at + 2] = got[f.at + 2]
      BY <1>8, <3>3
    <3> QED BY <3>1, <3>4 DEF GoodHeader
  <2> QED BY <1>2, <1>9, <2>1 DEF EveryByteInOneMessage, IInv
<1>14. FramesBehind'
  BY <1>2, <1>9 DEF FramesBehind, IInv
<1> QED BY <1>2, <1>10, <1>11, <1>12, <1>13, <1>14 DEF IInv

(* The message at the front is taken out.  Its header stands in the stream  *)
(* where the bytes consumed so far end.                                     *)
LEMMA FrontFrame ==
  ASSUME IInv, HasMessage(rx), client # <<>>
  PROVE  LET f == FrameOf(rx)
         IN  /\ f.at = Consumed /\ f.at \in Nat /\ f.len \in Nat
             /\ f.len >= HeaderLen /\ f.at + f.len <= Len(got)
             /\ f.len = Extent(rx)
             /\ f.verdict # "stream" => GoodHeader(got, f.at) /\ f.len = got[f.at + 2]
<1>1. /\ TypeOK /\ Consumed >= 0 /\ rx \in Seq(Byte) /\ got \in Seq(Byte)
      /\ Len(rx) \in Nat /\ Len(got) \in Nat
  BY DEF IInv, TypeOK, BufferIsOfThisConnection
<1>2. Len(got) = Consumed + Len(rx) /\ Consumed \in Nat
  BY <1>1 DEF Consumed
<1>3. Extent(rx) \in 0..Len(rx) /\ HeaderLen <= Extent(rx)
  BY <1>1, ExtentInside
<1>4. /\ FrameOf(rx).at = Consumed /\ FrameOf(rx).len = Extent(rx)
      /\ FrameOf(rx).verdict = Verdict(Message(rx))
  BY <1>1, FrameType
<1>5. ASSUME Verdict(Message(rx)) # "stream"
      PROVE  GoodHeader(got, Consumed) /\ Extent(rx) = got[Consumed + 2]
  <2>1. HeaderOk(Message(rx))
    BY <1>5, VerdictType
  <2>2. Message(rx)[1] = rx[1] /\ Length(Message(rx)) = Length(rx)
    BY <1>1, MessageType
  <2>3. rx[1] \in Known /\ InRange(Length(rx))
    BY <2>1, <2>2 DEF HeaderOk
  <2>4. 1 \in 1..Len(rx) /\ 2 \in 1..Len(rx)
    BY <1>1, <1>3, FramingAssumption
  <2>5. rx[1] = got[Consumed + 1] /\ rx[2] = got[Consumed + 2]
    BY <2>4 DEF IInv, BufferIsOfThisConnection
  <2>6. Length(rx) \in Nat
    BY <1>1, ExtentInside
  <2>7. Extent(rx) = got[Consumed + 2]
    BY <2>3, <2>5 DEF Extent, Length
  <2>8. got[Consumed + 2] \in HeaderLen..MaxLen
    BY <2>3, <2>5, <2>6, FramingAssumption DEF InRange, Length
  <2> QED BY <2>3, <2>5, <2>7, <2>8 DEF GoodHeader
<1>6. HeaderLen \in Nat
  BY FramingAssumption
<1> QED BY <1>2, <1>3, <1>4, <1>5, <1>6

(* Taking one message out, the connection stands.                           *)
LEMMA DrainGood ==
  ASSUME IInv, DrainMessage, TypeOK', Verdict(Message(rx)) # "stream"
  PROVE  IInv'
<1> DEFINE f == FrameOf(rx)
<1>1. /\ pc = "drain" /\ HasMessage(rx) /\ frames' = frames \cup {f}
      /\ rx' = Consume(rx, Extent(rx)) /\ client' = client /\ pc' = pc /\ got' = got
  BY DEF DrainMessage
<1>2. client # <<>>
  BY <1>1 DEF IInv
<1>3. /\ f.at = Consumed /\ f.at \in Nat /\ f.len \in Nat
      /\ f.len >= HeaderLen /\ f.at + f.len <= Len(got)
      /\ f.len = Extent(rx)
      /\ f.verdict # "stream" => GoodHeader(got, f.at) /\ f.len = got[f.at + 2]
  BY <1>1, <1>2, FrontFrame
<1>4. f.verdict # "stream"
  BY <1>1, FrameType DEF IInv, BufferIsOfThisConnection
<1> HIDE DEF f
<1>5. rx \in Seq(Byte) /\ got \in Seq(Byte) /\ Len(rx) \in Nat /\ Len(got) \in Nat
  BY DEF IInv, TypeOK
<1>6. Extent(rx) \in 0..Len(rx)
  BY <1>1, <1>5, ExtentInside
<1>7. /\ Len(rx') = Len(rx) - f.len
      /\ \A i \in 1..Len(rx') : rx'[i] = rx[f.len + i]
  BY <1>1, <1>3, <1>5, <1>6, BackType DEF Consume
<1>8. Consumed' = Consumed + f.len /\ Consumed \in Nat
      /\ Len(got) = Consumed + Len(rx)
  BY <1>1, <1>3, <1>5, <1>7 DEF Consumed
<1>9. BufferIsOfThisConnection'
  <2>1. ASSUME NEW i \in 1..Len(rx') PROVE rx'[i] = got[Consumed' + i]
    <3>1. f.len + i \in 1..Len(rx)
      BY <1>3, <1>5, <1>7
    <3>2. rx[f.len + i] = got[Consumed + (f.len + i)]
      BY <3>1 DEF IInv, BufferIsOfThisConnection
    <3>3. Consumed + (f.len + i) = Consumed' + i
      BY <1>3, <1>8, <2>1
    <3> QED BY <1>7, <3>2, <3>3
  <2>2. Consumed' >= 0
    BY <1>3, <1>8
  <2> QED BY <1>1, <2>1, <2>2 DEF BufferIsOfThisConnection
<1>10. BufferIsBounded'
  <2>1. Len(rx) < MaxLen + ChunkLen
    BY DEF IInv, BufferIsBounded
  <2>2. MaxLen \in Nat /\ ChunkLen \in Nat
    BY FramingAssumption
  <2>3. Len(rx') < MaxLen + ChunkLen
    BY <1>3, <1>5, <1>7, <2>1, <2>2
  <2> QED BY <1>1, <2>3 DEF BufferIsBounded
<1>11. DesyncEndsConnection'
  BY <1>1, <1>2, <1>4 DEF DesyncEndsConnection, IInv
<1>12. \A g \in frames : g.at \in Nat /\ g.len \in Nat /\ g.at + g.len <= Consumed
  BY <1>2 DEF IInv, TypeOK, Frame, FramesBehind
<1>13. EveryByteInOneMessage'
  <2>1. \A b \in 1..Consumed' : \E g \in frames' : g.at < b /\ b <= g.at + g.len
    <3>1. SUFFICES ASSUME NEW b \in 1..Consumed'
                   PROVE  \E g \in frames' : g.at < b /\ b <= g.at + g.len
      OBVIOUS
    <3>2. CASE b <= Consumed
      <4>1. b \in 1..Consumed
        BY <1>8, <3>2
      <4> QED BY <1>1, <1>2, <4>1 DEF IInv, EveryByteInOneMessage
    <3>3. CASE b > Consumed
      <4>1. f.at < b /\ b <= f.at + f.len
        BY <1>3, <1>8, <3>3
      <4> QED BY <1>1, <4>1
    <3> QED BY <1>3, <1>8, <3>2, <3>3
  <2>2. \A g, h \in frames' : g # h => g.at + g.len <= h.at \/ h.at + h.len <= g.at
    BY <1>1, <1>2, <1>3, <1>12 DEF IInv, EveryByteInOneMessage
  <2>3. \A g \in frames' : GoodHeader(got, g.at) /\ g.len = got[g.at + 2]
    BY <1>1, <1>2, <1>3, <1>4 DEF IInv, EveryByteInOneMessage
  <2> QED BY <1>1, <2>1, <2>2, <2>3 DEF EveryByteInOneMessage
<1>14. FramesBehind'
  <2>1. \A g \in frames' : g.at + g.len <= Consumed'
    BY <1>1, <1>3, <1>8, <1>12
  <2> QED BY <2>1 DEF FramesBehind
<1> QED BY <1>1, <1>2, <1>9, <1>10, <1>11, <1>13, <1>14 DEF IInv

(* A malformed header: the connection goes.                                 *)
LEMMA DrainBad ==
  ASSUME IInv, DrainMessage, TypeOK', Verdict(Message(rx)) = "stream"
  PROVE  IInv'
<1> DEFINE f == FrameOf(rx)
<1>1. /\ pc = "drain" /\ HasMessage(rx) /\ frames' = frames \cup {f}
      /\ rx' = <<>> /\ client' = <<>> /\ pc' = "loop" /\ got' = got
  BY DEF DrainMessage
<1>2. client # <<>>
  BY <1>1 DEF IInv
<1>3. f.at = Consumed /\ f.at \in Nat
  BY <1>1, <1>2, FrontFrame
<1> HIDE DEF f
<1>4. \A g \in frames : /\ g.verdict # "stream" /\ g.at \in Nat /\ g.len \in Nat
                        /\ g.at + g.len <= Consumed
  BY <1>2 DEF IInv, TypeOK, Frame, FramesBehind, DesyncEndsConnection
<1>5. \A g \in frames' : g.at <= f.at
  BY <1>1, <1>3, <1>4
<1>6. DesyncEndsConnection'
  <2>1. \A g \in frames' : g.verdict = "stream" => g = f
    BY <1>1, <1>4
  <2> QED BY <1>1, <1>5, <2>1 DEF DesyncEndsConnection
<1>7. Len(rx') = 0 /\ Len(got) \in Nat
  BY <1>1 DEF IInv, TypeOK
<1>8. BufferIsOfThisConnection'
  BY <1>1, <1>7 DEF BufferIsOfThisConnection, Consumed
<1>9. BufferIsBounded'
  BY <1>1, <1>7, FramingAssumption DEF BufferIsBounded
<1>10. EveryByteInOneMessage' /\ FramesBehind'
  BY <1>1 DEF EveryByteInOneMessage, FramesBehind
<1> QED BY <1>1, <1>6, <1>8, <1>9, <1>10 DEF IInv

LEMMA NextInv == IInv /\ [Next]_vars => IInv'
<1> SUFFICES ASSUME IInv, [Next]_vars PROVE IInv'
  OBVIOUS
<1>1. TypeOK'
  BY Typing DEF IInv, BufferIsOfThisConnection
<1>2. pc # "drain" => Len(rx) < MaxLen
  BY DEF IInv, BufferIsBounded
<1>3. CASE Connect \/ PeerWrite \/ PeerClose
  <2>1. UNCHANGED <<rx, got, frames, pc>>
    BY <1>3 DEF Connect, PeerWrite, PeerClose
  <2>2. client # <<>> <=> client' # <<>>
    BY <1>3 DEF Connect, PeerWrite, PeerClose
  <2> QED BY <1>1, <1>2, <2>1, <2>2, QuietStep DEF IInv
<1>4. CASE Accept
  <2>1. CASE pend = <<>>
    BY <1>1, <1>2, <1>4, <2>1, QuietStep DEF Accept
  <2>2. CASE pend # <<>>
    BY <1>1, <1>4, <2>2, FreshStep DEF Accept
  <2> QED BY <2>1, <2>2
<1>5. CASE Read
  BY <1>1, <1>5, ReadStep
<1>6. CASE ReadNothing
  BY <1>1, <1>2, <1>6, QuietStep DEF ReadNothing
<1>7. CASE ReadGone
  BY <1>1, <1>7, GoneStep DEF ReadGone
<1>8. CASE DrainMessage
  BY <1>1, <1>8, DrainGood, DrainBad
<1>9. CASE DrainEnd
  <2>1. Len(rx) < MaxLen
    <3>1. rx \in Seq(Byte) /\ Len(rx) \in Nat /\ HeaderLen \in Nat /\ MaxLen \in Nat
          /\ HeaderLen <= MaxLen /\ 2 <= HeaderLen
      BY FramingAssumption DEF IInv, TypeOK
    <3>2. CASE Len(rx) < HeaderLen
      BY <3>1, <3>2
    <3>3. CASE Len(rx) >= HeaderLen
      <4>1. InRange(Length(rx)) /\ ~(Len(rx) >= Length(rx))
        BY <1>9, <3>3 DEF DrainEnd, HasMessage
      <4>2. 2 \in 1..Len(rx)
        BY <3>1, <3>3
      <4>3. rx[2] \in Byte
        BY <3>1, <4>2
      <4>4. rx[2] \in Nat
        BY <4>3, FramingAssumption
      <4> QED BY <3>1, <4>1, <4>4 DEF InRange, Length
    <3> QED BY <3>1, <3>2, <3>3
  <2> QED BY <1>1, <1>9, <2>1, QuietStep DEF DrainEnd
<1>10. CASE SendFails
  BY <1>1, <1>2, <1>10, QuietStep DEF SendFails
<1>11. CASE UNCHANGED vars
  BY <1>1, <1>2, <1>11, QuietStep DEF vars, IInv
<1> QED
  BY <1>3, <1>4, <1>5, <1>6, <1>7, <1>8, <1>9, <1>10, <1>11 DEF Next, Peers, Receiver

-----------------------------------------------------------------------------
(* Always.                                                                  *)

LEMMA Invariance == Spec => []IInv
BY InitInv, NextInv, PTL DEF Spec

(* The types, with the offsets of the messages never negative.              *)
THEOREM FramingTypes == Spec => []TypeOK
<1>1. IInv => TypeOK
  BY DEF IInv
<1> QED BY <1>1, Invariance, PTL

(* The buffer never holds a byte of an older connection, and no byte of     *)
(* this one is lost from it or doubled (stream_buffer.cpp, on_idle).        *)
THEOREM OwnBytesOnly == Spec => []BufferIsOfThisConnection
<1>1. IInv => BufferIsOfThisConnection
  BY DEF IInv
<1> QED BY <1>1, Invariance, PTL

(* Every byte taken out belongs to exactly one message, whose header gives  *)
(* its length, wherever the reads cut the stream.                           *)
THEOREM Partitioned == Spec => []EveryByteInOneMessage
<1>1. IInv => EveryByteInOneMessage
  BY DEF IInv
<1> QED BY <1>1, Invariance, PTL

(* A malformed header is the last thing read from a connection.             *)
THEOREM DesyncEnds == Spec => []DesyncEndsConnection
<1>1. IInv => DesyncEndsConnection
  BY DEF IInv
<1> QED BY <1>1, Invariance, PTL

(* No length field makes the buffer grow past one message and one chunk.    *)
THEOREM Bounded == Spec => []BufferIsBounded
<1>1. IInv => BufferIsBounded
  BY DEF IInv
<1> QED BY <1>1, Invariance, PTL

-----------------------------------------------------------------------------
(* The recursion of Cut.                                                    *)

(* A set of naturals that is not empty has a least element.                 *)
LEMMA Least ==
  ASSUME NEW T, T \subseteq Nat, T # {}
  PROVE  \E x \in T : \A y \in T : x <= y
<1> DEFINE R == {ss \in Nat \X Nat : ss[1] < ss[2]}
<1>1. IsWellFoundedOn(R, Nat)
  BY NatLessThanWellFounded DEF OpToRel
<1>2. \A x, y \in Nat : <<y, x>> \in R <=> y < x
  OBVIOUS
<1> HIDE DEF R
<1>3. PICK x \in T : \A y \in T : ~(<<y, x>> \in R)
  BY <1>1, WFMin
<1>4. \A y \in T : ~(y < x)
  BY <1>2, <1>3
<1> QED BY <1>4

(* From offset at the cutting of s goes on behind a whole good message.     *)
GoesOn(s, at) == ~Incomplete(s, at) /\ GoodHeader(s, at)

KeepsGoing(s, A) == \A at \in A : GoesOn(s, at) => at + s[at + 2] \in A

(* The offsets at which it looks for a message when it begins at offset at. *)
LooksAt(s, at) ==
  {b \in 0..Len(s) : \A A \in SUBSET (0..Len(s)) : at \in A /\ KeepsGoing(s, A) => b \in A}

(* One turn of the recursion.                                               *)
Turn(s, c, at) ==
  IF Incomplete(s, at)
    THEN {}
    ELSE {<<at, VerdictAt(s, at)>>} \cup
         (IF GoodHeader(s, at) THEN c[at + s[at + 2]] ELSE {})

LEMMA NextInside ==
  ASSUME NEW s \in Seq(Nat), NEW at \in 0..Len(s), GoesOn(s, at)
  PROVE  at + s[at + 2] \in 0..Len(s) /\ at + s[at + 2] > at
<1>1. Len(s) \in Nat /\ HeaderLen \in Nat /\ 2 <= HeaderLen /\ MaxLen \in Nat
  BY FramingAssumption
<1>2. s[at + 2] \in HeaderLen..MaxLen /\ ~(at + s[at + 2] > Len(s))
  BY DEF GoesOn, Incomplete, GoodHeader
<1> QED BY <1>1, <1>2

LEMMA LooksOn ==
  ASSUME NEW s \in Seq(Nat), NEW at \in 0..Len(s)
  PROVE  LooksAt(s, at) =
           {at} \cup (IF GoesOn(s, at) THEN LooksAt(s, at + s[at + 2]) ELSE {})
<1> DEFINE D    == 0..Len(s)
           next == at + s[at + 2]
           rest == IF GoesOn(s, at) THEN LooksAt(s, next) ELSE {}
<1>1. \A b \in D : KeepsGoing(s, LooksAt(s, b))
  <2> SUFFICES ASSUME NEW b \in D, NEW x \in LooksAt(s, b), GoesOn(s, x)
               PROVE  x + s[x + 2] \in LooksAt(s, b)
    BY DEF KeepsGoing
  <2>1. x + s[x + 2] \in D
    BY NextInside DEF LooksAt
  <2>2. ASSUME NEW A \in SUBSET D, b \in A, KeepsGoing(s, A) PROVE x + s[x + 2] \in A
    <3>1. x \in A
      BY <2>2 DEF LooksAt
    <3> QED BY <2>2, <3>1 DEF KeepsGoing
  <2> QED BY <2>1, <2>2 DEF LooksAt
<1>2. at \in LooksAt(s, at)
  BY DEF LooksAt
<1>3. ASSUME GoesOn(s, at) PROVE next \in D /\ next \in LooksAt(s, next)
  BY <1>3, NextInside DEF LooksAt
<1>4. rest \subseteq LooksAt(s, at)
  <2> SUFFICES ASSUME GoesOn(s, at), NEW b \in LooksAt(s, next) PROVE b \in LooksAt(s, at)
    OBVIOUS
  <2>1. ASSUME NEW A \in SUBSET D, at \in A, KeepsGoing(s, A) PROVE b \in A
    <3>1. next \in A
      BY <2>1 DEF KeepsGoing
    <3> QED BY <2>1, <3>1 DEF LooksAt
  <2> QED BY <2>1 DEF LooksAt
<1>5. LooksAt(s, at) \subseteq {at} \cup rest
  <2>1. {at} \cup rest \in SUBSET D
    BY DEF LooksAt
  <2>2. KeepsGoing(s, {at} \cup rest)
    <3> SUFFICES ASSUME NEW x \in {at} \cup rest, GoesOn(s, x)
                 PROVE  x + s[x + 2] \in {at} \cup rest
      BY DEF KeepsGoing
    <3>1. CASE x = at
      BY <1>3, <3>1
    <3>2. CASE x # at
      <4>1. GoesOn(s, at) /\ x \in LooksAt(s, next) /\ next \in D
        BY <1>3, <3>2
      <4>2. x + s[x + 2] \in LooksAt(s, next)
        BY <1>1, <4>1 DEF KeepsGoing
      <4> QED BY <4>1, <4>2
    <3> QED BY <3>1, <3>2
  <2> DEFINE A == {at} \cup rest
  <2>3. A \in SUBSET D /\ at \in A /\ KeepsGoing(s, A)
    BY <2>1, <2>2
  <2> HIDE DEF A, rest
  <2>4. LooksAt(s, at) \subseteq A
    BY <2>3 DEF LooksAt
  <2> QED BY <2>4 DEF A
<1> HIDE DEF rest
<1>6. LooksAt(s, at) = {at} \cup rest
  BY <1>2, <1>4, <1>5
<1> QED BY <1>6 DEF rest

(* The recursion has a solution, and Cut is the value of one at offset 0.   *)
LEMMA CutRecursion ==
  ASSUME NEW s \in Seq(Nat)
  PROVE  \E c : /\ \A at \in 0..Len(s) : c[at] = Turn(s, c, at)
                /\ Cut(s) = c[0]
<1> DEFINE D == 0..Len(s)
           f == [at \in D |-> {<<b, VerdictAt(s, b)>> :
                                 b \in {x \in LooksAt(s, at) : ~Incomplete(s, x)}}]
           c == CHOOSE g : g = [at \in D |-> Turn(s, g, at)]
<1>1. \A at \in D : f[at] = Turn(s, f, at)
  <2> SUFFICES ASSUME NEW at \in D PROVE f[at] = Turn(s, f, at)
    OBVIOUS
  <2> DEFINE next == at + s[at + 2]
  <2>1. CASE Incomplete(s, at)
    <3>1. LooksAt(s, at) = {at}
      BY <2>1, LooksOn DEF GoesOn
    <3> QED BY <2>1, <3>1 DEF Turn
  <2>2. CASE ~Incomplete(s, at) /\ ~GoodHeader(s, at)
    <3>1. LooksAt(s, at) = {at}
      BY <2>2, LooksOn DEF GoesOn
    <3>2. f[at] = {<<at, VerdictAt(s, at)>>}
      BY <2>2, <3>1
    <3> QED BY <2>2, <3>2 DEF Turn
  <2>3. CASE GoesOn(s, at)
    <3>1. LooksAt(s, at) = {at} \cup LooksAt(s, next)
      BY <2>3, LooksOn
    <3>2. next \in D
      BY <2>3, NextInside
    <3>3. f[at] = {<<at, VerdictAt(s, at)>>} \cup f[next]
      BY <2>3, <3>1, <3>2 DEF GoesOn
    <3> QED BY <2>3, <3>3 DEF Turn, GoesOn
  <2> QED BY <2>1, <2>2, <2>3 DEF GoesOn
<1>2. f = [at \in D |-> Turn(s, f, at)]
  <2> DEFINE g == [at \in D |-> Turn(s, f, at)]
  <2>1. \A at \in D : f[at] = g[at]
    BY <1>1
  <2> QED BY <2>1
<1> HIDE DEF f
<1>3. c = [at \in D |-> Turn(s, c, at)]
  BY <1>2
<1>4. Cut(s) = c[0]
  BY DEF Cut, Turn
<1> HIDE DEF c
<1>5. \A at \in D : c[at] = Turn(s, c, at)
  BY <1>3
<1> QED BY <1>4, <1>5

(* Let frames say what was made of s up to where nothing more can be: each  *)
(* begins where the one before it ends, has its right length and verdict,   *)
(* and none is left out.  Then they are what Cut makes of s.                *)
Ends(F) == {0} \cup {f.at + f.len : f \in {g \in F : g.verdict # "stream"}}

FramesFit(s, F) ==
  \A f \in F : /\ f.at \in Ends(F)
               /\ ~Incomplete(s, f.at)
               /\ f.verdict = VerdictAt(s, f.at)
               /\ f.verdict # "stream" => f.len = s[f.at + 2]

NoneMissing(s, F) == \A e \in Ends(F) : Incomplete(s, e) \/ \E f \in F : f.at = e

(* Where such a message ends the cutting goes on.                           *)
LEMMA EndOf ==
  ASSUME NEW s \in Seq(Nat), NEW F \in SUBSET Frame, FramesFit(s, F), NEW f \in F
  PROVE  /\ f.at \in 0..Len(s)
         /\ f.verdict # "stream" <=> GoesOn(s, f.at)
         /\ f.verdict # "stream" => /\ f.at + f.len = f.at + s[f.at + 2]
                                    /\ f.at + f.len \in 0..Len(s)
                                    /\ f.at + f.len > f.at
                                    /\ f.at + f.len \in Ends(F)
<1>1. f.at \in Nat /\ ~Incomplete(s, f.at) /\ f.verdict = VerdictAt(s, f.at)
  BY DEF Frame, FramesFit
<1>2. f.at + HeaderLen <= Len(s) /\ HeaderLen \in Nat /\ Len(s) \in Nat
  <2>1. HeaderLen \in Nat /\ Len(s) \in Nat
    BY FramingAssumption
  <2>2. ~(f.at + HeaderLen > Len(s))
    BY <1>1 DEF Incomplete
  <2> QED BY ONLY <1>1, <2>1, <2>2
<1>3. f.at \in 0..Len(s)
  BY <1>1, <1>2
<1>4. f.verdict # "stream" <=> GoesOn(s, f.at)
  BY <1>1 DEF VerdictAt, GoesOn
<1>5. ASSUME f.verdict # "stream"
      PROVE  f.len = s[f.at + 2] /\ f.at + f.len \in Ends(F)
  BY <1>5 DEF FramesFit, Ends
<1> QED BY <1>3, <1>4, <1>5, NextInside

LEMMA EndsInside ==
  ASSUME NEW s \in Seq(Nat), NEW F \in SUBSET Frame, FramesFit(s, F)
  PROVE  Ends(F) \subseteq 0..Len(s)
BY EndOf DEF Ends

LEMMA FramesAreTheCut ==
  ASSUME NEW s \in Seq(Nat), NEW F \in SUBSET Frame, FramesFit(s, F), NoneMissing(s, F)
  PROVE  {<<f.at, f.verdict>> : f \in F} = Cut(s)
<1> DEFINE D == 0..Len(s)
           P == {<<f.at, f.verdict>> : f \in F}
           E == Ends(F)
<1>1. PICK c : /\ \A at \in D : c[at] = Turn(s, c, at)
               /\ Cut(s) = c[0]
  BY CutRecursion
<1>2. Len(s) \in Nat /\ 0 \in D /\ 0 \in E /\ E \subseteq D
  BY EndsInside DEF Ends
<1>3. \A f \in F : /\ f.at \in E /\ f.at \in D /\ ~Incomplete(s, f.at)
                   /\ f.verdict = VerdictAt(s, f.at)
  BY EndOf DEF FramesFit
(* What the recursion yields from an end on are frames: by induction on the *)
(* bytes that are left.                                                     *)
<1>4. \A e \in E : c[e] \subseteq P
  <2> DEFINE T == {n \in Nat : \E e \in E : n = Len(s) - e /\ ~(c[e] \subseteq P)}
  <2>1. ASSUME T # {} PROVE FALSE
    <3>1. PICK n \in T : \A m \in T : n <= m
      BY <2>1, Least
    <3>2. PICK e \in E : n = Len(s) - e /\ ~(c[e] \subseteq P)
      BY <3>1
    <3>3. e \in D /\ c[e] = Turn(s, c, e)
      BY <1>1, <1>2
    <3>4. ~Incomplete(s, e)
      BY <3>2, <3>3 DEF Turn
    <3>5. PICK f \in F : f.at = e
      BY <3>4 DEF NoneMissing
    <3>6. <<e, VerdictAt(s, e)>> \in P
      BY <1>3, <3>5
    <3>7. GoesOn(s, e) /\ ~(c[e + s[e + 2]] \subseteq P)
      BY <3>2, <3>3, <3>4, <3>6 DEF Turn, GoesOn
    <3>8. e + s[e + 2] \in E /\ e + s[e + 2] \in D /\ e + s[e + 2] > e
      BY <3>5, <3>7, EndOf
    <3> DEFINE d == e + s[e + 2]
    <3>9. d \in E /\ d \in D /\ d > e /\ ~(c[d] \subseteq P)
      BY <3>7, <3>8
    <3> HIDE DEF d, P, E
    <3>10. Len(s) - d \in Nat /\ Len(s) - d < n
      BY <1>2, <3>2, <3>3, <3>9
    <3>11. Len(s) - d \in T
      BY <3>9, <3>10
    <3> QED BY <3>1, <3>10, <3>11
  <2>2. ASSUME NEW e \in E, ~(c[e] \subseteq P) PROVE FALSE
    <3>1. Len(s) - e \in Nat
      BY <1>2
    <3>2. Len(s) - e \in T
      BY <2>2, <3>1
    <3> QED BY <2>1, <3>2
  <2> QED BY <2>2
(* What it yields from an end on it yields from the beginning: by induction *)
(* on the end.                                                              *)
<1>5. \A e \in E : c[e] \subseteq c[0]
  <2> DEFINE T == {e \in E : ~(c[e] \subseteq c[0])}
  <2>1. ASSUME T # {} PROVE FALSE
    <3>1. T \subseteq Nat
      BY <1>2
    <3>2. PICK e \in T : \A x \in T : e <= x
      BY <2>1, <3>1, Least
    <3>3. PICK f \in F : f.verdict # "stream" /\ e = f.at + f.len
      BY <3>2 DEF Ends
    <3>4. /\ f.at \in E /\ f.at \in D /\ f.at < e
          /\ GoesOn(s, f.at) /\ e = f.at + s[f.at + 2]
      BY <1>3, <3>3, EndOf
    <3>5. c[f.at] = Turn(s, c, f.at)
      BY <1>1, <3>4
    <3>6. c[e] \subseteq c[f.at]
      BY <3>4, <3>5 DEF Turn, GoesOn
    <3>7. f.at \in T
      BY <3>2, <3>4, <3>6
    <3>8. e \in Nat
      BY <3>1, <3>2
    <3> QED BY <3>2, <3>4, <3>7, <3>8
  <2> QED BY <2>1
<1>6. P \subseteq c[0]
  <2> SUFFICES ASSUME NEW f \in F PROVE <<f.at, f.verdict>> \in c[0]
    OBVIOUS
  <2>1. c[f.at] = Turn(s, c, f.at)
    BY <1>1, <1>3
  <2>2. <<f.at, f.verdict>> \in c[f.at]
    BY <1>3, <2>1 DEF Turn
  <2> QED BY <1>3, <1>5, <2>2
<1> QED BY <1>1, <1>2, <1>4, <1>6

(* The invariant for it: while a connection stands, only what begins at the *)
(* front of the buffer may be missing, and outside the drain loop nothing   *)
(* is.                                                                      *)
CutInv ==
  /\ IInv
  /\ FramesFit(got, frames)
  /\ client # <<>> => /\ Consumed \in Ends(frames)
                      /\ \A e \in Ends(frames) : e = Consumed \/ \E f \in frames : f.at = e
  /\ pc # "drain" => NoneMissing(got, frames)

(* What next() finds at the front of the buffer is what the stream holds    *)
(* where the consumed bytes end.                                            *)
LEMMA FrontVerdict ==
  ASSUME IInv
  PROVE  /\ HasMessage(rx) <=> ~Incomplete(got, Consumed)
         /\ HasMessage(rx) => Verdict(Message(rx)) = VerdictAt(got, Consumed)
<1>1. /\ rx \in Seq(Byte) /\ Len(rx) \in Nat /\ Len(got) \in Nat /\ Consumed \in Nat
      /\ Len(got) = Consumed + Len(rx)
      /\ HeaderLen \in Nat /\ 2 <= HeaderLen /\ MaxLen \in Nat /\ MsgLen \in HeaderLen..MaxLen
  BY FramingAssumption DEF IInv, TypeOK, BufferIsOfThisConnection, Consumed
<1>2. ASSUME Len(rx) >= HeaderLen
      PROVE  /\ rx[1] = got[Consumed + 1] /\ rx[2] = got[Consumed + 2] /\ rx[2] \in Nat
  <2>1. 1 \in 1..Len(rx) /\ 2 \in 1..Len(rx)
    BY <1>1, <1>2
  <2>2. rx[2] \in Byte
    BY <1>1, <2>1
  <2>3. rx[2] \in Nat
    BY <2>2, FramingAssumption
  <2> QED BY <2>1, <2>3 DEF IInv, BufferIsOfThisConnection
<1>3. HasMessage(rx) <=> ~Incomplete(got, Consumed)
  <2>1. CASE Len(rx) >= HeaderLen
    <3> DEFINE n == rx[2]
    <3>1. n \in Nat /\ got[Consumed + 2] = n
      BY <1>2, <2>1
    <3>2. HasMessage(rx) <=> (HeaderLen <= n /\ n <= MaxLen => Len(rx) >= n)
      BY <2>1 DEF HasMessage, InRange, Length
    <3>3. Incomplete(got, Consumed) <=>
            n \in HeaderLen..MaxLen /\ Consumed + n > Len(got)
      BY <1>1, <2>1, <3>1 DEF Incomplete
    <3> HIDE DEF n
    <3> QED BY <1>1, <3>1, <3>2, <3>3
  <2>2. CASE ~(Len(rx) >= HeaderLen)
    BY <1>1, <2>2 DEF HasMessage, Incomplete
  <2> QED BY <2>1, <2>2
<1>4. ASSUME HasMessage(rx) PROVE Verdict(Message(rx)) = VerdictAt(got, Consumed)
  <2> DEFINE m == Message(rx)
             a == rx[1]
             n == rx[2]
  <2>1. got[Consumed + 1] = a /\ got[Consumed + 2] = n /\ n \in Nat
    BY <1>2, <1>4 DEF HasMessage
  <2>2. /\ m[1] = a /\ Length(m) = n /\ Len(m) = Extent(rx) /\ HeaderLen <= Extent(rx)
    BY <1>1, <1>4, MessageType, ExtentInside DEF Length
  <2>3. InRange(n) => Extent(rx) = n
    BY DEF Extent, Length
  <2>4. Extent(rx) \in Nat
    BY <1>1, <1>4, ExtentInside
  <2> HIDE DEF m, a, n
  <2>5. HeaderOk(m) <=> a \in Known /\ InRange(n)
    BY <1>1, <2>2, <2>4 DEF HeaderOk
  <2>6. MessageOk(m) <=> a \in Handled /\ n = MsgLen
    <3>1. n = MsgLen => InRange(n)
      BY <1>1 DEF InRange
    <3>2. n = MsgLen => Len(m) >= MsgLen
      BY <1>1, <2>2, <2>3, <3>1
    <3>3. Handled \subseteq Known /\ m[1] = a /\ Length(m) = n
      BY <2>2, FramingAssumption
    <3> QED BY <2>5, <3>1, <3>2, <3>3 DEF MessageOk
  <2>7. GoodHeader(got, Consumed) <=> HeaderOk(m)
    BY <1>1, <2>1, <2>5 DEF GoodHeader, InRange
  <2>8. Packed(got, Consumed) <=> MessageOk(m)
    BY <2>1, <2>6 DEF Packed
  <2>9. MessageOk(m) => HeaderOk(m)
    BY DEF MessageOk
  <2>10. Verdict(m) = IF ~HeaderOk(m) THEN "stream"
                      ELSE IF MessageOk(m) THEN "handled" ELSE "skipped"
    BY <2>9 DEF Verdict
  <2> QED BY <2>7, <2>8, <2>10 DEF VerdictAt, m
<1> QED BY <1>3, <1>4

(* A step that leaves the stream and the frames alone.                      *)
LEMMA QuietCut ==
  ASSUME CutInv, IInv', UNCHANGED <<got, frames>>,
         client' # <<>> => client # <<>> /\ rx' = rx,
         pc' # "drain" => NoneMissing(got, frames)
  PROVE  CutInv'
<1>1. client' # <<>> => Consumed' = Consumed
  BY DEF Consumed
<1> QED BY <1>1 DEF CutInv, FramesFit, NoneMissing

LEMMA FreshCut ==
  ASSUME IInv', rx' = <<>>, got' = <<>>, frames' = {}
  PROVE  CutInv'
<1>1. Consumed' = 0 /\ Ends(frames') = {0}
  BY DEF Consumed, Ends
<1>2. Incomplete(got', 0)
  BY FramingAssumption DEF Incomplete
<1> QED BY <1>1, <1>2 DEF CutInv, FramesFit, NoneMissing

(* A read changes nothing of the stream before its end.                     *)
LEMMA ReadCut ==
  ASSUME CutInv, Read, IInv'
  PROVE  CutInv'
<1>1. PICK n \in Chunks(client[1].unread) :
        /\ rx' = rx \o SubSeq(client[1].unread, 1, n)
        /\ got' = got \o SubSeq(client[1].unread, 1, n)
  BY DEF Read
<1>2. client # <<>> /\ pc' = "drain" /\ frames' = frames
  BY DEF Read
<1> DEFINE chunk == SubSeq(client[1].unread, 1, n)
<1>3. chunk \in Seq(Byte) /\ rx \in Seq(Byte) /\ got \in Seq(Byte)
  <2>1. client[1].unread \in Seq(Byte)
    BY <1>2 DEF CutInv, IInv, TypeOK, Sock
  <2>2. n \in 0..Len(client[1].unread)
    BY <1>1, FramingAssumption DEF Chunks
  <2> QED BY <2>1, <2>2, FrontType DEF CutInv, IInv, TypeOK
<1>4. rx' = rx \o chunk /\ got' = got \o chunk
  BY <1>1
<1> HIDE DEF chunk
<1>5. /\ Len(got) \in Nat /\ Len(got') \in Nat /\ Len(got') >= Len(got)
      /\ \A i \in 1..Len(got) : got'[i] = got[i]
  BY <1>3, <1>4
<1>6. Consumed' = Consumed
  <2>1. Len(chunk) \in Nat /\ Len(rx') = Len(rx) + Len(chunk) /\ Len(got') = Len(got) + Len(chunk)
        /\ Len(rx) \in Nat
    BY <1>3, <1>4
  <2> QED BY <1>5, <2>1 DEF Consumed
<1>7. FramesFit(got', frames)
  <2> SUFFICES ASSUME NEW f \in frames
               PROVE  /\ ~Incomplete(got', f.at)
                      /\ VerdictAt(got', f.at) = VerdictAt(got, f.at)
                      /\ got'[f.at + 2] = got[f.at + 2]
    BY DEF CutInv, FramesFit
  <2>1. f.at \in Nat /\ ~Incomplete(got, f.at)
    BY DEF CutInv, IInv, TypeOK, Frame, FramesFit
  <2>2. HeaderLen \in Nat /\ MaxLen \in Nat /\ 2 <= HeaderLen /\ f.at + HeaderLen <= Len(got)
    BY <1>5, <2>1, FramingAssumption DEF Incomplete
  <2>3. got'[f.at + 1] = got[f.at + 1] /\ got'[f.at + 2] = got[f.at + 2]
    <3>1. f.at + 1 \in 1..Len(got) /\ f.at + 2 \in 1..Len(got)
      BY <1>5, <2>1, <2>2
    <3> QED BY <1>5, <3>1
  <2>4. ~Incomplete(got', f.at)
    BY <1>5, <2>1, <2>2, <2>3 DEF Incomplete
  <2> QED BY <2>3, <2>4 DEF VerdictAt, GoodHeader, Packed
<1> QED BY <1>2, <1>6, <1>7 DEF CutInv

(* One turn of the drain loop adds the frame that begins at the front.      *)
LEMMA DrainCut ==
  ASSUME CutInv, DrainMessage, IInv'
  PROVE  CutInv'
<1> DEFINE f    == FrameOf(rx)
           good == Verdict(Message(rx)) # "stream"
<1>1. /\ pc = "drain" /\ HasMessage(rx) /\ frames' = frames \cup {f} /\ got' = got
      /\ good => rx' = Consume(rx, Extent(rx)) /\ client' = client /\ pc' = pc
      /\ ~good => client' = <<>> /\ pc' = "loop"
  BY DEF DrainMessage
<1>2. IInv /\ TypeOK /\ client # <<>> /\ Consumed >= 0
  BY <1>1 DEF CutInv, IInv, BufferIsOfThisConnection
<1>3. /\ f.at = Consumed /\ f.at \in Nat /\ f.len \in Nat
      /\ f.verdict # "stream" => GoodHeader(got, f.at) /\ f.len = got[f.at + 2]
  BY <1>1, <1>2, FrontFrame
<1>4. f.len = Extent(rx) /\ f.verdict = Verdict(Message(rx))
  BY <1>1, <1>2, FrameType
<1>5. ~Incomplete(got, Consumed) /\ Verdict(Message(rx)) = VerdictAt(got, Consumed)
  BY <1>1, <1>2, FrontVerdict
<1>6. good => Consumed' = Consumed + f.len
  <2> SUFFICES ASSUME good PROVE Consumed' = Consumed + f.len
    OBVIOUS
  <2>1. rx \in Seq(Byte) /\ Extent(rx) \in 0..Len(rx) /\ Len(rx) \in Nat /\ Len(got) \in Nat
    BY <1>1, <1>2, ExtentInside DEF TypeOK
  <2>2. Len(rx') = Len(rx) - Extent(rx)
    BY <1>1, <2>1, BackType DEF Consume
  <2>3. Consumed' = Len(got) - Len(rx')
    BY <1>1 DEF Consumed
  <2>4. Consumed = Len(got) - Len(rx)
    BY DEF Consumed
  <2> QED BY <1>4, <2>1, <2>2, <2>3, <2>4
<1>7. f.verdict # "stream" <=> good
  BY <1>4
<1> HIDE DEF f, good
<1>8. Ends(frames') = Ends(frames) \cup (IF good THEN {f.at + f.len} ELSE {})
  BY <1>1, <1>7 DEF Ends
<1>9. Consumed \in Ends(frames) /\ FramesFit(got, frames)
  BY <1>2 DEF CutInv
<1>10. FramesFit(got', frames')
  BY <1>1, <1>3, <1>4, <1>5, <1>8, <1>9 DEF FramesFit
<1>11. \A e \in Ends(frames) : \E g \in frames' : g.at = e
  BY <1>1, <1>2, <1>3 DEF CutInv
<1>12. CASE good
  BY <1>1, <1>3, <1>6, <1>8, <1>10, <1>11, <1>12 DEF CutInv
<1>13. CASE ~good
  BY <1>1, <1>8, <1>10, <1>11, <1>13 DEF CutInv, NoneMissing
<1> QED BY <1>12, <1>13

LEMMA CutInvariance == Spec => []CutInv
<1>1. Init => CutInv
  <2> SUFFICES ASSUME Init PROVE CutInv
    OBVIOUS
  <2>1. IInv
    BY InitInv
  <2>2. Ends(frames) = {0}
    BY DEF Init, Ends
  <2>3. Incomplete(got, 0)
    BY FramingAssumption DEF Init, Incomplete
  <2> QED BY <2>1, <2>2, <2>3 DEF Init, CutInv, FramesFit, NoneMissing
<1>2. CutInv /\ [Next]_vars => CutInv'
  <2> SUFFICES ASSUME CutInv, [Next]_vars PROVE CutInv'
    OBVIOUS
  <2>1. IInv /\ IInv'
    BY NextInv DEF CutInv
  <2>2. pc # "drain" => NoneMissing(got, frames)
    BY DEF CutInv
  <2>3. CASE Connect \/ PeerWrite \/ PeerClose
    <3>1. UNCHANGED <<rx, got, frames, pc>> /\ (client' # <<>> => client # <<>>)
      BY <2>3 DEF Connect, PeerWrite, PeerClose
    <3> QED BY <2>1, <2>2, <3>1, QuietCut
  <2>4. CASE Accept
    <3>1. CASE pend = <<>>
      BY <2>1, <2>2, <2>4, <3>1, QuietCut DEF Accept
    <3>2. CASE pend # <<>>
      BY <2>1, <2>4, <3>2, FreshCut DEF Accept
    <3> QED BY <3>1, <3>2
  <2>5. CASE Read
    BY <2>1, <2>5, ReadCut
  <2>6. CASE ReadNothing \/ ReadGone \/ SendFails
    BY <2>1, <2>2, <2>6, QuietCut DEF ReadNothing, ReadGone, SendFails
  <2>7. CASE DrainMessage
    BY <2>1, <2>7, DrainCut
  <2>8. CASE DrainEnd
    <3>1. Incomplete(got, Consumed) /\ client # <<>>
      BY <2>1, <2>8, FrontVerdict DEF DrainEnd, IInv
    <3>2. NoneMissing(got, frames)
      BY <3>1 DEF CutInv, NoneMissing
    <3> QED BY <2>1, <2>8, <3>2, QuietCut DEF DrainEnd
  <2>9. CASE UNCHANGED vars
    BY <2>1, <2>2, <2>9, QuietCut DEF vars
  <2> QED
    BY <2>3, <2>4, <2>5, <2>6, <2>7, <2>8, <2>9 DEF Next, Peers, Receiver
<1> QED BY <1>1, <1>2, PTL DEF Spec

(* Wherever the reads cut it, the messages made of a connection's bytes are *)
(* those of one pass over the whole stream (stream_buffer.h:14-20).         *)
THEOREM CutsAsAWhole == Spec => []CutAsAWhole
<1>1. CutInv => CutAsAWhole
  <2> SUFFICES ASSUME CutInv, pc = "loop"
               PROVE  {<<f.at, f.verdict>> : f \in frames} = Cut(got)
    BY DEF CutAsAWhole
  <2>1. got \in Seq(Nat) /\ frames \in SUBSET Frame
    BY FramingAssumption DEF CutInv, IInv, TypeOK
  <2>2. FramesFit(got, frames) /\ NoneMissing(got, frames)
    BY DEF CutInv
  <2> QED BY <2>1, <2>2, FramesAreTheCut
<1> QED BY <1>1, CutInvariance, PTL

-----------------------------------------------------------------------------
(* Streams of well-formed messages.                                         *)

LEMMA Division ==
  ASSUME NEW M \in Nat, M > 0, NEW n \in Nat
  PROVE  n \div M \in Nat /\ n = M * (n \div M) + (n % M)
OBVIOUS

LEMMA DivisionBy ==
  ASSUME NEW M \in Nat, M > 0, NEW n \in Nat, n % M = 0
  PROVE  \E k \in Nat : n = k * M
<1>1. n \div M \in Nat /\ n = M * (n \div M) + (n % M)
  BY Division, Zenon
<1> DEFINE k == n \div M
<1>2. k \in Nat /\ n = M * k + 0
  BY <1>1, Zenon
<1> HIDE DEF k
<1>3. n = k * M
  BY <1>2
<1> QED BY <1>2, <1>3

LEMMA MultipleOf ==
  ASSUME NEW M \in Nat, M > 0, NEW k \in Nat
  PROVE  (k * M) % M = 0 /\ (k + 1) * M = k * M + M /\ k * M \in Nat
OBVIOUS

(* The multiples of M.                                                      *)
LEMMA Multiples ==
  ASSUME NEW M \in Nat, M > 0, NEW n \in Nat
  PROVE  /\ 0 % M = 0
         /\ n % M = 0 => (n + M) % M = 0
         /\ n % M = 0 /\ n # 0 => n - M \in Nat /\ (n - M) % M = 0
<1>1. 0 % M = 0
  OBVIOUS
<1>2. ASSUME n % M = 0
      PROVE  /\ (n + M) % M = 0
             /\ n # 0 => n - M \in Nat /\ (n - M) % M = 0
  <2>1. PICK k \in Nat : n = k * M
    BY <1>2, DivisionBy
  <2>3. (n + M) % M = 0
    <3>1. (k + 1) * M = n + M
      BY <2>1, MultipleOf
    <3>2. k + 1 \in Nat
      OBVIOUS
    <3>3. ((k + 1) * M) % M = 0
      BY <3>2, MultipleOf, Zenon
    <3> QED BY <3>1, <3>3, Zenon
  <2>4. ASSUME n # 0 PROVE n - M \in Nat /\ (n - M) % M = 0
    <3>1. k # 0
      BY <2>1, <2>4
    <3> DEFINE j == k - 1
    <3>2. j \in Nat /\ k = j + 1
      BY <3>1
    <3> HIDE DEF j
    <3>3. n = j * M + M /\ j * M \in Nat /\ (j * M) % M = 0
      BY <2>1, <3>2, MultipleOf
    <3>4. n - M = j * M
      BY <3>3
    <3> QED BY <3>3, <3>4, Zenon
  <2> QED BY <2>3, <2>4
<1> QED BY <1>1, <1>2

LEMMA WellFormedFrames ==
  ASSUME CutInv, pc = "loop",
         \A at \in 0..Len(got) :
           at % MsgLen = 0 /\ at + HeaderLen <= Len(got) => Packed(got, at)
  PROVE  frames = {[at |-> at, len |-> MsgLen, verdict |-> "handled"] :
                     at \in {n \in 0..Len(got) : /\ n % MsgLen = 0
                                                 /\ n + HeaderLen <= Len(got)
                                                 /\ n + MsgLen <= Len(got)}}
<1> DEFINE E == Ends(frames)
           whole(n) == n % MsgLen = 0 /\ n + MsgLen <= Len(got)
<1>1. /\ got \in Seq(Nat) /\ Len(got) \in Nat /\ frames \in SUBSET Frame
      /\ FramesFit(got, frames) /\ NoneMissing(got, frames)
      /\ HeaderLen \in Nat /\ 2 <= HeaderLen /\ MsgLen \in HeaderLen..MaxLen /\ MaxLen \in Nat
      /\ MsgLen \in Nat /\ MsgLen > 0 /\ Handled \subseteq Known
  BY FramingAssumption DEF CutInv, IInv, TypeOK
<1>2. E \subseteq 0..Len(got) /\ 0 \in E
  BY <1>1, EndsInside DEF Ends
(* Where a message begins at a multiple of MsgLen it is one of its own.     *)
<1>3. ASSUME NEW f \in frames, f.at % MsgLen = 0
      PROVE  /\ f.verdict = "handled" /\ f.len = MsgLen
             /\ f.at \in 0..Len(got) /\ f.at + MsgLen <= Len(got)
             /\ f.at + HeaderLen <= Len(got)
             /\ f.at + MsgLen \in E
  <2>1. f.at \in 0..Len(got) /\ ~Incomplete(got, f.at) /\ f.verdict = VerdictAt(got, f.at)
    BY <1>1, EndOf DEF FramesFit
  <2>2. f.at + HeaderLen <= Len(got)
    BY <1>1, <2>1 DEF Incomplete
  <2>3. Packed(got, f.at)
    BY <1>3, <2>1, <2>2
  <2>4. GoodHeader(got, f.at) /\ f.verdict = "handled" /\ got[f.at + 2] = MsgLen
    BY <1>1, <2>1, <2>3 DEF Packed, GoodHeader, VerdictAt
  <2>5. f.len = MsgLen
    BY <1>1, <2>4 DEF FramesFit
  <2>6. f.at + MsgLen <= Len(got)
    BY <1>1, <2>1, <2>4 DEF Incomplete
  <2>7. f.at + MsgLen \in E
    BY <2>4, <2>5 DEF Ends
  <2> QED BY <2>1, <2>2, <2>4, <2>5, <2>6, <2>7
(* All do, by induction on the offset.                                      *)
<1>4. \A e \in E : e % MsgLen = 0
  <2> DEFINE T == {e \in E : e % MsgLen # 0}
  <2>1. ASSUME T # {} PROVE FALSE
    <3>1. T \subseteq Nat
      BY <1>1, <1>2
    <3>2. PICK e \in T : \A x \in T : e <= x
      BY <2>1, <3>1, Least
    <3>3. e # 0
      BY <1>1, <3>2, Multiples
    <3>4. PICK f \in frames : f.verdict # "stream" /\ e = f.at + f.len
      BY <3>2, <3>3 DEF Ends
    <3>5. f.at \in E /\ f.at \in Nat /\ f.at < e /\ e \in Nat
      BY <1>1, <3>1, <3>2, <3>4, EndOf DEF FramesFit
    <3>6. f.at % MsgLen = 0
      <4>1. f.at \notin T
        BY <3>1, <3>2, <3>5
      <4> QED BY <3>5, <4>1
    <3>7. e = f.at + MsgLen
      BY <1>3, <3>4, <3>6
    <3>8. e % MsgLen = 0
      BY <1>1, <3>5, <3>6, <3>7, Multiples
    <3> QED BY <3>2, <3>8
  <2> QED BY <2>1
<1>5. \A f \in frames : f.at % MsgLen = 0
  BY <1>1, <1>4 DEF FramesFit
(* And every whole message of the stream is there, by induction again.      *)
<1>6. \A n \in 0..Len(got) : whole(n) => \E f \in frames : f.at = n
  <2> DEFINE T == {n \in 0..Len(got) : whole(n) /\ ~\E f \in frames : f.at = n}
  <2>1. ASSUME T # {} PROVE FALSE
    <3>1. T \subseteq Nat
      BY <1>1
    <3>2. PICK n \in T : \A x \in T : n <= x
      BY <2>1, <3>1, Least
    <3>3. /\ n \in Nat /\ n \in 0..Len(got) /\ n % MsgLen = 0 /\ n + MsgLen <= Len(got)
          /\ ~\E f \in frames : f.at = n
      BY <3>1, <3>2
    <3>4. n \in E
      <4>1. CASE n = 0
        BY <1>2, <4>1
      <4>2. CASE n # 0
        <5> DEFINE m == n - MsgLen
        <5>1. m \in Nat /\ m % MsgLen = 0
          BY <1>1, <3>3, <4>2, Multiples
        <5>2. m < n /\ m \in 0..Len(got) /\ m + MsgLen = n /\ m + MsgLen <= Len(got)
          BY <1>1, <3>3, <5>1
        <5>3. m \notin T
          <6> HIDE DEF m, T
          <6> QED BY <3>2, <3>3, <5>1, <5>2
        <5> HIDE DEF m
        <5>4. PICK f \in frames : f.at = m
          BY <5>1, <5>2, <5>3
        <5> QED BY <1>3, <5>1, <5>2, <5>4
      <4> QED BY <4>1, <4>2
    <3>5. Incomplete(got, n)
      BY <1>1, <3>3, <3>4 DEF NoneMissing
    <3>6. n + HeaderLen <= Len(got)
      BY <1>1, <3>3
    <3>7. got[n + 2] = MsgLen
      BY <3>3, <3>6 DEF Packed
    <3> QED BY <1>1, <3>3, <3>5, <3>6, <3>7 DEF Incomplete
  <2> QED BY <2>1
<1> DEFINE msg(n) == [at |-> n, len |-> MsgLen, verdict |-> "handled"]
           W == {n \in 0..Len(got) : /\ n % MsgLen = 0
                                     /\ n + HeaderLen <= Len(got)
                                     /\ n + MsgLen <= Len(got)}
<1>7. ASSUME NEW f \in frames PROVE f = msg(f.at) /\ f.at \in W
  <2>1. f.verdict = "handled" /\ f.len = MsgLen /\ f \in Frame
    BY <1>1, <1>3, <1>5
  <2>2. f = msg(f.at)
    BY <2>1 DEF Frame
  <2> QED BY <1>3, <1>5, <2>2
<1>8. ASSUME NEW n \in W PROVE msg(n) \in frames
  <2>1. PICK f \in frames : f.at = n
    BY <1>6
  <2> QED BY <1>7, <2>1
<1> HIDE DEF msg, W
<1>9. frames = {msg(n) : n \in W}
  BY <1>7, <1>8
<1> QED BY <1>9 DEF msg, W

(* A peer that writes only what the pack functions produce has every whole  *)
(* message handled, at its place and once, and is never dropped for a       *)
(* malformed one.                                                           *)
THEOREM WellFormedHandled == Spec => []WellFormedIsHandled
<1>1. CutInv => WellFormedIsHandled
  <2> DEFINE starts == {at \in 0..Len(got) : at % MsgLen = 0 /\ at + HeaderLen <= Len(got)}
  <2> SUFFICES ASSUME CutInv, pc = "loop", \A at \in starts : Packed(got, at)
               PROVE  frames = {[at |-> at, len |-> MsgLen, verdict |-> "handled"] :
                                  at \in {n \in starts : n + MsgLen <= Len(got)}}
    BY DEF WellFormedIsHandled
  <2>1. \A at \in 0..Len(got) :
          at % MsgLen = 0 /\ at + HeaderLen <= Len(got) => Packed(got, at)
    OBVIOUS
  <2>2. {n \in starts : n + MsgLen <= Len(got)} =
          {n \in 0..Len(got) : n % MsgLen = 0 /\ n + HeaderLen <= Len(got) /\ n + MsgLen <= Len(got)}
    OBVIOUS
  <2> HIDE DEF starts
  <2> QED BY <2>1, <2>2, WellFormedFrames
<1> QED BY <1>1, CutInvariance, PTL
=============================================================================
