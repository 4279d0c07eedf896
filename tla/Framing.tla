------------------------------- MODULE Framing -------------------------------
(***************************************************************************)
(* How a receiver cuts messages out of a TCP byte stream: StreamBuffer     *)
(* (common/stream_buffer), the checks of unpack_header and the message     *)
(* codecs (common/wire), and the loop around them in gateway and termd     *)
(* (on_idle) and in the GUIs' workers (onReadyRead).                       *)
(*                                                                         *)
(* A byte is a number.  Of a header two bytes matter here: the first       *)
(* stands for magic, version and code, the second for the length field.    *)
(* The peer writes any bytes, and reads cut the stream anywhere.           *)
(***************************************************************************)
EXTENDS Integers, Sequences

CONSTANTS
  Byte,       \* the values of a byte
  Known,      \* first bytes with the right magic and a version that is not newer
  Handled,    \* those of them with the code the receiver handles
  HeaderLen,  \* sizeof(Header)
  MsgLen,     \* sizeof of the handled message (LockRequest or LockResponse)
  MaxLen,     \* MAX_MESSAGE_LEN
  ChunkLen,   \* the read buffer of on_idle()
  Backlog,    \* connections listen() lets wait
  MaxBytes,   \* bound: bytes written by peers
  MaxConns    \* bound: connections made

ASSUME FramingAssumption ==
  /\ Byte \subseteq Nat
  /\ Handled \subseteq Known /\ Known \subseteq Byte
  /\ {HeaderLen, MsgLen, MaxLen, ChunkLen, Backlog} \subseteq Nat \ {0}
  /\ 2 <= HeaderLen /\ HeaderLen <= MsgLen /\ MsgLen <= MaxLen
  /\ {MaxBytes, MaxConns} \subseteq Nat

-----------------------------------------------------------------------------
(* StreamBuffer.                                                            *)

(* The length field is believed only if it is at least a header and at most *)
(* MAX_MESSAGE_LEN; next() and unpack_header() make the same test.          *)
InRange(length) == HeaderLen <= length /\ length <= MaxLen

Length(data) == data[2]

(* Mutant: next() waits for as many bytes as the length field says.         *)
HasMessageBelieving(data) ==
  /\ Len(data) >= HeaderLen
  /\ Len(data) >= Length(data)

(* next() returns true: a whole message is there, or a header whose length  *)
(* cannot be right.                                                         *)
HasMessage(data) ==
  /\ Len(data) >= HeaderLen
  /\ InRange(Length(data)) => Len(data) >= Length(data)

(* Its *out_len: that message, or everything there is.                      *)
Extent(data) == IF InRange(Length(data)) THEN Length(data) ELSE Len(data)

(* Mutant: consume() discards the rest of the chunk.                        *)
ConsumeAll(data, n) == <<>>

(* Mutant: one byte too many goes.                                          *)
ConsumeOneMore(data, n) == SubSeq(data, n + 2, Len(data))

Consume(data, n) == SubSeq(data, n + 1, Len(data))

-----------------------------------------------------------------------------
(* The codecs.                                                              *)

(* unpack_header() returns Ok.                                              *)
HeaderOk(buf) ==
  /\ Len(buf) >= HeaderLen
  /\ buf[1] \in Known
  /\ InRange(Length(buf))

(* unpack_lock_request() (or _response()) returns Ok.                       *)
MessageOk(buf) ==
  /\ HeaderOk(buf)
  /\ buf[1] \in Handled
  /\ Length(buf) = MsgLen
  /\ Len(buf) >= MsgLen

(* At offset at of s stands a header as make_lock_request() fills it in (or *)
(* make_lock_response() for the GUI that waits for those).                  *)
Packed(s, at) == s[at + 1] \in Handled /\ s[at + 2] = MsgLen

(* What the receiver makes of the bytes next() gives it.                    *)
Verdicts == {"handled", "skipped", "stream"}

Verdict(buf) ==
  CASE ~HeaderOk(buf)                 -> "stream"
    [] HeaderOk(buf) /\ ~MessageOk(buf) -> "skipped"
    [] MessageOk(buf)                 -> "handled"

-----------------------------------------------------------------------------
VARIABLES
  pend,    \* connections waiting to be accepted, each with its unread bytes
  client,  \* the accepted connection, <<>> when client_fd_ = -1
  rx,      \* StreamBuffer::data_
  pc,      \* "loop", or inside on_idle(): "read", "drain"
  got,     \* history: the bytes read since the connection was accepted
  frames,  \* history: what became of them, by offset into got
  written, conns

vars == <<pend, client, rx, pc, got, frames, written, conns>>

Sock == [open : BOOLEAN, unread : Seq(Byte)]

Frame == [at : Nat, len : Nat, verdict : Verdicts]

TypeOK ==
  /\ pend \in Seq(Sock)
  /\ client # <<>> => client = <<client[1]>> /\ client[1] \in Sock
  /\ rx \in Seq(Byte)
  /\ pc \in {"loop", "read", "drain"}
  /\ got \in Seq(Byte)
  /\ frames \subseteq Frame
  /\ written \in 0..MaxBytes
  /\ conns \in 0..MaxConns

Init ==
  /\ pend = <<>>
  /\ client = <<>>
  /\ rx = <<>>
  /\ pc = "loop"
  /\ got = <<>>
  /\ frames = {}
  /\ written = 0
  /\ conns = 0

-----------------------------------------------------------------------------
(* Peers.  A connection may be made while an older one still stands.        *)

Connect ==
  /\ conns < MaxConns
  /\ conns' = conns + 1
  /\ Len(pend) <= Backlog
  /\ pend' = Append(pend, [open |-> TRUE, unread |-> <<>>])
  /\ UNCHANGED <<client, rx, pc, got, frames, written>>

(* sock after its peer has written b, closed it in order, or reset it.      *)
Wrote(sock, b) == [open |-> TRUE, unread |-> Append(sock.unread, b)]
Closed(sock)   == [open |-> FALSE, unread |-> sock.unread]
Reset          == [open |-> FALSE, unread |-> <<>>]

PeerWrite ==
  /\ written < MaxBytes
  /\ written' = written + 1
  /\ \E b \in Byte :
       \/ /\ client # <<>> /\ client[1].open
          /\ client' = <<Wrote(client[1], b)>>
          /\ UNCHANGED pend
       \/ \E i \in DOMAIN pend :
            /\ pend[i].open
            /\ pend' = [pend EXCEPT ![i] = Wrote(pend[i], b)]
            /\ UNCHANGED client
  /\ UNCHANGED <<rx, pc, got, frames, conns>>

PeerClose ==
  /\ \/ /\ client # <<>> /\ client[1].open
        /\ client' \in {<<Closed(client[1])>>, <<Reset>>}
        /\ UNCHANGED pend
     \/ \E i \in DOMAIN pend :
          /\ pend[i].open
          /\ \E sock \in {Closed(pend[i]), Reset} : pend' = [pend EXCEPT ![i] = sock]
          /\ UNCHANGED client
  /\ UNCHANGED <<rx, pc, got, frames, written, conns>>

-----------------------------------------------------------------------------
(* The receiver.                                                            *)

(* Mutant: the buffer is not reset for a new connection.                    *)
AcceptKeepsBuffer ==
  /\ pc = "loop"
  /\ pc' = "read"
  /\ IF pend = <<>>
       THEN UNCHANGED <<pend, client, rx, got, frames>>
       ELSE /\ client' = <<Head(pend)>>
            /\ pend' = Tail(pend)
            /\ got' = <<>>
            /\ frames' = {}
            /\ UNCHANGED rx
  /\ UNCHANGED <<written, conns>>

(* Mutant: the old connection is kept beside the new one.                   *)
AcceptAddsClient ==
  /\ pc = "loop"
  /\ pc' = "read"
  /\ IF pend = <<>>
       THEN UNCHANGED <<pend, client, rx, got, frames>>
       ELSE /\ client' = client \o <<Head(pend)>>
            /\ pend' = Tail(pend)
            /\ rx' = <<>>
            /\ got' = <<>>
            /\ frames' = {}
  /\ UNCHANGED <<written, conns>>

(* on_idle() begins: a waiting connection replaces the accepted one, and    *)
(* the buffer is reset for it.                                              *)
Accept ==
  /\ pc = "loop"
  /\ pc' = "read"
  /\ IF pend = <<>>
       THEN UNCHANGED <<pend, client, rx, got, frames>>
       ELSE /\ client' = <<Head(pend)>>
            /\ pend' = Tail(pend)
            /\ rx' = <<>>
            /\ got' = <<>>
            /\ frames' = {}
  /\ UNCHANGED <<written, conns>>

Chunks(unread) == {n \in 1..ChunkLen : n <= Len(unread)}

(* poll_read() returns some of the unread bytes.                            *)
Read ==
  /\ pc = "read"
  /\ client # <<>>
  /\ LET unread == client[1].unread
     IN  \E n \in Chunks(unread) :
           /\ rx' = rx \o SubSeq(unread, 1, n)
           /\ got' = got \o SubSeq(unread, 1, n)
           /\ client' = <<[open |-> client[1].open,
                           unread |-> SubSeq(unread, n + 1, Len(unread))]>>
  /\ pc' = "drain"
  /\ UNCHANGED <<pend, frames, written, conns>>

(* It returns 0: no client, or nothing to read.                             *)
ReadNothing ==
  /\ pc = "read"
  /\ client # <<>> => client[1].open /\ client[1].unread = <<>>
  /\ pc' = "loop"
  /\ UNCHANGED <<pend, client, rx, got, frames, written, conns>>

(* It returns -1: the client has gone.                                      *)
ReadGone ==
  /\ pc = "read"
  /\ client # <<>> /\ ~client[1].open /\ client[1].unread = <<>>
  /\ client' = <<>>
  /\ rx' = <<>>
  /\ pc' = "loop"
  /\ UNCHANGED <<pend, got, frames, written, conns>>

(* The bytes next() gives to the handler, and their place in the stream.    *)
Message(data) == SubSeq(data, 1, Extent(data))

FrameOf(data) ==
  [at |-> Len(got) - Len(data), len |-> Extent(data), verdict |-> Verdict(Message(data))]

(* Mutant: the connection is dropped and what was not consumed is kept.     *)
DrainMessageKeepsBuffer ==
  /\ pc = "drain"
  /\ HasMessage(rx)
  /\ frames' = frames \cup {FrameOf(rx)}
  /\ rx' = Consume(rx, Extent(rx))
  /\ IF Verdict(Message(rx)) = "stream"
       THEN client' = <<>> /\ pc' = "loop"
       ELSE UNCHANGED <<client, pc>>
  /\ UNCHANGED <<pend, got, written, conns>>

(* Mutant: only a message that was handled is consumed.                     *)
DrainMessageConsumesHandled ==
  /\ pc = "drain"
  /\ HasMessage(rx)
  /\ frames' = frames \cup {FrameOf(rx)}
  /\ CASE Verdict(Message(rx)) = "stream"  -> rx' = <<>> /\ client' = <<>> /\ pc' = "loop"
       [] Verdict(Message(rx)) = "skipped" -> UNCHANGED <<rx, client, pc>>
       [] OTHER -> rx' = Consume(rx, Extent(rx)) /\ UNCHANGED <<client, pc>>
  /\ UNCHANGED <<pend, got, written, conns>>

(* One turn of the loop: handle the message and consume it.  After a stream *)
(* error the connection is dropped and the buffer reset: gateway returns    *)
(* from on_idle() then, termd and the GUIs do it in their handlers and find *)
(* the buffer empty at the next turn.                                       *)
DrainMessage ==
  /\ pc = "drain"
  /\ HasMessage(rx)
  /\ frames' = frames \cup {FrameOf(rx)}
  /\ IF Verdict(Message(rx)) = "stream"
       THEN rx' = <<>> /\ client' = <<>> /\ pc' = "loop"
       ELSE rx' = Consume(rx, Extent(rx)) /\ UNCHANGED <<client, pc>>
  /\ UNCHANGED <<pend, got, written, conns>>

DrainEnd ==
  /\ pc = "drain"
  /\ ~HasMessage(rx)
  /\ pc' = "loop"
  /\ UNCHANGED <<pend, client, rx, got, frames, written, conns>>

(* Between two on_idle() calls a handler sends to a client that has gone:   *)
(* TcpServer::send() drops it and leaves the receive buffer alone.          *)
SendFails ==
  /\ pc = "loop"
  /\ client # <<>> /\ ~client[1].open
  /\ client' = <<>>
  /\ UNCHANGED <<pend, rx, pc, got, frames, written, conns>>

-----------------------------------------------------------------------------
Peers    == Connect \/ PeerWrite \/ PeerClose
Receiver == Accept \/ Read \/ ReadNothing \/ ReadGone \/ DrainMessage \/ DrainEnd

Next == Peers \/ Receiver \/ SendFails

(* The receiver keeps running its loop.                                     *)
Spec == Init /\ [][Next]_vars /\ WF_vars(Receiver)

-----------------------------------------------------------------------------
(* The reference: a whole stream s cut at once, from offset at on.  Each    *)
(* header's length says where the next header is; the first header that is  *)
(* wrong ends it.                                                           *)

GoodHeader(s, at) == s[at + 1] \in Known /\ s[at + 2] \in HeaderLen..MaxLen

(* No whole header stands there, or less of a message than it announces.    *)
Incomplete(s, at) ==
  \/ at + HeaderLen > Len(s)
  \/ s[at + 2] \in HeaderLen..MaxLen /\ at + s[at + 2] > Len(s)

VerdictAt(s, at) ==
  IF ~GoodHeader(s, at) THEN "stream"
  ELSE IF Packed(s, at) THEN "handled" ELSE "skipped"

Cut(s) ==
  LET cut[at \in 0..Len(s)] ==
        IF Incomplete(s, at)
          THEN {}
          ELSE {<<at, VerdictAt(s, at)>>} \cup
               (IF GoodHeader(s, at) THEN cut[at + s[at + 2]] ELSE {})
  IN  cut[0]

(* However the reads cut the stream, what the receiver has made of a        *)
(* connection's bytes when it goes back to its loop is what cutting them    *)
(* all at once gives (stream_buffer.h:14-20): no message is missed, handled *)
(* twice, or read at a wrong place.                                         *)
CutAsAWhole ==
  pc = "loop" => {<<f.at, f.verdict>> : f \in frames} = Cut(got)

(* A peer that writes only what the pack functions produce, message after   *)
(* message, has every one of them handled and is never disconnected, also   *)
(* while the last one is still incomplete (wire.cpp, stream_buffer.h:14-20).*)
WellFormedIsHandled ==
  LET starts == {at \in 0..Len(got) : at % MsgLen = 0 /\ at + HeaderLen <= Len(got)}
  IN  pc = "loop" /\ (\A at \in starts : Packed(got, at)) =>
        frames = {[at |-> at, len |-> MsgLen, verdict |-> "handled"] :
                    at \in {n \in starts : n + MsgLen <= Len(got)}}

(* The buffer holds the last bytes of the connection that is served, those  *)
(* no message has been made of yet, and never bytes of an older connection  *)
(* (rx_.reset() in on_idle), although a failed send drops the client        *)
(* without a reset.                                                         *)
Consumed == Len(got) - Len(rx)

BufferIsOfThisConnection ==
  /\ Consumed >= 0
  /\ \A i \in 1..Len(rx) : rx[i] = got[Consumed + i]

(* While a connection stands, every byte taken out of the buffer belongs to *)
(* exactly one message, and each message begins at a good header that gives *)
(* its length (stream_buffer.h:19-20).                                      *)
EveryByteInOneMessage ==
  client # <<>> =>
    /\ \A b \in 1..Consumed : \E f \in frames : f.at < b /\ b <= f.at + f.len
    /\ \A f, g \in frames : f # g => f.at + f.len <= g.at \/ g.at + g.len <= f.at
    /\ \A f \in frames : GoodHeader(got, f.at) /\ f.len = got[f.at + 2]

(* After a malformed header nothing more of the connection is read or kept: *)
(* it is dropped with the bytes that came behind (gateway/main.cpp:69-77).  *)
DesyncEndsConnection ==
  \A f \in frames :
    f.verdict = "stream" => /\ client = <<>> /\ rx = <<>>
                            /\ \A g \in frames : g.at <= f.at

(* What is kept for the next read is less than one message, whatever the    *)
(* length fields say: the buffer cannot be made to grow (proto.h:14-17).    *)
BufferIsBounded ==
  /\ pc # "drain" => Len(rx) < MaxLen
  /\ Len(rx) < MaxLen + ChunkLen

(* The drain loop ends, whatever the stream holds: each turn consumes what  *)
(* it looked at, or drops the connection (gateway/main.cpp:65-78).          *)
DrainTerminates == pc = "drain" ~> pc = "loop"
=============================================================================
