----------------------------- MODULE Connection -----------------------------
(***************************************************************************)
(* One direction of a TCP session between server and client: the sender's  *)
(* AsioSendBuffer behind SenderHelper, the bytes on their way, and the     *)
(* receiver's AsioReceiveBuffer (src/src/net).  Server and client use the  *)
(* same classes, with and without SSL.                                     *)
(*                                                                         *)
(* A packet is sent as a frame: a header that holds its size, then its     *)
(* body.  Buffers and wire are sequences of bytes, and a byte is known by  *)
(* its packet and its place in the frame, so that a receiver who is out of *)
(* step reads a wrong size.                                                *)
(*                                                                         *)
(* The vectors sendBuf and curWriteBuf grow by doubling up to              *)
(* MAX_SEND_BUF_SIZE; their capacity decides nothing else and is left out. *)
(***************************************************************************)
EXTENDS Integers, Sequences, Functions

CONSTANTS
    Packets,        \* the packets there are
    BodySize(_),    \* the serialised size of each
    Garbage(_),     \* NetPacket::Create fails on it: another version's message
    Invalid(_),     \* the packet validator refuses it
    HeaderSize,     \* NET_HEADER_SIZE
    MaxPacketSize,  \* MAX_PACKET_SIZE
    RecvBufSize,    \* RECV_BUF_SIZE
    MaxSendBufSize, \* MAX_SEND_BUF_SIZE
    MaxSends        \* bound: how many packets are sent

ASSUME ConnectionAssumption ==
    /\ \A p \in Packets : BodySize(p) \in Nat
    /\ HeaderSize \in Nat \ {0}
    /\ MaxPacketSize \in Nat \ {0}
    /\ RecvBufSize \in Nat /\ RecvBufSize >= MaxPacketSize + HeaderSize
    /\ MaxSendBufSize \in Nat
    /\ MaxSends \in Nat

VARIABLES
    out,        \* the sender's buffer: buf (sendBuf), writing (curWriteBufUsed
                \* > 0), unsent (the part of curWriteBuf TCP has not taken yet),
                \* closing (closeAfterSend), open (the socket)
    wire,       \* bytes on their way
    up,         \* the network has not lost the connection
    recvBuf,    \* the receiver's buffer
    session,    \* the receiver's session is not Closed
    delivered,  \* packets given to HandlePacket
    sends       \* packets sent so far

vars == <<out, wire, up, recvBuf, session, delivered, sends>>

FrameSize(p) == HeaderSize + BodySize(p)
Frame(p) == [i \in 1..FrameSize(p) |-> <<p, i>>]
Bytes == {<<p, i>> : p \in Packets, i \in 1..(HeaderSize + MaxSendBufSize)}

TypeOK ==
    /\ out.buf \in Seq(Bytes) /\ out.unsent \in Seq(Bytes)
    /\ out.writing \in BOOLEAN /\ out.closing \in BOOLEAN /\ out.open \in BOOLEAN
    /\ wire \in Seq(Bytes)
    /\ recvBuf \in Seq(Bytes)
    /\ up \in BOOLEAN /\ session \in BOOLEAN
    /\ delivered \in Seq(Packets)
    /\ sends \in 0..MaxSends
    /\ Len(out.buf) <= MaxSendBufSize
    /\ Len(recvBuf) <= RecvBufSize

Init ==
    /\ out = [buf |-> << >>, unsent |-> << >>, writing |-> FALSE,
              closing |-> FALSE, open |-> TRUE]
    /\ wire = << >>
    /\ up = TRUE
    /\ recvBuf = << >>
    /\ session = TRUE
    /\ delivered = << >>
    /\ sends = 0

(***************************************************************************)
(* The sender                                                              *)
(***************************************************************************)

\* A frame that does not fit is dropped and logged.
InternalStorePacket(o, p) ==
    IF Len(o.buf) + FrameSize(p) <= MaxSendBufSize
    THEN [o EXCEPT !.buf = @ \o Frame(p)] ELSE o

AsyncSendNextPacket_CloseFirst(o) ==
    IF o.closing THEN [o EXCEPT !.closing = FALSE, !.open = FALSE]
    ELSE IF o.writing THEN o
    ELSE IF o.buf # << >>
    THEN [o EXCEPT !.buf = << >>, !.unsent = o.buf, !.writing = TRUE]
    ELSE o

\* Unless a write is in progress the buffers are swapped and a write is
\* started; with nothing to write, a requested close is carried out.
AsyncSendNextPacket(o) ==
    IF o.writing THEN o
    ELSE IF o.buf # << >>
    THEN [o EXCEPT !.buf = << >>, !.unsent = o.buf, !.writing = TRUE]
    ELSE IF o.closing THEN [o EXCEPT !.closing = FALSE, !.open = FALSE]
    ELSE o

\* SenderHelper::Send, with one packet or, for a list, the first of them.
Send(p) ==
    /\ sends < MaxSends
    /\ sends' = sends + 1
    /\ out' = AsyncSendNextPacket(InternalStorePacket(out, p))
    /\ UNCHANGED <<wire, up, recvBuf, session, delivered>>

\* SenderHelper::SetCloseAfterSend, when the sender closes the session.
SetCloseAfterSend ==
    /\ out' = AsyncSendNextPacket([out EXCEPT !.closing = TRUE])
    /\ UNCHANGED <<wire, up, recvBuf, session, delivered, sends>>

\* TCP takes the next n bytes of the write in progress.
Transmit(n) ==
    /\ up /\ out.open
    /\ n \in 1..Len(out.unsent)
    /\ wire' = wire \o SubSeq(out.unsent, 1, n)
    /\ out' = [out EXCEPT !.unsent = SubSeq(@, n + 1, Len(@))]
    /\ UNCHANGED <<up, recvBuf, session, delivered, sends>>

HandleWrite_NoNext ==
    /\ out.writing /\ out.unsent = << >>
    /\ out' = [out EXCEPT !.writing = FALSE]
    /\ UNCHANGED <<wire, up, recvBuf, session, delivered, sends>>

\* HandleWrite: the write is complete, the next one starts.
HandleWrite ==
    /\ out.writing /\ out.unsent = << >>
    /\ out' = AsyncSendNextPacket([out EXCEPT !.writing = FALSE])
    /\ UNCHANGED <<wire, up, recvBuf, session, delivered, sends>>

\* HandleWrite with an error: what was not written is lost, the socket closed.
HandleWriteError ==
    /\ out.writing
    /\ ~up \/ ~out.open \/ ~session
    /\ out' = [out EXCEPT !.writing = FALSE, !.unsent = << >>, !.open = FALSE]
    /\ UNCHANGED <<wire, up, recvBuf, session, delivered, sends>>

(***************************************************************************)
(* The receiver                                                            *)
(***************************************************************************)

\* The header at the front of b, if b starts with a frame of p.
StartsWith(b, p) == \A i \in 1..HeaderSize : b[i] = <<p, i>>

BadHeader_OffByOne(b) ==
    LET p == b[1][1]
    IN ~StartsWith(b, p) \/ BodySize(p) = 0 \/ BodySize(p) >= MaxPacketSize

\* A size that is zero, too large or not a size at all.
BadHeader(b) ==
    LET p == b[1][1]
    IN \/ ~StartsWith(b, p)
       \/ BodySize(p) = 0
       \/ BodySize(p) > MaxPacketSize

Rest(b) == SubSeq(b, FrameSize(b[1][1]) + 1, Len(b))

Scanned(b, ps, ok) == [buf |-> b, packets |-> ps, ok |-> ok]

(***************************************************************************)
(* ScanPackets: the packets in the buffer, what is left in it, and whether *)
(* the session survives.  The loop ends without a complete packet, and     *)
(* after one that cannot be parsed, which is taken out.                    *)
(***************************************************************************)
ScanPackets[b \in Seq(Bytes)] ==
    IF Len(b) < HeaderSize THEN Scanned(b, << >>, TRUE)
    ELSE IF BadHeader(b) THEN Scanned(<< >>, << >>, FALSE)
    ELSE LET p == b[1][1]
         IN IF Len(b) < FrameSize(p) THEN Scanned(b, << >>, TRUE)
            ELSE IF Garbage(p) THEN Scanned(Rest(b), << >>, TRUE)
            ELSE IF Invalid(p) THEN Scanned(Rest(b), << >>, FALSE)
            ELSE LET more == ScanPackets[Rest(b)]
                 IN Scanned(more.buf, <<p>> \o more.packets, more.ok)

\* HandleRead of n bytes: ScanPackets, then ProcessPackets, whose handlers may
\* close the session.  A session closed while scanning handles nothing.
HandleRead(n, closes) ==
    LET scan == ScanPackets[recvBuf \o SubSeq(wire, 1, n)]
        full == Len(scan.buf) >= RecvBufSize
    IN /\ session
       /\ n <= Len(wire) /\ n <= RecvBufSize - Len(recvBuf)
       /\ wire' = SubSeq(wire, n + 1, Len(wire))
       /\ closes => scan.ok /\ scan.packets # << >>
       /\ recvBuf' = IF scan.ok /\ full THEN << >> ELSE scan.buf
       /\ delivered' = IF scan.ok THEN delivered \o scan.packets ELSE delivered
       /\ session' = (scan.ok /\ ~full /\ ~closes)
       /\ UNCHANGED <<out, up, sends>>

\* HandleRead with an error: the end of the stream, or a lost connection.
HandleReadError ==
    /\ session
    /\ ~up \/ (~out.open /\ wire = << >>)
    /\ session' = FALSE
    /\ UNCHANGED <<out, wire, up, recvBuf, delivered, sends>>

\* The network loses the connection and the newest bytes on their way.
ConnectionLost(n) ==
    /\ up /\ up' = FALSE
    /\ n \in 0..Len(wire)
    /\ wire' = SubSeq(wire, 1, n)
    /\ UNCHANGED <<out, recvBuf, session, delivered, sends>>

\* Nothing left to do.
Idle ==
    /\ sends = MaxSends
    /\ ~session \/ (wire = << >> /\ ~out.writing)
    /\ UNCHANGED vars

ReadSome == \E n \in 1..RecvBufSize, closes \in BOOLEAN : HandleRead(n, closes)

Next ==
    \/ \E p \in Packets : Send(p)
    \/ SetCloseAfterSend
    \/ \E n \in 1..MaxSendBufSize : Transmit(n)
    \/ HandleWrite
    \/ HandleWriteError
    \/ ReadSome
    \/ HandleReadError
    \/ \E n \in 0..(MaxSendBufSize * MaxSends) : ConnectionLost(n)
    \/ Idle

Spec == Init /\ [][Next]_vars

\* TCP moves bytes while the connection lasts, and the io_contexts of both
\* sides run the handlers of completed reads and writes.
FairSpec ==
    /\ Spec
    /\ WF_vars(\E n \in 1..MaxSendBufSize : Transmit(n))
    /\ WF_vars(HandleWrite)
    /\ WF_vars(ReadSome)

(***************************************************************************)
(* Properties                                                              *)
(***************************************************************************)

\* The bytes the receiver may still get, oldest first.
Stream ==
    recvBuf \o wire \o (IF up /\ out.open THEN out.unsent \o out.buf ELSE << >>)

\* The packets in it that are complete: those whose last byte is there.
PacketsIn[stream \in Seq(Bytes)] ==
    IF stream = << >> THEN << >>
    ELSE LET c == Head(stream)
         IN (IF c[2] = FrameSize(c[1]) THEN <<c[1]>> ELSE << >>) \o PacketsIn[Tail(stream)]

\* Two buffers that are swapped while bytes are written, reads that cut frames
\* anywhere, a full buffer, errors and closing: for the packets it is a channel.
Channel == INSTANCE PacketChannel WITH
    queue <- IF session THEN PacketsIn[Stream] ELSE << >>,
    phase <- IF ~session THEN "down"
             ELSE IF ~up THEN "broken"
             ELSE IF ~out.open THEN "closed" ELSE "open"
ChannelSpec == Channel!ChannelSpec

\* A peer whose packets are within the limits is never disconnected by the
\* receive buffer: wherever reads cut the stream, no header is misread and the
\* buffer is never full ("Receive buf full").
Acceptable(p) == BodySize(p) \in 1..MaxPacketSize /\ ~Invalid(p)
ValidPeerKept ==
    [][(/\ session /\ ~session'
        /\ \A c \in Range(recvBuf \o wire) : Acceptable(c[1]))
          => delivered' # delivered \/ ~up \/ (~out.open /\ wire = << >>)]_vars

\* A packet that was taken is delivered without waiting for the next one, also
\* when the sender has asked to close the session, as long as both sides and the
\* network stay up and no packet that cannot be parsed comes with it.
TakenIsDelivered ==
    PacketsIn[Stream] # << >>
       ~> \/ PacketsIn[Stream] = << >>
          \/ ~up \/ ~session
          \/ \E c \in Range(Stream) : Garbage(c[1])
=============================================================================
