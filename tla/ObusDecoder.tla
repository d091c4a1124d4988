----------------------------- MODULE ObusDecoder ----------------------------
(***************************************************************************)
(* The packet decoder (obus_packet.c) of a client, over the buffers of a   *)
(* pool (obus_buffer.h) and the reads of a stream socket (obus_io_read).   *)
(*                                                                         *)
(* A byte is a record: byte o of the n-th packet of the connection, which  *)
(* is of kind k.  Of the nine bytes of a header only their number matters: *)
(* the magic begins a packet and nothing else.  A packet is good (it can   *)
(* be decoded), bad (its payload cannot: it names an object that is gone)  *)
(* or alien (its type is unknown, so that its header is none).             *)
(*                                                                         *)
(* One step is one iteration of the loop of obus_packet_decoder_read; a    *)
(* packet that is returned goes to its handler and the next call follows   *)
(* at once, as the loop of obus_client_io_read_event does.                 *)
(***************************************************************************)
EXTENDS Integers, Sequences, FiniteSets

CONSTANTS
    Good, Bad, Alien,  \* the kinds of packets
    Size,              \* Size[k]: length of a packet of kind k, header included
    HdrSize,           \* OBUS_PKT_HDR_SIZE
    BufSize,           \* OBUS_DEFAULT_BUFFER_SIZE
    MaxPackets,        \* bound: packets of a connection
    MaxConns,          \* bound: connections
    MaxCalls           \* bound: other packets the client sends

Kind == Good \cup Bad \cup Alien

DecoderAssumption ==
    /\ HdrSize \in Nat \ {0, 1} /\ BufSize \in Nat /\ BufSize >= HdrSize
    /\ \A k \in Kind : Size[k] \in Nat /\ Size[k] >= HdrSize
    /\ Good \cap Alien = {}
    /\ MaxPackets \in Nat /\ MaxConns \in Nat /\ MaxCalls \in Nat

VARIABLES
    up,     \* the client has a connection
    conns,  \* connections so far
    sent,   \* sent[n]: kind of the n-th packet the server has sent whole
    wire,   \* the bytes the client has not read
    eof,    \* the server will send no more
    rx,     \* d->buf: the bytes in it, its read position, its capacity
    hdr,    \* d->hdr: the packet whose header is decoded, 0 if not hdr_valid
    more,   \* read_more
    ctl,    \* obus_packet_decoder_read runs, or the loop waits
    got,    \* the packets returned so far
    free,   \* the free buffers of the pool: read position and capacity
    calls   \* other packets sent so far

netVars == <<sent, wire, eof>>
vars == <<up, conns, netVars, rx, hdr, more, ctl, got, free, calls>>

NewBuffer == [pos |-> 0, cap |-> BufSize]
BytesOf(n, k) == [o \in 1..Size[k] |-> [n |-> n, k |-> k, o |-> o - 1]]

Init ==
    /\ up = FALSE /\ conns = 0 /\ calls = 0
    /\ sent = <<>> /\ wire = <<>> /\ eof = FALSE
    /\ rx = [data |-> <<>>, pos |-> 0, cap |-> BufSize]
    /\ hdr = 0 /\ more = FALSE /\ ctl = "loop" /\ got = <<>>
    /\ free = <<>>

-----------------------------------------------------------------------------
(***************************************************************************)
(* Buffers.                                                                *)
(***************************************************************************)

\* obus_buffer_pool_peek: the first free buffer, else a new one.  A buffer that
\* comes back is put last (obus_buffer_unref).
Peeked(pool) == IF pool = <<>> THEN NewBuffer ELSE Head(pool)
Left(pool) == IF pool = <<>> THEN <<>> ELSE Tail(pool)
Rotated(pool) == Append(Left(pool), Peeked(pool))

\* Mutant: the last packet of the buffer is left in it.
RemoveFirstNothing(b, size) ==
    IF size >= Len(b.data) THEN b
    ELSE [b EXCEPT !.data = SubSeq(@, size + 1, Len(@)),
                   !.pos = IF @ > size THEN @ - size ELSE 0]

\* obus_buffer_remove_first: emptying the buffer leaves the read position.
RemoveFirst(b, size) ==
    IF size = 0 \/ b.data = <<>> THEN b
    ELSE IF size >= Len(b.data) THEN [b EXCEPT !.data = <<>>]
    ELSE [b EXCEPT !.data = SubSeq(@, size + 1, Len(@)),
                   !.pos = IF @ > size THEN @ - size ELSE 0]

-----------------------------------------------------------------------------
(***************************************************************************)
(* The decoder.                                                            *)
(***************************************************************************)

\* A header of a known type is at position p (counted from 0).
HeaderAt(data, p) ==
    /\ p + HdrSize <= Len(data)
    /\ data[p + 1].k \notin Alien
    /\ \A i \in 1..HdrSize : data[p + i] = [data[p + 1] EXCEPT !.o = i - 1]

\* Mutant: the bytes that may begin a header are thrown away too.
DecodeHeaderCleared(b) ==
    LET found == {p \in b.pos..Len(b.data) : HeaderAt(b.data, p)}
        first == CHOOSE p \in found : \A q \in found : p <= q
    IN  IF found # {}
        THEN [b |-> [RemoveFirst(b, first) EXCEPT !.pos = HdrSize], n |-> b.data[first + 1].n]
        ELSE [b |-> [b EXCEPT !.data = <<>>, !.pos = 0], n |-> 0]

\* obus_packet_decode_header: the first header from the read position on is
\* moved to the start of the buffer.  If there is none, the last bytes are
\* kept: a header may begin there.
DecodeHeader(b) ==
    LET found == {p \in b.pos..Len(b.data) : HeaderAt(b.data, p)}
        first == CHOOSE p \in found : \A q \in found : p <= q
        end == IF b.pos + HdrSize <= Len(b.data) THEN Len(b.data) - (HdrSize - 1) ELSE b.pos
    IN  IF found # {}
        THEN [b |-> RemoveFirst([b EXCEPT !.pos = first + HdrSize], first), n |-> b.data[first + 1].n]
        ELSE [b |-> IF Len(b.data) >= HdrSize
                    THEN RemoveFirst([b EXCEPT !.pos = end], Len(b.data) - (HdrSize - 1))
                    ELSE b,
              n |-> 0]

\* What obus_packet_decoder_read asks the socket for: the space that is left,
\* and when there is none the size of the buffer, which is doubled.
Space == IF rx.cap = Len(rx.data) THEN rx.cap ELSE rx.cap - Len(rx.data)

\* Mutant: read_more outlives the call.
DecodePacketMore(b, n) ==
    LET k == b.data[1].k
        ok == k \in Good /\ b.pos = HdrSize
    IN  /\ rx' = [RemoveFirst(b, Size[k]) EXCEPT !.pos = 0]
        /\ hdr' = 0
        /\ got' = IF ok THEN Append(got, n) ELSE got
        /\ more' = more

\* The packet is whole: its payload is decoded from the read position on and
\* the packet leaves the buffer.  If it cannot be decoded the loop goes on, and
\* reads first if it has already read.
DecodePacket(b, n) ==
    LET k == b.data[1].k
        ok == k \in Good /\ b.pos = HdrSize
    IN  /\ rx' = [RemoveFirst(b, Size[k]) EXCEPT !.pos = 0]
        /\ hdr' = 0
        /\ got' = IF ok THEN Append(got, n) ELSE got
        /\ more' = (more /\ ~ok)

\* The part of an iteration that follows the read, on buffer b.
Decode(b) ==
    LET h == IF hdr = 0 THEN DecodeHeader(b) ELSE [b |-> b, n |-> hdr]
    IN  IF h.n # 0 /\ Len(h.b.data) >= Size[h.b.data[1].k]
        THEN DecodePacket(h.b, h.n)
        ELSE rx' = h.b /\ hdr' = h.n /\ more' = TRUE /\ got' = got

\* The bytes are in the buffer already.
DecodeAgain ==
    /\ ctl = "read" /\ ~more
    /\ Decode(rx)
    /\ UNCHANGED <<up, conns, netVars, ctl, free, calls>>

\* obus_io_read takes n bytes from the socket.
ReadSome(n) ==
    /\ ctl = "read" /\ more /\ n \in 1..Len(wire) /\ n <= Space
    /\ Decode([rx EXCEPT !.data = @ \o SubSeq(wire, 1, n), !.cap = Len(rx.data) + Space])
    /\ wire' = SubSeq(wire, n + 1, Len(wire))
    /\ UNCHANGED <<up, conns, sent, eof, ctl, free, calls>>

\* There is nothing to read (EAGAIN): the loop waits for the next event.
ReadAgain ==
    /\ ctl = "read" /\ more /\ wire = <<>> /\ ~eof
    /\ rx' = [rx EXCEPT !.cap = Len(rx.data) + Space]
    /\ ctl' = "loop"
    /\ UNCHANGED <<up, conns, netVars, hdr, more, got, free, calls>>

\* obus_client_disconnect: obus_packet_decoder_destroy empties the buffer and
\* gives it back.
Disconnect ==
    /\ up' = FALSE /\ ctl' = "loop"
    /\ rx' = [rx EXCEPT !.data = <<>>]
    /\ free' = Append(free, [pos |-> rx.pos, cap |-> rx.cap])
    /\ sent' = <<>> /\ wire' = <<>> /\ eof' = FALSE /\ got' = <<>>
    /\ UNCHANGED <<conns, hdr, more, calls>>

\* End of file, or no memory for a larger buffer.
ReadFails ==
    /\ ctl = "read" /\ more
    /\ (eof /\ wire = <<>>) \/ rx.cap = Len(rx.data)
    /\ Disconnect

\* obus_client_io_read_event: the socket is readable.
ReadEvent ==
    /\ up /\ ctl = "loop" /\ (wire # <<>> \/ eof)
    /\ ctl' = "read" /\ more' = FALSE
    /\ UNCHANGED <<up, conns, netVars, rx, hdr, got, free, calls>>

\* The same with an error on the socket, or a write that fails.
ErrorEvent ==
    /\ up /\ ctl = "loop"
    /\ Disconnect

-----------------------------------------------------------------------------
(***************************************************************************)
(* The client and its server.                                              *)
(***************************************************************************)

\* obus_client_socket_connected: a buffer for the decoder, another for the
\* connection request, which comes back when it is written.
Connect ==
    /\ ~up /\ conns < MaxConns
    /\ up' = TRUE /\ conns' = conns + 1
    /\ rx' = [data |-> <<>>, pos |-> Peeked(free).pos, cap |-> Peeked(free).cap]
    /\ hdr' = 0
    /\ free' = Rotated(Left(free))
    /\ UNCHANGED <<netVars, more, ctl, got, calls>>

\* obus_client_call: another buffer goes through the pool.
Call ==
    /\ up /\ ctl = "loop" /\ calls < MaxCalls
    /\ calls' = calls + 1
    /\ free' = Rotated(free)
    /\ UNCHANGED <<up, conns, netVars, rx, hdr, more, ctl, got>>

\* The server sends a packet.
ServerSends(k) ==
    /\ up /\ ~eof /\ Len(sent) < MaxPackets
    /\ sent' = Append(sent, k)
    /\ wire' = wire \o BytesOf(Len(sent) + 1, k)
    /\ UNCHANGED <<up, conns, eof, rx, hdr, more, ctl, got, free, calls>>

\* The server closes, or dies in the middle of a packet: of what has not been
\* read only the first i bytes arrive.
ServerCloses(i) ==
    /\ up /\ ~eof
    /\ eof' = TRUE
    /\ wire' = SubSeq(wire, 1, i)
    /\ sent' = IF i < Len(wire) THEN SubSeq(sent, 1, wire[i + 1].n - 1) ELSE sent
    /\ UNCHANGED <<up, conns, rx, hdr, more, ctl, got, free, calls>>

ReadStep == DecodeAgain \/ (\E n \in 1..Len(wire) : ReadSome(n)) \/ ReadAgain \/ ReadFails

Next ==
    \/ ReadStep \/ ReadEvent \/ ErrorEvent
    \/ Connect \/ Call
    \/ \E k \in Kind : ServerSends(k)
    \/ \E i \in 0..Len(wire) : ServerCloses(i)

Spec == Init /\ [][Next]_vars

\* A call ends, and the event loop reports a readable socket.
Fairness == WF_vars(ReadStep) /\ WF_vars(ReadEvent)

FairSpec == Spec /\ Fairness

-----------------------------------------------------------------------------
(***************************************************************************)
(* Properties.                                                             *)
(***************************************************************************)

\* The header that the decoder remembers from one event to the next is that of
\* the packet at the start of the buffer, and the payload is read from where
\* the header ends, however many bytes obus_packet_decode_header has skipped
\* and removed.
HeaderAtStart ==
    up /\ hdr # 0 =>
        /\ rx.pos = HdrSize /\ Len(rx.data) >= HdrSize
        /\ \A i \in 1..Len(rx.data) :
             i <= Size[rx.data[1].k] => rx.data[i] = [n |-> hdr, k |-> rx.data[1].k, o |-> i - 1]

\* obus_packet_decoder_read returns the packets in the order in which they were
\* sent, none twice.
InOrder == \A i, j \in 1..Len(got) : i < j => got[i] < got[j]

\* No packet that can be decoded is passed over, whatever the pieces in which
\* it arrives and whatever precedes it: its first byte is in the buffer or
\* still to be read, or it has been returned.
NothingSkipped ==
    up => \A n \in 1..Len(sent) : sent[n] \in Good =>
        \/ \E i \in 1..Len(got) : got[i] = n
        \/ \E i \in 1..Len(rx.data) : rx.data[i].n = n /\ rx.data[i].o = 0
        \/ \E i \in 1..Len(wire) : wire[i].n = n /\ wire[i].o = 0

\* A packet that has arrived is returned, even if nothing arrives after it.
Delivered ==
    \A n \in 1..MaxPackets :
        up /\ n <= Len(sent) /\ sent[n] \in Good ~> ~up \/ \E i \in 1..Len(got) : got[i] = n

=============================================================================
