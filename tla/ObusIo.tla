------------------------------- MODULE ObusIo -------------------------------
(***************************************************************************)
(* Asynchronous writes (obus_io.c) of reference-counted buffers that come  *)
(* from a pool (obus_buffer.h), as the server and the client use them.     *)
(*                                                                         *)
(* A packet is encoded in a buffer of the pool and written.  What the      *)
(* socket does not take waits in the queue of the io, and the loop calls   *)
(* obus_io_write_events when the socket is writable.  A broadcast puts the *)
(* same buffer in the queues of several ios.  The completion callback      *)
(* gives the buffer back, and destroys the io when the write has failed.   *)
(*                                                                         *)
(* The free list of the pool is a set: which free buffer is taken is left  *)
(* open.  The two loops (over the peers in obus_server_send_peers, over    *)
(* the queue in obus_io_write_events) take one step per iteration; nothing *)
(* else runs in between.                                                   *)
(***************************************************************************)
EXTENDS Integers, Sequences, FiniteSets

CONSTANTS
    Io,          \* the ios, one per connection
    Buf,         \* the buffers that fit in memory
    None,        \* no io, no buffer
    PacketLen,   \* the length of a packet
    MaxPackets,  \* bound: packets written
    MaxFaults    \* bound: failed allocations and failed registrations in the loop

ASSUME IoAssumption ==
    /\ IsFiniteSet(Io) /\ IsFiniteSet(Buf)
    /\ None \notin Io \cup Buf
    /\ PacketLen \in Nat \ {0}
    /\ MaxPackets \in Nat /\ MaxFaults \in Nat

VARIABLES
    open,     \* the ios that exist
    queue,    \* queue[i]: io->write_buffers
    written,  \* written[i]: io->nbr_written
    wfd,      \* the ios whose write_fd is in the loop
    timer,    \* the ios whose write_timer is set
    rx,       \* rx[i]: the buffer of the decoder that reads the same socket
    refcnt,   \* refcnt[b]: buf->refcnt
    free,     \* the pool
    content,  \* content[b]: the packet in the buffer, 0 for anything else
    out,      \* out[i]: what the socket took: [pkt, n], n bytes of packet pkt
    dead,     \* the ios whose socket takes nothing any more
    ctx,      \* the loop being run
    npkt,     \* packets so far
    faults    \* faults so far

queueVars == <<queue, written, wfd, timer>>
poolVars == <<refcnt, free>>
socketVars == <<out, dead>>
vars == <<open, queueVars, rx, poolVars, content, socketVars, ctx, npkt, faults>>

Packet == 1..MaxPackets
Loop == [at |-> "loop", io |-> None, buf |-> None, todo |-> {}, first |-> FALSE]
Sending(b, todo) == [Loop EXCEPT !.at = "send_peers", !.buf = b, !.todo = todo]
Writing(i, first) == [Loop EXCEPT !.at = "write_events", !.io = i, !.first = first]
Crashed == [Loop EXCEPT !.at = "crashed"]

Init ==
    /\ open = {} /\ wfd = {} /\ timer = {} /\ dead = {}
    /\ queue = [i \in Io |-> <<>>]
    /\ written = [i \in Io |-> 0]
    /\ rx = [i \in Io |-> None]
    /\ refcnt = [b \in Buf |-> 0]
    /\ free = Buf
    /\ content = [b \in Buf |-> 0]
    /\ out = [i \in Io |-> <<>>]
    /\ ctx = Loop
    /\ npkt = 0 /\ faults = 0

-----------------------------------------------------------------------------
(***************************************************************************)
(* Buffers.                                                                *)
(***************************************************************************)

\* obus_buffer_pool_peek, and n - 1 times obus_buffer_ref.
Peek(b, n) ==
    /\ refcnt' = [refcnt EXCEPT ![b] = n]
    /\ free' = free \ {b}

\* Mutant: every reference that is given back gives the buffer back.
UnrefAny(drop) ==
    /\ refcnt' = [b \in Buf |-> refcnt[b] - drop[b]]
    /\ free' = free \cup {b \in Buf : drop[b] # 0}

\* obus_buffer_unref, drop[b] times: the last reference gives the buffer back.
Unref(drop) ==
    /\ refcnt' = [b \in Buf |-> refcnt[b] - drop[b]]
    /\ free' = free \cup {b \in Buf : drop[b] # 0 /\ drop[b] = refcnt[b]}

Times(b, n) == [x \in Buf |-> IF x = b THEN n ELSE 0]

\* A fresh packet is encoded in the buffer.
Encode(b) ==
    /\ npkt < MaxPackets
    /\ npkt' = npkt + 1
    /\ content' = [content EXCEPT ![b] = npkt + 1]

Fault ==
    /\ faults < MaxFaults
    /\ faults' = faults + 1

-----------------------------------------------------------------------------
(***************************************************************************)
(* The socket, and obus_io_write.                                          *)
(***************************************************************************)

\* The socket takes k bytes of packet p, from byte from on.  Bytes of another
\* packet than the one that was begun make a packet that nobody wrote.
Take(i, p, from, k) ==
    IF k = 0 THEN out
    ELSE IF from = 0 THEN [out EXCEPT ![i] = Append(@, [pkt |-> p, n |-> k])]
    ELSE [out EXCEPT ![i][Len(out[i])] =
              [pkt |-> IF @.pkt = p /\ @.n = from THEN p ELSE 0, n |-> from + k]]

\* Mutant: a packet is written although others wait.
WriteSyncOvertakes(i, p) ==
    /\ i \notin dead
    /\ out' = Take(i, p, 0, PacketLen)
    /\ UNCHANGED <<dead, queueVars, faults>>

\* The queue is empty and the socket takes the packet: 0 is returned.
WriteSync(i, p) ==
    /\ queue[i] = <<>> /\ i \notin dead
    /\ out' = Take(i, p, 0, PacketLen)
    /\ UNCHANGED <<dead, queueVars, faults>>

\* The packet waits behind others: -EAGAIN is returned.
WriteQueued(i, b) ==
    /\ queue[i] # <<>>
    /\ queue' = [queue EXCEPT ![i] = Append(@, b)]
    /\ UNCHANGED <<written, wfd, timer, socketVars, faults>>

\* Mutant: the timer is not started.
WriteBlockedUntimed(i, b, p) ==
    /\ queue[i] = <<>> /\ i \notin dead
    /\ \E k \in 0..(PacketLen - 1) :
        /\ out' = Take(i, p, 0, k)
        /\ written' = [written EXCEPT ![i] = k]
    /\ queue' = [queue EXCEPT ![i] = <<b>>]
    /\ \/ wfd' = wfd \cup {i} /\ UNCHANGED faults
       \/ Fault /\ UNCHANGED wfd
    /\ UNCHANGED <<timer, dead>>

\* The socket blocks after k bytes: the rest waits for the loop and the timer,
\* and -EAGAIN is returned.  obus_loop_add may fail, which is not looked at.
WriteBlocked(i, b, p) ==
    /\ queue[i] = <<>> /\ i \notin dead
    /\ \E k \in 0..(PacketLen - 1) :
        /\ out' = Take(i, p, 0, k)
        /\ written' = [written EXCEPT ![i] = k]
    /\ queue' = [queue EXCEPT ![i] = <<b>>]
    /\ \/ wfd' = wfd \cup {i} /\ UNCHANGED faults
       \/ Fault /\ UNCHANGED wfd
    /\ timer' = timer \cup {i}
    /\ UNCHANGED dead

\* The socket fails after k bytes of packet p, from byte from on.
SocketFails(i, p, from) ==
    /\ \E k \in 0..(PacketLen - from - 1) :
        /\ i \in dead => k = 0
        /\ out' = Take(i, p, from, k)
    /\ UNCHANGED faults

\* An error is returned: the socket fails, or there is no memory for the node
\* of the queue, maybe after a part of the packet has left.  The caller says
\* whether the io lives on (dead'), and what becomes of the queue.
WriteFails(i, p) ==
    \/ queue[i] = <<>> /\ SocketFails(i, p, 0)
    \/ /\ Fault
       /\ \/ queue[i] # <<>> /\ UNCHANGED out
          \/ /\ queue[i] = <<>> /\ i \notin dead
             /\ \E k \in 0..(PacketLen - 1) : out' = Take(i, p, 0, k)

\* obus_io_destroy and obus_packet_decoder_destroy.  Each queued buffer loses
\* the reference of the io, the first one done references more when its write
\* was completed before; the decoder's buffer is given back.
CloseIo(i, done) ==
    /\ open' = open \ {i} /\ wfd' = wfd \ {i} /\ timer' = timer \ {i} /\ dead' = dead \ {i}
    /\ queue' = [queue EXCEPT ![i] = <<>>]
    /\ written' = [written EXCEPT ![i] = 0]
    /\ rx' = [rx EXCEPT ![i] = None]
    /\ Unref([b \in Buf |-> Cardinality({j \in 1..Len(queue[i]) : queue[i][j] = b})
                            + (IF queue[i] # <<>> /\ b = queue[i][1] THEN done ELSE 0)
                            + (IF b = rx[i] THEN 1 ELSE 0)])

-----------------------------------------------------------------------------
(***************************************************************************)
(* The users: connections come and go, packets are written.                *)
(***************************************************************************)

\* obus_server_accept, obus_client_socket_connected: an io and a decoder.
OpenIo(i) ==
    /\ ctx = Loop /\ i \notin open
    /\ open' = open \cup {i}
    /\ \E b \in free :
        /\ Peek(b, 1)
        /\ rx' = [rx EXCEPT ![i] = b]
        /\ content' = [content EXCEPT ![b] = 0]
    /\ out' = [out EXCEPT ![i] = <<>>]
    /\ UNCHANGED <<queueVars, dead, ctx, npkt, faults>>

\* The connection is closed for a reason of its own: the other end has closed,
\* a read fails, the server or the client stops.
DestroyIo(i) ==
    /\ ctx = Loop /\ i \in open
    /\ CloseIo(i, 0)
    /\ UNCHANGED <<content, out, ctx, npkt, faults>>

\* The other end is gone: every write will fail.
SocketDies(i) ==
    /\ i \in open \ dead
    /\ dead' = dead \cup {i}
    /\ UNCHANGED <<open, queueVars, rx, poolVars, content, out, ctx, npkt, faults>>

\* A packet for one connection: a connection request or response (the io is
\* destroyed when the write fails), a call or an acknowledgement (it is kept).
\* The writer's reference goes to the queue, or is given back at once.
Send(i, kept) ==
    /\ ctx = Loop /\ i \in open
    /\ \E b \in free :
        /\ Encode(b)
        /\ \/ WriteSync(i, npkt') /\ UNCHANGED <<open, rx, poolVars>>
           \/ (WriteQueued(i, b) \/ WriteBlocked(i, b, npkt')) /\ Peek(b, 2) /\ UNCHANGED <<open, rx>>
           \/ /\ WriteFails(i, npkt')
              /\ IF kept THEN /\ dead' = IF faults' = faults THEN dead \cup {i} ELSE dead
                              /\ UNCHANGED <<open, queueVars, rx, poolVars>>
                         ELSE CloseIo(i, 0)
    /\ UNCHANGED ctx

\* A packet for the connected peers: obus_server_send_peers is called with
\* the only reference to the buffer.
SendPeers(todo) ==
    /\ ctx = Loop /\ todo # {}
    /\ \E b \in free : Encode(b) /\ Peek(b, 1) /\ ctx' = Sending(b, todo)
    /\ UNCHANGED <<open, queueVars, rx, socketVars, faults>>

\* One peer of obus_server_send_peers.  The queue holds two references, the
\* io's and the one its completion callback gives back.
SendPeer(i) ==
    /\ ctx.at = "send_peers" /\ i \in ctx.todo
    /\ ctx' = [ctx EXCEPT !.todo = @ \ {i}]
    /\ LET b == ctx.buf
           p == content[b]
       IN  \/ WriteSync(i, p) /\ UNCHANGED <<open, rx, poolVars>>
           \/ /\ WriteQueued(i, b) \/ WriteBlocked(i, b, p)
              /\ Peek(b, refcnt[b] + 2)
              /\ UNCHANGED <<open, rx>>
           \/ WriteFails(i, p) /\ CloseIo(i, 0)
    /\ UNCHANGED <<content, npkt>>

\* The caller of obus_server_send_peers gives its reference back.
SendPeersEnd ==
    /\ ctx.at = "send_peers" /\ ctx.todo = {}
    /\ Unref(Times(ctx.buf, 1))
    /\ ctx' = Loop
    /\ UNCHANGED <<open, queueVars, rx, content, socketVars, npkt, faults>>

-----------------------------------------------------------------------------
(***************************************************************************)
(* The loop: obus_io_write_events and obus_io_write_timer.                 *)
(***************************************************************************)

\* The socket is writable.  (The loop reports nothing else on this
\* descriptor but errors.)
WriteEvents(i) ==
    /\ ctx = Loop /\ i \in wfd
    /\ timer' = timer \ {i}
    /\ ctx' = Writing(i, TRUE)
    /\ UNCHANGED <<open, queue, written, wfd, rx, poolVars, content, socketVars, npkt, faults>>

\* The rest of the first buffer is taken: obus_io_write_buffer_complete gives
\* back the io's reference, and the callback its own.
WriteDone(i) ==
    /\ ctx.at = "write_events" /\ ctx.io = i /\ queue[i] # <<>> /\ i \notin dead
    /\ out' = Take(i, content[Head(queue[i])], written[i], PacketLen - written[i])
    /\ queue' = [queue EXCEPT ![i] = Tail(@)]
    /\ written' = [written EXCEPT ![i] = 0]
    /\ Unref(Times(Head(queue[i]), 2))
    /\ ctx' = Writing(i, FALSE)
    /\ UNCHANGED <<open, wfd, timer, rx, content, dead, npkt, faults>>

\* Mutant: the timer is not started again.
WriteAgainUntimed(i) ==
    /\ ctx.at = "write_events" /\ ctx.io = i /\ queue[i] # <<>> /\ i \notin dead
    /\ \E k \in (IF ctx.first THEN 1 ELSE 0)..(PacketLen - written[i] - 1) :
        /\ out' = Take(i, content[Head(queue[i])], written[i], k)
        /\ written' = [written EXCEPT ![i] = @ + k]
    /\ ctx' = Loop
    /\ UNCHANGED <<open, queue, wfd, timer, rx, poolVars, content, dead, npkt, faults>>

\* The socket blocks; a socket that was reported writable takes something first.
WriteAgain(i) ==
    /\ ctx.at = "write_events" /\ ctx.io = i /\ queue[i] # <<>> /\ i \notin dead
    /\ \E k \in (IF ctx.first THEN 1 ELSE 0)..(PacketLen - written[i] - 1) :
        /\ out' = Take(i, content[Head(queue[i])], written[i], k)
        /\ written' = [written EXCEPT ![i] = @ + k]
    /\ timer' = timer \cup {i}
    /\ ctx' = Loop
    /\ UNCHANGED <<open, queue, wfd, rx, poolVars, content, dead, npkt, faults>>

\* The socket fails: the callback destroys the io.  The function goes on with
\* the freed io: it finds an empty queue and a descriptor that is not in the
\* loop, or the process dies.
WriteError(i) ==
    /\ ctx.at = "write_events" /\ ctx.io = i /\ queue[i] # <<>>
    /\ SocketFails(i, content[Head(queue[i])], written[i])
    /\ CloseIo(i, 1)
    /\ ctx' \in {Loop, Crashed}
    /\ UNCHANGED <<content, npkt>>

\* The queue is empty: the descriptor leaves the loop.
WriteEnd(i) ==
    /\ ctx.at = "write_events" /\ ctx.io = i /\ queue[i] = <<>>
    /\ wfd' = wfd \ {i}
    /\ ctx' = Loop
    /\ UNCHANGED <<open, queue, written, timer, rx, poolVars, content, socketVars, npkt, faults>>

\* obus_io_write_buffer_complete with an error: nothing if the queue is empty,
\* else the callback destroys the io.
CompleteFailed(i) ==
    IF queue[i] = <<>>
    THEN timer' = timer \ {i} /\ UNCHANGED <<open, queue, written, wfd, rx, poolVars, dead>>
    ELSE CloseIo(i, 1)

\* obus_io_write_events with an error event, obus_io_write_timer.
WriteGivenUp(i) ==
    /\ ctx = Loop
    /\ i \in wfd \cap dead \/ i \in timer
    /\ CompleteFailed(i)
    /\ UNCHANGED <<content, out, ctx, npkt, faults>>

WriteStep(i) == WriteDone(i) \/ WriteAgain(i) \/ WriteError(i) \/ WriteEnd(i)

Next ==
    \/ \E i \in Io :
        \/ OpenIo(i) \/ DestroyIo(i) \/ SocketDies(i)
        \/ Send(i, TRUE) \/ Send(i, FALSE)
        \/ SendPeer(i)
        \/ WriteEvents(i) \/ WriteStep(i) \/ WriteGivenUp(i)
    \/ \E todo \in SUBSET open : SendPeers(todo)
    \/ SendPeersEnd

Spec == Init /\ [][Next]_vars

\* Handlers end, and the loop serves every descriptor and every timer: a
\* socket with a queue becomes writable, fails, or its timer expires.
Fairness ==
    /\ WF_vars(SendPeersEnd)
    /\ \A i \in Io : /\ WF_vars(SendPeer(i)) /\ WF_vars(WriteStep(i))
                     /\ SF_vars(WriteEvents(i) \/ WriteGivenUp(i))

FairSpec == Spec /\ Fairness

-----------------------------------------------------------------------------
(***************************************************************************)
(* Properties.                                                             *)
(***************************************************************************)

Queued(i, b) == \E j \in 1..Len(queue[i]) : queue[i][j] = b

\* A buffer is in the pool exactly when nobody has a reference to it, and no
\* buffer that waits to be written, that a decoder reads into or that is being
\* broadcast is in the pool, where the next packet would overwrite it.
NotReused ==
    /\ \A b \in Buf : b \in free <=> refcnt[b] = 0
    /\ \A b \in free : b # ctx.buf /\ \A i \in Io : b # rx[i] /\ ~Queued(i, b)

\* Between two events an io with a queue has its timer running, so that a
\* connection whose other end reads nothing is given up, and one without a
\* queue is not in the loop for writing and has nothing half written.
Watched ==
    \A i \in Io : ctx.io # i =>
        IF queue[i] # <<>> THEN i \in timer
        ELSE i \notin wfd \cup timer /\ written[i] = 0

\* The packets that have wholly left, up to the first that has not.
Whole(i) ==
    LET whole == {j \in 1..Len(out[i]) : \A x \in 1..j : out[i][x].n = PacketLen}
    IN  [j \in whole |-> out[i][j].pkt]

Waiting(i) == [j \in 1..Len(queue[i]) |-> content[queue[i][j]]]

Channel == INSTANCE ObusChannel
    WITH up <- open, wire <- [i \in Io |-> Whole(i)], pend <- [i \in Io |-> Waiting(i)]

\* The queue with its partial writes and its shared, recycled buffers is a
\* channel: packets leave whole, once and in the order in which they were
\* written, as long as no allocation fails.
ChannelSpec == Channel!Init /\ [][Channel!Next \/ faults' # 0]_(Channel!vars)

\* A queued packet does not wait for ever: it is written or its connection is
\* closed (or the process has died).
QueueDrains ==
    \A i \in Io, p \in Packet :
        (\E b \in Buf : Queued(i, b) /\ content[b] = p)
            ~> \/ ctx = Crashed
               \/ ~\E b \in Buf : Queued(i, b) /\ content[b] = p

-----------------------------------------------------------------------------
(***************************************************************************)
(* What the code does not do, although its comments suggest it: TLC finds  *)
(* a counterexample to each of these (see the README).                     *)
(***************************************************************************)

\* A packet that was begun is finished before the next one: whatever the socket
\* accepts at a time, obus_io_write remembers how much of it has been written.
FramesWhole == \A i \in Io : \A k \in 1..(Len(out[i]) - 1) : out[i][k].n = PacketLen

\* obus_io.c:337: "give back pending non written buffer".  Between two events
\* a buffer that no queue and no decoder holds is in the pool.
GivenBack ==
    ctx = Loop => \A b \in Buf \ free : \E i \in Io : b = rx[i] \/ Queued(i, b)

=============================================================================
