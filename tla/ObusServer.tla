----------------------------- MODULE ObusServer -----------------------------
(***************************************************************************)
(* The obus server (obus_server.c on top of obus_bus.c): it owns the       *)
(* objects, answers connection requests, broadcasts every change to its    *)
(* connected peers and runs the methods the peers call.                    *)
(*                                                                         *)
(* The server is one thread.  Its handlers are atomic except where they    *)
(* call user code: in the CONNECTING and CONNECTED peer callbacks and in   *)
(* method handlers, ctx is not "loop" and any API operation may run before *)
(* the handler resumes.  User code run by the DISCONNECTED callback is     *)
(* assumed not to send on the bus.                                         *)
(*                                                                         *)
(* Every write to a peer either queues the packet (obus_io_write returns 0 *)
(* or -EAGAIN) or fails; which writes fail is a free choice of each action *)
(* (the parameter lost of a broadcast).                                    *)
(***************************************************************************)
EXTENDS ObusLink

CONSTANT MaxOom  \* bound: failed allocations

ASSUME OomAssumption == MaxOom \in Nat

VARIABLES
    up,       \* the server runs
    sobj,     \* sobj[h]: "free", "new" (in the bus) or "registered"
    info,     \* info[h]: obj->info, None when h is free
    npeers,   \* srv->n_peers_connected
    ctx,      \* the user callback being run: [at, p, k, h]; p is None once
              \* that peer has been destroyed
    srvcall,  \* srv->call: NoCall, the call being handled, or one already freed
    oom       \* allocations that failed so far

serverVars == <<up, sobj, info, npeers, ctx, srvcall, oom>>
objVars == <<sobj, info>>

Loop == [at |-> "loop", p |-> None, k |-> None, h |-> None]
PeerCallback(at, p) == [at |-> at, p |-> p, k |-> None, h |-> None]
Method(p, k, h) == [at |-> "method", p |-> p, k |-> k, h |-> h]
NoCall == Loop
MethodCall == [at : {"method"}, p : Conn \cup {None}, k : CallHandle, h : Handle]
Context == {Loop} \cup MethodCall \cup
           [at : {"connecting", "connected"}, p : Conn \cup {None}, k : {None}, h : {None}]

ServerTypeOK ==
    /\ up \in BOOLEAN
    /\ sobj \in [Handle -> {"free", "new", "registered"}]
    /\ info \in [Handle -> Value \cup {None}]
    /\ \A h \in Handle : info[h] = None <=> sobj[h] = "free"
    /\ npeers \in Nat
    /\ ctx \in Context
    /\ srvcall \in {NoCall} \cup MethodCall
    /\ oom \in 0..MaxOom

ServerInit ==
    /\ up = FALSE
    /\ sobj = [h \in Handle |-> "free"]
    /\ info = [h \in Handle |-> None]
    /\ npeers = 0
    /\ ctx = Loop
    /\ srvcall = NoCall
    /\ oom = 0

Connected == {p \in Conn : peer[p] = "CONNECTED"}

\* The registered objects with their info: what a connected client should see.
ViewOf(obj, inf) == [h \in Handle |-> IF obj[h] = "registered" THEN inf[h] ELSE None]
ServerView == ViewOf(sobj, info)

(***************************************************************************)
(* Helpers that change the link.                                           *)
(***************************************************************************)

\* A context or a call after the peers in lost have been freed.
Without(lost, call) == IF call.p \in lost THEN [call EXCEPT !.p = None] ELSE call

\* Mutant: the peer is destroyed without being uncounted.
DestroyPeerUncounted(p) ==
    /\ srvcall' = Without({p}, srvcall)
    /\ peer' = [peer EXCEPT ![p] = "closed"]
    /\ c2s' = [c2s EXCEPT ![p] = <<>>]
    /\ UNCHANGED npeers

\* obus_peer_destroy: the io, the decoder and the socket of the peer go away
\* with everything the peer had sent.
DestroyPeer(p) ==
    /\ srvcall' = Without({p}, srvcall)
    /\ peer' = [peer EXCEPT ![p] = "closed"]
    /\ c2s' = [c2s EXCEPT ![p] = <<>>]
    /\ npeers' = IF peer[p] = "CONNECTED" THEN npeers - 1 ELSE npeers

\* The channel after a write to p that did not fail.  A client that is gone
\* gets nothing.
Written(p, m) == IF Open(p) /\ p \notin broken THEN Append(s2c[p], m) ELSE s2c[p]

\* Mutant: off by one in the test of n_peers_connected.
SendPeersOffByOne(m, lost) ==
    IF npeers <= 1
    THEN lost = {} /\ UNCHANGED <<peer, c2s, s2c, npeers, ctx, srvcall>>
    ELSE /\ peer' = [p \in Conn |-> IF p \in lost THEN "closed" ELSE peer[p]]
         /\ c2s' = [p \in Conn |-> IF p \in lost THEN <<>> ELSE c2s[p]]
         /\ s2c' = [p \in Conn |-> IF p \in Connected \ lost THEN Written(p, m) ELSE s2c[p]]
         /\ npeers' = npeers - Cardinality(lost)
         /\ ctx' = Without(lost, ctx)
         /\ srvcall' = Without(lost, srvcall)

\* obus_server_send_peers, with the test of n_peers_connected that precedes
\* it: m goes to every connected peer, and the peers in lost, whose write
\* fails, are destroyed.
SendPeers(m, lost) ==
    IF npeers = 0
    THEN lost = {} /\ UNCHANGED <<peer, c2s, s2c, npeers, ctx, srvcall>>
    ELSE /\ peer' = [p \in Conn |-> IF p \in lost THEN "closed" ELSE peer[p]]
         /\ c2s' = [p \in Conn |-> IF p \in lost THEN <<>> ELSE c2s[p]]
         /\ s2c' = [p \in Conn |-> IF p \in Connected \ lost THEN Written(p, m) ELSE s2c[p]]
         /\ npeers' = npeers - Cardinality(lost)
         /\ ctx' = Without(lost, ctx)
         /\ srvcall' = Without(lost, srvcall)

\* An allocation that user code or a handler needs fails.
Oom == oom < MaxOom /\ oom' = oom + 1

\* Bound on the packets in flight, for the operations user code starts.
Room == \A p \in Connected : Len(s2c[p]) < MaxInFlight

\* The server process ends: every socket it holds is closed.  This is also
\* what stands for a handler that resumes on a peer destroyed under it: the
\* decoder of that peer has lost its buffer (obus_packet_decoder_destroy), so
\* that the next read dereferences a null pointer.
Terminate ==
    /\ up' = FALSE
    /\ peer' = [p \in Conn |-> "closed"]
    /\ c2s' = [p \in Conn |-> <<>>]
    /\ sobj' = [h \in Handle |-> "free"]
    /\ info' = [h \in Handle |-> None]
    /\ npeers' = 0
    /\ ctx' = Loop
    /\ srvcall' = NoCall
    /\ UNCHANGED <<conn, s2c, broken, oom>>

(***************************************************************************)
(* Objects: the API operations, legal in any callback.                     *)
(***************************************************************************)

NewObject(h, v) ==
    /\ up
    /\ sobj[h] = "free"
    /\ sobj' = [sobj EXCEPT ![h] = "new"]
    /\ info' = [info EXCEPT ![h] = v]
    /\ UNCHANGED <<linkVars, up, npeers, ctx, srvcall, oom>>

DestroyObject(h) ==
    /\ sobj[h] = "new"
    /\ sobj' = [sobj EXCEPT ![h] = "free"]
    /\ info' = [info EXCEPT ![h] = None]
    /\ UNCHANGED <<linkVars, up, npeers, ctx, srvcall, oom>>

\* Mutant: the object is registered without telling the peers.
RegisterObjectSilent(h, lost) ==
    /\ sobj[h] = "new"
    /\ lost = {}
    /\ sobj' = [sobj EXCEPT ![h] = "registered"]
    /\ UNCHANGED <<linkVars, up, info, npeers, ctx, srvcall, oom>>

RegisterObject(h, lost) ==
    /\ sobj[h] = "new"
    /\ Room
    /\ sobj' = [sobj EXCEPT ![h] = "registered"]
    /\ SendPeers(AddPacket(h, info[h], ViewOf(sobj', info)), lost)
    /\ UNCHANGED <<conn, broken, up, info, oom>>

UnregisterObject(h, lost) ==
    /\ sobj[h] = "registered"
    /\ Room
    /\ sobj' = [sobj EXCEPT ![h] = "new"]
    /\ SendPeers(RemovePacket(h, ViewOf(sobj', info)), lost)
    /\ UNCHANGED <<conn, broken, up, info, oom>>

\* No buffer for the packet: the operation fails with -ENOMEM, but after the
\* object has changed state and without telling the peers.
RegisterObjectOom(h) ==
    /\ sobj[h] = "new"
    /\ npeers # 0
    /\ Oom
    /\ sobj' = [sobj EXCEPT ![h] = "registered"]
    /\ UNCHANGED <<linkVars, up, info, npeers, ctx, srvcall>>

UnregisterObjectOom(h) ==
    /\ sobj[h] = "registered"
    /\ npeers # 0
    /\ Oom
    /\ sobj' = [sobj EXCEPT ![h] = "new"]
    /\ UNCHANGED <<linkVars, up, info, npeers, ctx, srvcall>>

\* obus_server_send_event; with -ENOMEM nothing changes.
SendEvent(h, v, lost) ==
    /\ sobj[h] = "registered"
    /\ Room
    /\ info' = [info EXCEPT ![h] = v]
    /\ SendPeers(EventPacket(h, v, ViewOf(sobj, info')), lost)
    /\ UNCHANGED <<conn, broken, up, sobj, oom>>

\* A bus event changes several objects in one packet: it registers the objects
\* of add, updates those where ev is not None and unregisters those of rem.
\* -ENOMEM undoes the registrations, and nothing has changed.
SendBusEvent(add, rem, ev, lost) ==
    /\ \A h \in add : sobj[h] = "new"
    /\ \A h \in rem : sobj[h] = "registered"
    /\ \A h \in Handle : ev[h] # None => sobj[h] = "registered"
    /\ Room
    /\ sobj' = [h \in Handle |-> IF h \in add THEN "registered"
                                 ELSE IF h \in rem THEN "new" ELSE sobj[h]]
    /\ info' = [h \in Handle |-> IF ev[h] # None THEN ev[h] ELSE info[h]]
    /\ LET added == [h \in Handle |-> IF h \in add THEN info[h] ELSE None]
       IN  SendPeers(BusEventPacket(added, rem, ev, ViewOf(sobj', info')), lost)
    /\ UNCHANGED <<conn, broken, up, oom>>

(***************************************************************************)
(* Peers: connection and the two peer callbacks.                           *)
(***************************************************************************)

\* obus_server_accept; without memory the connection is closed at once.
Accept(p) ==
    /\ up
    /\ ctx = Loop
    /\ peer[p] = "backlog"
    /\ \/ /\ peer' = [peer EXCEPT ![p] = "IDLE"]
          /\ UNCHANGED <<c2s, npeers, srvcall, oom>>
       \/ DestroyPeer(p) /\ Oom
    /\ UNCHANGED <<conn, s2c, broken, up, objVars, ctx>>

\* The server reads an error or the end of the stream (obus_peer_io_read_event), or
\* gives up a write (obus_peer_io_write_done).
\* It may happen at any time; it must when the client is gone.
PeerError(p) ==
    /\ ctx = Loop
    /\ peer[p] \notin {"backlog", "closed"}
    /\ DestroyPeer(p)
    /\ UNCHANGED <<conn, s2c, broken, up, objVars, ctx, oom>>

Received(p, type) ==
    /\ ctx = Loop
    /\ peer[p] \notin {"backlog", "closed"}
    /\ c2s[p] # <<>>
    /\ Head(c2s[p]).type = type

\* Mutant: the peer is connected before the response is sent.
ConnectionRequestEarly(p) ==
    /\ Received(p, "CONREQ")
    /\ peer[p] = "IDLE" => Head(c2s[p]).compatible
    /\ c2s' = [c2s EXCEPT ![p] = Tail(@)]
    /\ IF peer[p] = "IDLE"
       THEN /\ peer' = [peer EXCEPT ![p] = "CONNECTED"]
            /\ npeers' = npeers + 1
            /\ ctx' = PeerCallback("connecting", p)
       ELSE UNCHANGED <<peer, npeers, ctx>>
    /\ UNCHANGED <<conn, s2c, broken, up, objVars, srvcall, oom>>

\* obus_peer_connection_request up to the CONNECTING callback.  A request
\* from a peer that is not idle is ignored.
ConnectionRequest(p) ==
    /\ Received(p, "CONREQ")
    /\ peer[p] = "IDLE" => Head(c2s[p]).compatible
    /\ c2s' = [c2s EXCEPT ![p] = Tail(@)]
    /\ IF peer[p] = "IDLE"
       THEN /\ peer' = [peer EXCEPT ![p] = "CONNECTING"]
            /\ ctx' = PeerCallback("connecting", p)
       ELSE UNCHANGED <<peer, ctx>>
    /\ UNCHANGED <<conn, s2c, broken, up, objVars, npeers, srvcall, oom>>

\* Another protocol version, bus name or crc: the client is refused without
\* asking the user.  If the answer cannot be written the peer is destroyed.
ConnectionRequestMismatch(p) ==
    /\ Received(p, "CONREQ")
    /\ peer[p] = "IDLE"
    /\ ~Head(c2s[p]).compatible
    /\ \/ /\ peer' = [peer EXCEPT ![p] = "REFUSED"]
          /\ c2s' = [c2s EXCEPT ![p] = Tail(@)]
          /\ s2c' = [s2c EXCEPT ![p] = Written(p, ConRespPacket(FALSE, ServerView))]
          /\ UNCHANGED <<npeers, srvcall>>
       \/ DestroyPeer(p) /\ UNCHANGED s2c
    /\ UNCHANGED <<conn, broken, up, objVars, ctx, oom>>

\* obus_peer_refuse_connection, from the CONNECTING callback.
RefuseConnection ==
    /\ ctx.at = "connecting"
    /\ peer[ctx.p] = "CONNECTING"
    /\ peer' = [peer EXCEPT ![ctx.p] = "REFUSED"]
    /\ UNCHANGED <<conn, c2s, s2c, broken, serverVars>>

\* Mutant: the response accepts a client that the user has refused.
ConnectionResponseAccepts ==
    LET p == ctx.p
        accepted == peer[p] = "CONNECTING"
    IN  /\ ctx.at = "connecting"
        /\ peer' = [peer EXCEPT ![p] = IF accepted THEN "CONNECTED" ELSE "REFUSED"]
        /\ s2c' = [s2c EXCEPT ![p] = Written(p, ConRespPacket(TRUE, ServerView))]
        /\ npeers' = IF accepted THEN npeers + 1 ELSE npeers
        /\ ctx' = IF accepted THEN PeerCallback("connected", p) ELSE Loop
        /\ UNCHANGED <<conn, c2s, broken, up, objVars, srvcall, oom>>

\* Mutant: the peer is connected but the response is not sent.
ConnectionResponseUnsent ==
    /\ ctx.at = "connecting"
    /\ peer' = [peer EXCEPT ![ctx.p] = IF @ = "CONNECTING" THEN "CONNECTED" ELSE "REFUSED"]
    /\ npeers' = IF peer[ctx.p] = "CONNECTING" THEN npeers + 1 ELSE npeers
    /\ ctx' = Loop
    /\ UNCHANGED <<conn, c2s, s2c, broken, up, objVars, srvcall, oom>>

\* The rest of obus_peer_connection_request: the response carries the objects
\* registered now, then the peer is connected and the user told so.
ConnectionResponse ==
    LET p == ctx.p
        accepted == peer[p] = "CONNECTING"
    IN  /\ ctx.at = "connecting"
        /\ peer' = [peer EXCEPT ![p] = IF accepted THEN "CONNECTED" ELSE "REFUSED"]
        /\ s2c' = [s2c EXCEPT ![p] = Written(p, ConRespPacket(accepted, ServerView))]
        /\ npeers' = IF accepted THEN npeers + 1 ELSE npeers
        /\ ctx' = IF accepted THEN PeerCallback("connected", p) ELSE Loop
        /\ UNCHANGED <<conn, c2s, broken, up, objVars, srvcall, oom>>

\* The response cannot be written: the peer is destroyed.
ConnectionResponseLost ==
    /\ ctx.at = "connecting"
    /\ DestroyPeer(ctx.p)
    /\ ctx' = Loop
    /\ UNCHANGED <<conn, s2c, broken, up, objVars, oom>>

\* The CONNECTED callback returns to obus_peer_io_read_event.
ConnectedReturn ==
    /\ ctx.at = "connected"
    /\ IF ctx.p = None THEN Terminate
       ELSE ctx' = Loop /\ UNCHANGED <<linkVars, up, objVars, npeers, srvcall, oom>>

(***************************************************************************)
(* Method calls.                                                           *)
(***************************************************************************)

\* The packet of obus_server_send_ack: it is written, or its write fails.
\* That error is ignored here, the peer is destroyed when it is next read.
AckWritten(p, k, h, st) ==
    \/ /\ s2c' = [s2c EXCEPT ![p] = Written(p, AckPacket(k, st, h, ServerView))]
       /\ UNCHANGED broken
    \/ broken' = broken \cup {p} /\ UNCHANGED s2c

\* obus_server_send_ack for srv->call = call.  Without memory for the packet
\* srv->call is kept; without memory to queue it the packet is lost.
Acknowledge(call, st) ==
    \/ /\ AckWritten(call.p, call.k, call.h, st)
       /\ srvcall' = NoCall
       /\ UNCHANGED oom
    \/ Oom /\ srvcall' \in {call, NoCall} /\ UNCHANGED <<s2c, broken>>

\* The call at the head of the channel.
Request(p) == Method(p, Head(c2s[p]).k, Head(c2s[p]).h)

\* obus_call_decode: the object has left the bus, the call is dropped.
CallUndecodable(p) ==
    /\ Received(p, "CALL")
    /\ sobj[Request(p).h] = "free"
    /\ c2s' = [c2s EXCEPT ![p] = Tail(@)]
    /\ UNCHANGED <<conn, peer, s2c, broken, serverVars>>

\* obus_peer_call_request without a method to run.  Here as in CallRequest the
\* state of the peer is not looked at.
CallRejected(p) ==
    LET call == Request(p)
    IN  /\ Received(p, "CALL")
        /\ \/ sobj[call.h] = "new" /\ Acknowledge(call, "ABORTED")
           \/ /\ sobj[call.h] = "registered"
              /\ info[call.h] \notin Enabled
              /\ Acknowledge(call, "METHOD_DISABLED")
        /\ c2s' = [c2s EXCEPT ![p] = Tail(@)]
        /\ UNCHANGED <<conn, peer, up, objVars, npeers, ctx>>

\* obus_peer_call_request up to the method handler.
CallRequest(p) ==
    LET call == Request(p)
    IN  /\ Received(p, "CALL")
        /\ sobj[call.h] = "registered"
        /\ info[call.h] \in Enabled
        /\ ctx' = call
        /\ srvcall' = call
        /\ c2s' = [c2s EXCEPT ![p] = Tail(@)]
        /\ UNCHANGED <<conn, peer, s2c, broken, up, objVars, npeers, oom>>

\* User code acknowledges the call of the running handler, at most once since
\* srv->call is then null.
SendAck ==
    /\ ctx.at = "method"
    /\ srvcall = ctx
    /\ IF ctx.p = None THEN Terminate
       ELSE /\ Acknowledge(ctx, "ACKED")
            /\ UNCHANGED <<conn, peer, c2s, up, objVars, npeers, ctx>>

\* User code acknowledges a call whose handler has returned: refused when
\* srv->call is null.  It is not after a failed allocation, and the call it
\* points to has been freed: the server may die or send the packet.
SendAckLate ==
    /\ srvcall \notin {NoCall, ctx}
    /\ \/ Terminate
       \/ /\ srvcall.p # None
          /\ AckWritten(srvcall.p, srvcall.k, srvcall.h, "ACKED")
          /\ srvcall' = NoCall
          /\ UNCHANGED <<conn, peer, c2s, up, objVars, npeers, ctx, oom>>

\* Mutant: no default answer when the handler has not acknowledged the call.
MethodReturnSilent ==
    /\ ctx.at = "method"
    /\ IF ctx.p = None THEN Terminate
       ELSE /\ srvcall' = NoCall
            /\ ctx' = Loop
            /\ UNCHANGED <<linkVars, up, objVars, npeers, oom>>

\* The method handler returns; a call it has not acknowledged is refused.
MethodReturn ==
    /\ ctx.at = "method"
    /\ IF ctx.p = None THEN Terminate
       ELSE /\ IF srvcall = ctx THEN Acknowledge(ctx, "REFUSED")
               ELSE UNCHANGED <<s2c, broken, srvcall, oom>>
            /\ ctx' = Loop
            /\ UNCHANGED <<conn, peer, c2s, up, objVars, npeers>>

(***************************************************************************)
(* The life of the server.                                                 *)
(***************************************************************************)

\* obus_server_new and obus_server_start.
ServerStart ==
    /\ ~up
    /\ up' = TRUE
    /\ UNCHANGED <<linkVars, objVars, npeers, ctx, srvcall, oom>>

\* obus_server_destroy, or the end of the process in any other way.
ServerStop == up /\ Terminate

ServerApi ==
    \/ \E h \in Handle, v \in Value : NewObject(h, v)
    \/ \E h \in Handle : DestroyObject(h) \/ RegisterObjectOom(h) \/ UnregisterObjectOom(h)
    \/ \E lost \in SUBSET Connected, h \in Handle :
          \/ RegisterObject(h, lost)
          \/ UnregisterObject(h, lost)
          \/ \E v \in Value : SendEvent(h, v, lost)
    \/ \E lost \in SUBSET Connected, add, rem \in SUBSET Handle, ev \in View :
          SendBusEvent(add, rem, ev, lost)
    \/ RefuseConnection
    \/ SendAck
    \/ SendAckLate

ServerHandler ==
    \/ \E p \in Conn :
          \/ Accept(p)
          \/ PeerError(p)
          \/ ConnectionRequest(p)
          \/ ConnectionRequestMismatch(p)
          \/ CallUndecodable(p)
          \/ CallRejected(p)
          \/ CallRequest(p)
    \/ ConnectionResponse
    \/ ConnectionResponseLost
    \/ ConnectedReturn
    \/ MethodReturn

ServerNext == ServerApi \/ ServerHandler \/ ServerStart \/ ServerStop

=============================================================================
