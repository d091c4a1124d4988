----------------------------- MODULE ObusClient -----------------------------
(***************************************************************************)
(* The obus clients (obus_client.c on top of obus_bus.c): each keeps a     *)
(* connection to the server, a replica of the server's registered objects  *)
(* and the table of its calls that are not acknowledged yet.               *)
(*                                                                         *)
(* A client is one thread and its handlers are atomic.  User code runs in  *)
(* the callbacks of the handlers; calling a method there is the same as    *)
(* calling it just before or just after the handler, with one exception:   *)
(* the callbacks of an object that is being removed, which RemoveCallback  *)
(* represents.                                                             *)
(***************************************************************************)
EXTENDS ObusLink

CONSTANT CallsInRemove  \* user code may call an object from its remove callback

ASSUME CallsInRemoveAssumption == CallsInRemove \in BOOLEAN

VARIABLES
    cstate,   \* cstate[c]: enum obus_client_state, "none" without a client
    replica,  \* replica[c]: the client's registered objects and their info
    pending   \* pending[c][k]: the object of the call with handle k, or None

clientVars == <<cstate, replica, pending>>

\* STATE_DISCONNECTING only exists inside obus_client_disconnect and
\* STATE_DISCONNECTED inside obus_client_destroy; "crashed" is the end of a
\* process that has dereferenced a null object.
ClientState == {"none", "IDLE", "CONNECTING", "CONNECTED", "REFUSED", "crashed"}

NoCalls == [k \in CallHandle |-> None]

ClientTypeOK ==
    /\ cstate \in [Client -> ClientState]
    /\ replica \in [Client -> View]
    /\ pending \in [Client -> [CallHandle -> Handle \cup {None}]]

ClientInit ==
    /\ cstate = [c \in Client |-> "none"]
    /\ replica = [c \in Client |-> EmptyView]
    /\ pending = [c \in Client |-> NoCalls]

(***************************************************************************)
(* The effect of packets on the objects and the calls of a client.         *)
(***************************************************************************)

\* obus_client_add_object on every object of objs: one whose handle is already
\* in use is dropped.
Added(view, objs) == [h \in Handle |-> IF view[h] = None THEN objs[h] ELSE view[h]]

\* obus_event_decode and obus_event_commit: an event on an unknown object is
\* dropped.
Updated(view, ev) ==
    [h \in Handle |-> IF view[h] # None /\ ev[h] # None THEN ev[h] ELSE view[h]]

Removed(view, rem) == [h \in Handle |-> IF h \in rem THEN None ELSE view[h]]

Known(view, rem) == {h \in rem : view[h] # None}

\* obus_bus_abort_call for the objects of rem.
Aborted(calls, rem) == [k \in CallHandle |-> IF calls[k] \in rem THEN None ELSE calls[k]]

Only(h, v) == [EmptyView EXCEPT ![h] = v]

\* Mutant: a bus event is committed without its removes.
ApplyNoRemove(view, m) ==
    CASE m.type = "CONRESP" -> Added(view, m.objs)
      [] m.type = "ADD" -> Added(view, Only(m.h, m.v))
      [] m.type = "EVENT" -> Updated(view, Only(m.h, m.v))
      [] m.type = "REMOVE" -> Removed(view, {m.h})
      [] m.type = "BUS_EVENT" -> Added(Updated(view, m.ev), m.add)
      [] OTHER -> view

\* The registry of a client with registry view after packet m.
Apply(view, m) ==
    CASE m.type = "CONRESP" -> Added(view, m.objs)
      [] m.type = "ADD" -> Added(view, Only(m.h, m.v))
      [] m.type = "EVENT" -> Updated(view, Only(m.h, m.v))
      [] m.type = "REMOVE" -> Removed(view, {m.h})
      [] m.type = "BUS_EVENT" ->
           \* removes and events are decoded before the adds are committed
           Removed(Added(Updated(view, m.ev), m.add), Known(view, m.rem))
      [] OTHER -> view

(***************************************************************************)
(* Connection.                                                             *)
(***************************************************************************)

ClientNew(c) ==
    /\ cstate[c] \in {"none", "crashed"}
    /\ cstate' = [cstate EXCEPT ![c] = "IDLE"]
    /\ UNCHANGED <<linkVars, replica, pending>>

ClientStart(c) ==
    /\ cstate[c] = "IDLE"
    /\ cstate' = [cstate EXCEPT ![c] = "CONNECTING"]
    /\ UNCHANGED <<linkVars, replica, pending>>

\* obus_client_socket_connected: the connection request is sent, or its write
\* fails and the socket is closed again.  listening: some server accepts.
SocketConnected(c, p, listening) ==
    /\ listening
    /\ cstate[c] = "CONNECTING"
    /\ conn[c] = None
    /\ Unused(p)
    /\ peer' = [peer EXCEPT ![p] = "backlog"]
    /\ broken' = broken \ {p}
    /\ \/ /\ conn' = [conn EXCEPT ![c] = p]
          /\ c2s' = [c2s EXCEPT ![p] = <<ConReqPacket(c)>>]
       \/ UNCHANGED <<conn, c2s>>
    /\ UNCHANGED <<s2c, clientVars>>

\* The client end closes: what it has not read is lost.
CloseSocket(c) ==
    /\ conn' = [conn EXCEPT ![c] = None]
    /\ s2c' = IF conn[c] = None THEN s2c ELSE [s2c EXCEPT ![conn[c]] = <<>>]
    /\ UNCHANGED <<peer, broken>>

\* obus_client_disconnect_bus: all the objects are removed, their calls aborted.
DisconnectBus(c) ==
    /\ replica' = [replica EXCEPT ![c] = EmptyView]
    /\ pending' = [pending EXCEPT ![c] = Aborted(@, {h \in Handle : replica[c][h] # None})]

\* obus_client_disconnect on a read or write error: the socket will reconnect.
\* It may happen at any time; it must when the server end is closed.
ClientError(c) ==
    /\ conn[c] # None
    /\ CloseSocket(c)
    /\ cstate' = [cstate EXCEPT ![c] = "CONNECTING"]
    /\ IF cstate[c] = "CONNECTED" THEN DisconnectBus(c) ELSE UNCHANGED <<replica, pending>>
    /\ UNCHANGED c2s

\* obus_client_destroy, or the end of the process in any other way.
ClientDestroy(c) ==
    /\ cstate[c] \notin {"none", "crashed"}
    /\ CloseSocket(c)
    /\ cstate' = [cstate EXCEPT ![c] = "none"]
    /\ replica' = [replica EXCEPT ![c] = EmptyView]
    /\ pending' = [pending EXCEPT ![c] = NoCalls]
    /\ UNCHANGED c2s

(***************************************************************************)
(* Packets.                                                                *)
(***************************************************************************)

Incoming(c) == s2c[conn[c]]

Receive(c, type) ==
    /\ conn[c] # None
    /\ Incoming(c) # <<>>
    /\ Head(Incoming(c)).type = type
    /\ s2c' = [s2c EXCEPT ![conn[c]] = Tail(@)]
    /\ UNCHANGED <<conn, peer, broken>>

\* obus_client_connection_response; ignored unless the client is connecting.
ConnectionResponseHandler(c) ==
    LET m == Head(Incoming(c))
    IN  /\ Receive(c, "CONRESP")
        /\ IF cstate[c] # "CONNECTING" THEN UNCHANGED <<cstate, replica>>
           ELSE IF m.accepted
           THEN /\ cstate' = [cstate EXCEPT ![c] = "CONNECTED"]
                /\ replica' = [replica EXCEPT ![c] = Apply(@, m)]
           ELSE cstate' = [cstate EXCEPT ![c] = "REFUSED"] /\ UNCHANGED replica
        /\ UNCHANGED <<c2s, pending>>

AddObject(c) ==
    /\ Receive(c, "ADD")
    /\ replica' = [replica EXCEPT ![c] = Apply(@, Head(Incoming(c)))]
    /\ UNCHANGED <<c2s, cstate, pending>>

ObjectEvent(c) ==
    /\ Receive(c, "EVENT")
    /\ replica' = [replica EXCEPT ![c] = Apply(@, Head(Incoming(c)))]
    /\ UNCHANGED <<c2s, cstate, pending>>

\* What a write of the client does to its channel.
Send(p, m) ==
    c2s' = IF peer[p] = "closed" \/ p \in broken THEN c2s ELSE [c2s EXCEPT ![p] = Append(@, m)]

\* Mutant: the calls of a removed object are not aborted.
RemoveObjectNoAbort(c) ==
    /\ Receive(c, "REMOVE")
    /\ replica[c][Head(Incoming(c)).h] # None
    /\ replica' = [replica EXCEPT ![c] = Apply(@, Head(Incoming(c)))]
    /\ UNCHANGED <<c2s, cstate, pending>>

\* obus_client_remove_object: the calls of the object are aborted, and the
\* user told, before the object leaves the registry.
RemoveObject(c) ==
    LET h == Head(Incoming(c)).h
    IN  /\ Receive(c, "REMOVE")
        /\ replica[c][h] # None
        /\ replica' = [replica EXCEPT ![c] = Apply(@, Head(Incoming(c)))]
        /\ pending' = [pending EXCEPT ![c] = Aborted(@, {h})]
        /\ UNCHANGED <<c2s, cstate>>

\* A REMOVE for an object the client does not have: obus_client_remove_object
\* gets a null object, aborts every call and dies.
RemoveUnknownObject(c) ==
    /\ conn[c] # None
    /\ Incoming(c) # <<>>
    /\ Head(Incoming(c)).type = "REMOVE"
    /\ replica[c][Head(Incoming(c)).h] = None
    /\ CloseSocket(c)
    /\ cstate' = [cstate EXCEPT ![c] = "crashed"]
    /\ replica' = [replica EXCEPT ![c] = EmptyView]
    /\ pending' = [pending EXCEPT ![c] = NoCalls]
    /\ UNCHANGED c2s

\* obus_client_handle_bus_event: the whole packet is committed at once.
BusEvent(c) ==
    LET m == Head(Incoming(c))
    IN  /\ Receive(c, "BUS_EVENT")
        /\ replica' = [replica EXCEPT ![c] = Apply(@, m)]
        /\ pending' = [pending EXCEPT ![c] = Aborted(@, Known(replica[c], m.rem))]
        /\ UNCHANGED <<c2s, cstate>>

\* The removal of h by a REMOVE or a BUS_EVENT, with user code that calls h
\* while it is told: h is still registered then and obus_client_call accepts.
RemoveCallback(c, k, h) ==
    LET m == Head(Incoming(c))
    IN  /\ CallsInRemove
        /\ cstate[c] = "CONNECTED"
        /\ pending[c][k] \in {None, h}
        /\ Len(c2s[conn[c]]) < MaxInFlight
        /\ \/ /\ Receive(c, "REMOVE")
              /\ h = m.h
              /\ replica[c][h] \in Enabled
              /\ pending' = [pending EXCEPT ![c] = [Aborted(@, {h}) EXCEPT ![k] = h]]
           \/ /\ Receive(c, "BUS_EVENT")
              /\ h \in m.rem
              /\ Updated(replica[c], m.ev)[h] \in Enabled
              /\ pending' = [pending EXCEPT ![c] =
                               [Aborted(@, Known(replica[c], m.rem)) EXCEPT ![k] = h]]
        /\ replica' = [replica EXCEPT ![c] = Apply(@, m)]
        /\ Send(conn[c], CallPacket(k, h))
        /\ UNCHANGED cstate

\* obus_client_ack: an unknown call handle is ignored.
CallAck(c) ==
    /\ Receive(c, "ACK")
    /\ pending' = [pending EXCEPT ![c][Head(Incoming(c)).k] = None]
    /\ UNCHANGED <<c2s, cstate, replica>>

\* obus_client_call: the handle is not the one of another pending call.  If
\* the write fails the call is forgotten and nothing has changed.
ClientCall(c, k, h) ==
    /\ cstate[c] = "CONNECTED"
    /\ replica[c][h] \in Enabled
    /\ pending[c][k] = None
    /\ Len(c2s[conn[c]]) < MaxInFlight
    /\ pending' = [pending EXCEPT ![c][k] = h]
    /\ Send(conn[c], CallPacket(k, h))
    /\ UNCHANGED <<conn, peer, s2c, broken, cstate, replica>>

ClientPackets(c) ==
    \/ ConnectionResponseHandler(c)
    \/ AddObject(c)
    \/ ObjectEvent(c)
    \/ RemoveObject(c)
    \/ \E k \in CallHandle, h \in Handle : RemoveCallback(c, k, h)
    \/ RemoveUnknownObject(c)
    \/ BusEvent(c)
    \/ CallAck(c)

ClientNext(c, listening) ==
    \/ ClientNew(c)
    \/ ClientStart(c)
    \/ \E p \in Conn : SocketConnected(c, p, listening)
    \/ ClientError(c)
    \/ ClientDestroy(c)
    \/ ClientPackets(c)
    \/ \E k \in CallHandle, h \in Handle : ClientCall(c, k, h)

=============================================================================
