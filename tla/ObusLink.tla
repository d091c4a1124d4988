------------------------------ MODULE ObusLink ------------------------------
(***************************************************************************)
(* What an obus server and its clients share: the stream connections       *)
(* between them, the packets of src/protocol.txt that travel on these      *)
(* connections, and the view of the bus (which objects are registered,     *)
(* with which info) that the packets carry.                                *)
(*                                                                         *)
(* A connection has a client end (struct obus_socket_client and its io)    *)
(* and a server end (struct obus_peer).  The two ends are closed           *)
(* independently: a server keeps serving a peer whose client is gone until *)
(* it notices, and the client may meanwhile be back on another connection. *)
(* Bytes, framing and the asynchronous write queue are not represented     *)
(* here: a connection delivers whole packets, in order, until an end       *)
(* closes.                                                                 *)
(***************************************************************************)
EXTENDS Naturals, Sequences, FiniteSets

CONSTANTS
    Client,       \* client processes
    Compatible,   \* those with the server's protocol version, bus name and crc
    Conn,         \* connections that may exist at the same time
    Handle,       \* object handles
    CallHandle,   \* call handles of one client
    Value,        \* contents of an object's info structure
    Enabled,      \* those in which the object's method is enabled
    MaxInFlight,  \* bound: packets in flight before user code sends another
    None          \* no object, no connection, no call

ASSUME LinkAssumption ==
    /\ Compatible \subseteq Client
    /\ Enabled \subseteq Value
    /\ IsFiniteSet(Conn)
    /\ MaxInFlight \in Nat
    /\ None \notin Conn \cup Handle \cup CallHandle \cup Value

VARIABLES
    conn,  \* conn[c]: the connection whose client end c holds, or None
    peer,  \* peer[p]: the server end, the state of its struct obus_peer
    c2s,   \* c2s[p]: packets written by the client, not yet read
    s2c,   \* s2c[p]: packets written by the server, not yet read
    broken \* connections that carry nothing more, though no end has closed

linkVars == <<conn, peer, c2s, s2c, broken>>

\* enum obus_peer_state; a peer is "backlog" until the server accepts it and
\* "closed" once destroyed (PEER_STATE_DISCONNECTED only exists inside
\* obus_peer_destroy).
PeerState == {"backlog", "IDLE", "CONNECTING", "CONNECTED", "REFUSED", "closed"}

View == [Handle -> Value \cup {None}]

EmptyView == [h \in Handle |-> None]

AckStatus == {"ACKED", "ABORTED", "METHOD_DISABLED", "REFUSED"}

(***************************************************************************)
(* The packets.  The field after of a server packet is a history field: it *)
(* records the server's view of the bus at the end of the operation that   *)
(* sent the packet.  So is the field h of an ACK, the object that was      *)
(* called: the wire format has neither, and no action reads them.          *)
(***************************************************************************)
ConReqPacket(c) == [type |-> "CONREQ", compatible |-> c \in Compatible]

CallPacket(k, h) == [type |-> "CALL", k |-> k, h |-> h]

ConRespPacket(accepted, objs) ==
    [type |-> "CONRESP", accepted |-> accepted,
     objs |-> IF accepted THEN objs ELSE EmptyView, after |-> objs]

AddPacket(h, v, after) == [type |-> "ADD", h |-> h, v |-> v, after |-> after]

RemovePacket(h, after) == [type |-> "REMOVE", h |-> h, after |-> after]

EventPacket(h, v, after) == [type |-> "EVENT", h |-> h, v |-> v, after |-> after]

BusEventPacket(add, rem, ev, after) ==
    [type |-> "BUS_EVENT", add |-> add, rem |-> rem, ev |-> ev, after |-> after]

AckPacket(k, st, h, after) ==
    [type |-> "ACK", k |-> k, st |-> st, h |-> h, after |-> after]

ClientPacket ==
    [type : {"CONREQ"}, compatible : BOOLEAN] \cup
    [type : {"CALL"}, k : CallHandle, h : Handle]

ServerPacket ==
    [type : {"CONRESP"}, accepted : BOOLEAN, objs : View, after : View] \cup
    [type : {"ADD"}, h : Handle, v : Value, after : View] \cup
    [type : {"REMOVE"}, h : Handle, after : View] \cup
    [type : {"EVENT"}, h : Handle, v : Value, after : View] \cup
    [type : {"BUS_EVENT"}, add : View, rem : SUBSET Handle, ev : View, after : View] \cup
    [type : {"ACK"}, k : CallHandle, st : AckStatus, h : Handle, after : View]

\* The client end of p is open.
Open(p) == \E c \in Client : conn[c] = p

\* p can carry a new connection: neither end is in use.
Unused(p) == peer[p] = "closed" /\ ~Open(p)

LinkTypeOK ==
    /\ conn \in [Client -> Conn \cup {None}]
    /\ peer \in [Conn -> PeerState]
    /\ c2s \in [Conn -> Seq(ClientPacket)]
    /\ s2c \in [Conn -> Seq(ServerPacket)]
    /\ broken \subseteq Conn

LinkInit ==
    /\ conn = [c \in Client |-> None]
    /\ peer = [p \in Conn |-> "closed"]
    /\ c2s = [p \in Conn |-> <<>>]
    /\ s2c = [p \in Conn |-> <<>>]
    /\ broken = {}

=============================================================================
