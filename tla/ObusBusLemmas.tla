--------------------------- MODULE ObusBusLemmas ----------------------------
(***************************************************************************)
(* Lemmas about the steps of ObusBus, for all values of the constants.     *)
(*                                                                         *)
(* The handshake: every step of a client and every step of the server      *)
(* preserves the types and Shaken, the invariant behind the handshake.     *)
(* That the count of the peers stays a number is an assumption here:       *)
(* ObusBusTheorems proves it.                                              *)
(*                                                                         *)
(* The replicas: as long as no allocation fails in the server, the packets *)
(* on their way to a client lead it, one by one, from what it has to what  *)
(* the server has.                                                         *)
(***************************************************************************)
EXTENDS ObusBus, TLAPS

\* The part of CallbackPeers that the types need.
ConnectingPeer ==
    ctx.at = "connecting" => ctx.p \in Conn /\ peer[ctx.p] \in {"CONNECTING", "REFUSED"}

\* The part of PeerCount that the other proofs need.
Counted == npeers = 0 => Connected = {}

TypeInv == TypeOK /\ ConnectingPeer /\ Counted

-----------------------------------------------------------------------------
(***************************************************************************)
(* What the proofs about the handshake and the replicas share.             *)
(***************************************************************************)

\* The part of Inductive that does not depend on allocations.
Shaken ==
    TypeInv /\ CallbackPeers /\ Links /\ Answers /\ CallsFromConnectedPeers

\* Sequences, as the channels use them.
LEMMA AppendFacts ==
    ASSUME NEW S, NEW s \in Seq(S), NEW e \in S
    PROVE  /\ Append(s, e) \in Seq(S)
           /\ Append(s, e) # <<>>
           /\ Len(s) \in Nat
           /\ Len(Append(s, e)) = Len(s) + 1
           /\ \A i \in 1..Len(s) : Append(s, e)[i] = s[i]
           /\ Append(s, e)[Len(s) + 1] = e
OBVIOUS

LEMMA TailFacts ==
    ASSUME NEW S, NEW s \in Seq(S), s # <<>>
    PROVE  /\ Tail(s) \in Seq(S)
           /\ Len(s) \in Nat \ {0}
           /\ Len(Tail(s)) = Len(s) - 1
           /\ Head(s) = s[1]
           /\ \A i \in 1..(Len(s) - 1) : Tail(s)[i] = s[i + 1]
OBVIOUS

LEMMA EmptyFacts ==
    ASSUME NEW S, NEW s \in Seq(S)
    PROVE  Len(s) \in Nat /\ (s = <<>> <=> Len(s) = 0)
OBVIOUS

\* A connection response is written, or the client is gone.
LEMMA ResponseWritten ==
    ASSUME Shaken, NEW p \in Conn, Unanswered(p), NEW accepted \in BOOLEAN,
           NEW c \in Client, conn[c] = p
    PROVE  /\ Written(p, ConRespPacket(accepted, ServerView)) = <<ConRespPacket(accepted, ServerView)>>
           /\ ConRespPacket(accepted, ServerView).type = "CONRESP"
           /\ ConRespPacket(accepted, ServerView).accepted = accepted
           /\ cstate[c] = "CONNECTING"
<1>1. conn[c] # None /\ Open(p)
  BY LinkAssumption, Zenon DEF LinkAssumption, Open
<1>2. s2c[p] = <<>> /\ cstate[c] = "CONNECTING"
  BY <1>1, Zenon DEF Shaken, Answers, AnswersTo
<1>3. p \notin broken
  BY Zenon DEF Shaken, Links, Unanswered, CallbackPeers
<1> QED
  BY <1>1, <1>2, <1>3 DEF Written, ConRespPacket

\* A step that leaves the packets on their way to a client alone.
LEMMA FollowsSame ==
    ASSUME NEW c \in Client, Follows(c),
           conn'[c] = conn[c], s2c'[conn[c]] = s2c[conn[c]], replica'[c] = replica[c],
           peer'[conn[c]] = "CONNECTED" /\ conn[c] \notin broken' =>
               /\ peer[conn[c]] = "CONNECTED" /\ conn[c] \notin broken
               /\ ServerView' = ServerView
    PROVE  Follows(c)'
BY Zenon DEF Follows

-----------------------------------------------------------------------------
(***************************************************************************)
(* The helpers.                                                            *)
(***************************************************************************)

\* The contexts the server runs user code in, and the loop.
LEMMA ContextType ==
    /\ Loop \in Context /\ Loop.at = "loop"
    /\ NoCall \in {NoCall} \cup MethodCall
    /\ MethodCall \subseteq Context /\ \A x \in MethodCall : x.at = "method"
    /\ \A p \in Conn, at \in {"connecting", "connected"} :
          /\ PeerCallback(at, p) \in Context
          /\ PeerCallback(at, p).at = at /\ PeerCallback(at, p).p = p
BY Zenon DEF Context, Loop, NoCall, MethodCall, PeerCallback

\* Freeing peers leaves a context (or a call) of the same kind.
LEMMA WithoutType ==
    ASSUME NEW lost \in SUBSET Conn
    PROVE  /\ \A x \in Context : Without(lost, x) \in Context /\ Without(lost, x).at = x.at
           /\ \A x \in {NoCall} \cup MethodCall : Without(lost, x) \in {NoCall} \cup MethodCall
BY LinkAssumption DEF LinkAssumption, Without, Context, NoCall, Loop, MethodCall

\* obus_peer_destroy keeps the types.
LEMMA DestroyPeerType ==
    ASSUME TypeOK, NEW p \in Conn, DestroyPeer(p)
    PROVE  /\ peer' \in [Conn -> PeerState]
           /\ c2s' \in [Conn -> Seq(ClientPacket)]
           /\ srvcall' \in {NoCall} \cup MethodCall
<1>1. /\ peer' \in [Conn -> PeerState]
      /\ c2s' \in [Conn -> Seq(ClientPacket)]
  BY DEF TypeOK, LinkTypeOK, DestroyPeer, PeerState
<1>2. srvcall' \in {NoCall} \cup MethodCall
  BY WithoutType, Zenon DEF TypeOK, ServerTypeOK, DestroyPeer
<1> QED
  BY <1>1, <1>2, Zenon

\* obus_server_send_peers keeps the types.
LEMMA SendPeersType ==
    ASSUME TypeInv, NEW m \in ServerPacket, NEW lost \in SUBSET Connected, SendPeers(m, lost)
    PROVE  /\ peer' \in [Conn -> PeerState]
           /\ c2s' \in [Conn -> Seq(ClientPacket)]
           /\ s2c' \in [Conn -> Seq(ServerPacket)]
           /\ ctx' \in Context
           /\ srvcall' \in {NoCall} \cup MethodCall
           /\ ConnectingPeer'
<1> lost \in SUBSET Conn
  BY Zenon DEF Connected
<1>1. CASE npeers = 0
  <2>1. UNCHANGED <<peer, c2s, s2c, npeers, ctx, srvcall>>
    BY <1>1, Zenon DEF SendPeers
  <2>2. ConnectingPeer'
    BY <2>1, Zenon DEF TypeInv, ConnectingPeer
  <2> QED
    BY <2>1, <2>2, Zenon DEF TypeInv, TypeOK, LinkTypeOK, ServerTypeOK
<1>2. CASE npeers # 0
  <2>1a. peer' \in [Conn -> PeerState]
    BY <1>2, Zenon DEF SendPeers, TypeInv, TypeOK, LinkTypeOK, PeerState
  <2>1b. c2s' \in [Conn -> Seq(ClientPacket)]
    <3>1. <<>> \in Seq(ClientPacket) /\ c2s \in [Conn -> Seq(ClientPacket)]
      BY DEF TypeInv, TypeOK, LinkTypeOK
    <3> QED
      BY <1>2, <3>1, Zenon DEF SendPeers
  <2>2. s2c' \in [Conn -> Seq(ServerPacket)]
    <3>1. \A p \in Conn : s2c[p] \in Seq(ServerPacket) /\ Written(p, m) \in Seq(ServerPacket)
      BY DEF TypeInv, TypeOK, LinkTypeOK, Written
    <3> QED
      BY <1>2, <3>1, Zenon DEF SendPeers
  <2>3. ctx' \in Context /\ srvcall' \in {NoCall} \cup MethodCall
    BY <1>2, WithoutType DEF SendPeers, TypeInv, TypeOK, ServerTypeOK
  <2>4. ConnectingPeer'
    <3>1. ctx'.at = ctx.at
      BY <1>2, WithoutType, Zenon DEF SendPeers, TypeInv, TypeOK, ServerTypeOK
    <3>2. ASSUME ctx.at = "connecting"
          PROVE  ctx' = ctx /\ peer'[ctx.p] = peer[ctx.p]
      BY <1>2, <3>2 DEF SendPeers, Without, Connected, TypeInv, ConnectingPeer
    <3> QED
      BY <3>1, <3>2, Zenon DEF TypeInv, ConnectingPeer
  <2> QED
    BY <2>1a, <2>1b, <2>2, <2>3, <2>4, Zenon
<1> QED
  BY <1>1, <1>2, Zenon

\* The end of the server process keeps the types.
LEMMA TerminateType ==
    ASSUME TypeInv, Terminate, UNCHANGED clientVars, Counted'
    PROVE  TypeInv'
<1>1. LinkTypeOK'
  BY DEF Terminate, TypeInv, TypeOK, LinkTypeOK, PeerState
<1>2. ServerTypeOK'
  BY Zenon DEF Terminate, TypeInv, TypeOK, ServerTypeOK, Context
<1>3. ClientTypeOK'
  BY Zenon DEF clientVars, TypeInv, TypeOK, ClientTypeOK
<1> QED
  BY <1>1, <1>2, <1>3, Zenon DEF Terminate, Loop, TypeInv, TypeOK, ConnectingPeer

\* What the server tells its peers is a packet.
LEMMA PacketType ==
    ASSUME NEW after \in View, NEW h \in Handle
    PROVE  /\ \A v \in Value : AddPacket(h, v, after) \in ServerPacket
           /\ \A v \in Value : EventPacket(h, v, after) \in ServerPacket
           /\ RemovePacket(h, after) \in ServerPacket
           /\ \A k \in CallHandle, st \in AckStatus : AckPacket(k, st, h, after) \in ServerPacket
BY Zenon DEF ServerPacket, AddPacket, EventPacket, RemovePacket, AckPacket

LEMMA WidePacketType ==
    ASSUME NEW after \in View, NEW add \in View, NEW ev \in View, NEW rem \in SUBSET Handle,
           NEW accepted \in BOOLEAN
    PROVE  /\ BusEventPacket(add, rem, ev, after) \in ServerPacket
           /\ ConRespPacket(accepted, after) \in ServerPacket
<1>1. EmptyView \in View
  BY Zenon DEF EmptyView, View
<1> QED
  BY <1>1, Zenon DEF ServerPacket, BusEventPacket, ConRespPacket

\* The server's view of the bus is one.
LEMMA ViewType ==
    ASSUME NEW obj, NEW inf \in [Handle -> Value \cup {None}]
    PROVE  ViewOf(obj, inf) \in View
BY Zenon DEF ViewOf, View

\* The request at the head of a channel is a call of its peer.
LEMMA RequestType ==
    ASSUME TypeOK, NEW p \in Conn, Received(p, "CALL")
    PROVE  Request(p) \in MethodCall /\ Request(p).p = p
<1>1. Head(c2s[p]) \in ClientPacket /\ Head(c2s[p]).type = "CALL"
  BY DEF TypeOK, LinkTypeOK, Received
<1>2. Head(c2s[p]).k \in CallHandle /\ Head(c2s[p]).h \in Handle
  BY <1>1, Zenon DEF ClientPacket
<1> QED
  BY <1>2, Zenon DEF Request, Method, MethodCall

\* obus_server_send_ack keeps the types.
LEMMA AckWrittenType ==
    ASSUME TypeOK, NEW call \in MethodCall, call.p \in Conn, NEW st \in AckStatus,
           AckWritten(call.p, call.k, call.h, st)
    PROVE  s2c' \in [Conn -> Seq(ServerPacket)] /\ broken' \subseteq Conn
<1>1. AckPacket(call.k, st, call.h, ServerView) \in ServerPacket
  BY PacketType, ViewType, Zenon DEF MethodCall, ServerView, TypeOK, ServerTypeOK
<1>2. Written(call.p, AckPacket(call.k, st, call.h, ServerView)) \in Seq(ServerPacket)
  BY <1>1 DEF Written, TypeOK, LinkTypeOK
<1> QED
  BY <1>2, Zenon DEF AckWritten, TypeOK, LinkTypeOK

LEMMA AcknowledgeType ==
    ASSUME TypeOK, NEW call \in MethodCall, call.p \in Conn, NEW st \in AckStatus,
           Acknowledge(call, st)
    PROVE  /\ s2c' \in [Conn -> Seq(ServerPacket)]
           /\ broken' \subseteq Conn
           /\ srvcall' \in {NoCall} \cup MethodCall
           /\ oom' \in 0..MaxOom
<1>1. CASE AckWritten(call.p, call.k, call.h, st) /\ srvcall' = NoCall /\ UNCHANGED oom
  BY <1>1, AckWrittenType, Zenon DEF TypeOK, ServerTypeOK
<1>2. CASE Oom /\ srvcall' \in {call, NoCall} /\ UNCHANGED <<s2c, broken>>
  BY <1>2, OomAssumption DEF Oom, OomAssumption, TypeOK, LinkTypeOK, ServerTypeOK
<1> QED
  BY <1>1, <1>2, Zenon DEF Acknowledge

\* The channel after a connection response.
LEMMA ResponseType ==
    ASSUME TypeOK, NEW p \in Conn, NEW accepted \in BOOLEAN
    PROVE  Written(p, ConRespPacket(accepted, ServerView)) \in Seq(ServerPacket)
<1>1. ServerView \in View
  BY ViewType, Zenon DEF ServerView, TypeOK, ServerTypeOK
<1>2. ConRespPacket(accepted, ServerView) \in ServerPacket
  BY <1>1, WidePacketType, Zenon
<1> QED
  BY <1>2 DEF Written, TypeOK, LinkTypeOK

-----------------------------------------------------------------------------
(***************************************************************************)
(* The steps of the server.                                                *)
(***************************************************************************)

\* The broadcasts: an object operation followed by obus_server_send_peers.
LEMMA BroadcastType ==
    ASSUME TypeInv, NEW m \in ServerPacket, NEW lost \in SUBSET Connected, SendPeers(m, lost),
           UNCHANGED <<conn, broken, up, oom, clientVars>>,
           sobj' \in [Handle -> {"free", "new", "registered"}],
           info' \in [Handle -> Value \cup {None}],
           \A h \in Handle : info'[h] = None <=> sobj'[h] = "free", npeers' \in Nat, Counted'
    PROVE  TypeInv'
<1>1. LinkTypeOK'
  BY SendPeersType, Zenon DEF TypeInv, TypeOK, LinkTypeOK
<1>2. ServerTypeOK'
  BY SendPeersType, Zenon DEF TypeInv, TypeOK, ServerTypeOK, Context, Loop, MethodCall, NoCall
<1>3. ClientTypeOK'
  BY Zenon DEF TypeInv, TypeOK, ClientTypeOK, clientVars
<1> QED
  BY <1>1, <1>2, <1>3, SendPeersType, Zenon DEF TypeInv, TypeOK

LEMMA ServerApiType ==
    ASSUME TypeInv, ServerApi, UNCHANGED clientVars, npeers' \in Nat, Counted'
    PROVE  TypeInv'
<1> USE DEF TypeInv, TypeOK
<1>1. ASSUME NEW h \in Handle, NEW v \in Value, NewObject(h, v)
      PROVE  TypeInv'
  <2>1. ServerTypeOK'
    BY <1>1, LinkAssumption, Zenon
    DEF NewObject, ServerTypeOK, LinkAssumption, Context, Loop, MethodCall, NoCall
  <2>2. LinkTypeOK' /\ ClientTypeOK' /\ ConnectingPeer'
    BY <1>1, Zenon DEF NewObject, linkVars, LinkTypeOK, clientVars, ClientTypeOK, ConnectingPeer
  <2> QED
    BY <1>1, <2>1, <2>2, Zenon DEF NewObject, linkVars
<1>2. ASSUME NEW h \in Handle, DestroyObject(h) \/ RegisterObjectOom(h) \/ UnregisterObjectOom(h)
      PROVE  TypeInv'
  <2> USE DEF DestroyObject, RegisterObjectOom, UnregisterObjectOom
  <2>1. ServerTypeOK'
    BY <1>2, LinkAssumption, OomAssumption
    DEF ServerTypeOK, LinkAssumption, OomAssumption, Oom, Context, Loop, MethodCall, NoCall
  <2>2. LinkTypeOK' /\ ClientTypeOK' /\ ConnectingPeer'
    BY <1>2, Zenon DEF linkVars, LinkTypeOK, clientVars, ClientTypeOK, ConnectingPeer
  <2> QED
    BY <1>2, <2>1, <2>2, Zenon DEF linkVars
<1>3. ASSUME NEW lost \in SUBSET Connected, NEW h \in Handle, RegisterObject(h, lost)
      PROVE  TypeInv'
  <2>1. /\ sobj' \in [Handle -> {"free", "new", "registered"}]
        /\ info' = info
        /\ info[h] \in Value
        /\ \A g \in Handle : info'[g] = None <=> sobj'[g] = "free"
    BY <1>3, Zenon DEF RegisterObject, ServerTypeOK
  <2>2. AddPacket(h, info[h], ViewOf(sobj', info)) \in ServerPacket
    BY <2>1, PacketType, ViewType, Zenon DEF ServerTypeOK
  <2> QED
    BY <1>3, <2>1, <2>2, BroadcastType, Zenon DEF RegisterObject, ServerTypeOK
<1>4. ASSUME NEW lost \in SUBSET Connected, NEW h \in Handle, UnregisterObject(h, lost)
      PROVE  TypeInv'
  <2>1. /\ sobj' \in [Handle -> {"free", "new", "registered"}]
        /\ info' = info
        /\ \A g \in Handle : info'[g] = None <=> sobj'[g] = "free"
    BY <1>4, Zenon DEF UnregisterObject, ServerTypeOK
  <2>2. RemovePacket(h, ViewOf(sobj', info)) \in ServerPacket
    BY <2>1, PacketType, ViewType, Zenon DEF ServerTypeOK
  <2> QED
    BY <1>4, <2>1, <2>2, BroadcastType, Zenon DEF UnregisterObject, ServerTypeOK
<1>5. ASSUME NEW lost \in SUBSET Connected, NEW h \in Handle, NEW v \in Value,
             SendEvent(h, v, lost)
      PROVE  TypeInv'
  <2>1. /\ sobj' = sobj
        /\ info' \in [Handle -> Value \cup {None}]
        /\ \A g \in Handle : info'[g] = None <=> sobj'[g] = "free"
    BY <1>5, LinkAssumption, Zenon DEF SendEvent, ServerTypeOK, LinkAssumption
  <2>2. EventPacket(h, v, ViewOf(sobj, info')) \in ServerPacket
    BY <2>1, PacketType, ViewType, Zenon DEF ServerTypeOK
  <2> QED
    BY <1>5, <2>1, <2>2, BroadcastType, Zenon DEF SendEvent, ServerTypeOK
<1>6. ASSUME NEW lost \in SUBSET Connected, NEW add \in SUBSET Handle, NEW rem \in SUBSET Handle,
             NEW ev \in View, SendBusEvent(add, rem, ev, lost)
      PROVE  TypeInv'
  <2> DEFINE added == [h \in Handle |-> IF h \in add THEN info[h] ELSE None]
  <2>1. /\ sobj' \in [Handle -> {"free", "new", "registered"}]
        /\ info' \in [Handle -> Value \cup {None}]
    BY <1>6, Zenon DEF SendBusEvent, ServerTypeOK, View
  <2>2. \A h \in Handle : info'[h] = None <=> sobj'[h] = "free"
    BY <1>6, Zenon DEF SendBusEvent, ServerTypeOK, View
  <2>3. added \in View
    BY Zenon DEF View, ServerTypeOK
  <2>4. BusEventPacket(added, rem, ev, ViewOf(sobj', info')) \in ServerPacket
    BY <2>1, <2>3, WidePacketType, ViewType, Zenon
  <2> QED
    BY <1>6, <2>1, <2>2, <2>4, BroadcastType, Zenon DEF SendBusEvent
<1>7. ASSUME RefuseConnection
      PROVE  TypeInv'
  <2>1. LinkTypeOK' /\ ServerTypeOK' /\ ClientTypeOK' /\ ConnectingPeer'
    BY <1>7, Zenon DEF RefuseConnection, serverVars, clientVars, LinkTypeOK, PeerState, ServerTypeOK,
                Context, Loop, MethodCall, NoCall, ClientTypeOK, ConnectingPeer
  <2> QED
    BY <1>7, <2>1, Zenon
    DEF RefuseConnection, serverVars, LinkTypeOK, ConnectingPeer
<1>8. ASSUME SendAck
      PROVE  TypeInv'
  <2>1. CASE ctx.p = None
    BY <1>8, <2>1, TerminateType, Zenon DEF SendAck
  <2>2. CASE ctx.p # None
    <3>1. ctx \in MethodCall /\ ctx.p \in Conn
      BY <1>8, <2>2, SMTT(30) DEF SendAck, ServerTypeOK, Context, Loop, MethodCall
    <3>2. LinkTypeOK' /\ ServerTypeOK'
      BY <1>8, <2>2, <3>1, AcknowledgeType, Zenon
      DEF SendAck, objVars, LinkTypeOK, ServerTypeOK, AckStatus, Context, Loop, MethodCall, NoCall
    <3> QED
      BY <1>8, <2>2, <3>2, Zenon
      DEF SendAck, clientVars, ClientTypeOK, ConnectingPeer
  <2> QED
    BY <2>1, <2>2, Zenon
<1>9. ASSUME SendAckLate
      PROVE  TypeInv'
  <2>1. CASE Terminate
    BY <2>1, TerminateType, Zenon
  <2>2. CASE ~Terminate
    <3>1. srvcall \in MethodCall /\ srvcall.p \in Conn
      BY <1>9, <2>2, Zenon DEF SendAckLate, ServerTypeOK, MethodCall
    <3>2. LinkTypeOK' /\ ServerTypeOK'
      BY <1>9, <2>2, <3>1, AckWrittenType, Zenon
      DEF SendAckLate, objVars, LinkTypeOK, ServerTypeOK, AckStatus, Context, Loop, MethodCall, NoCall
    <3> QED
      BY <1>9, <2>2, <3>2, Zenon
      DEF SendAckLate, clientVars, ClientTypeOK, ConnectingPeer
  <2> QED
    BY <2>1, <2>2, Zenon
<1> QED
  BY <1>1, <1>2, <1>3, <1>4, <1>5, <1>6, <1>7, <1>8, <1>9, Zenon DEF ServerApi

LEMMA ServerHandlerType ==
    ASSUME TypeInv, ServerHandler, UNCHANGED clientVars, npeers' \in Nat, Counted'
    PROVE  TypeInv'
<1> USE DEF TypeInv, TypeOK
<1>0. ClientTypeOK'
  BY Zenon DEF clientVars, ClientTypeOK
<1>1. ASSUME NEW p \in Conn, Accept(p)
      PROVE  TypeInv'
  <2>1. CASE peer' = [peer EXCEPT ![p] = "IDLE"] /\ UNCHANGED <<c2s, npeers, srvcall, oom>>
    <3>1. LinkTypeOK' /\ ServerTypeOK' /\ ConnectingPeer'
      BY <1>1, <2>1, ContextType, ZenonT(40) DEF Accept, objVars, LinkTypeOK, PeerState, ServerTypeOK, ConnectingPeer
    <3> QED
      BY <1>0, <1>1, <2>1, <3>1, Zenon DEF Accept, LinkTypeOK
  <2>2. CASE DestroyPeer(p) /\ Oom
    <3>0. oom' \in 0..MaxOom
      BY <2>2, OomAssumption DEF Oom, OomAssumption, ServerTypeOK
    <3>1. LinkTypeOK' /\ ServerTypeOK'
      BY <1>1, <2>2, <3>0, ContextType, DestroyPeerType, Zenon DEF Accept, objVars, LinkTypeOK, ServerTypeOK
    <3> QED
      BY <1>0, <1>1, <2>2, <3>1, ContextType, Zenon DEF Accept, ConnectingPeer
  <2> QED
    BY <1>1, <2>1, <2>2, Zenon DEF Accept
<1>2. ASSUME NEW p \in Conn, PeerError(p)
      PROVE  TypeInv'
  <2>1. LinkTypeOK' /\ ServerTypeOK'
    BY <1>2, ContextType, DestroyPeerType, Zenon
    DEF PeerError, objVars, LinkTypeOK, ServerTypeOK
  <2> QED
    BY <1>0, <1>2, <2>1, ContextType, Zenon DEF PeerError, ConnectingPeer
<1>3. ASSUME NEW p \in Conn, ConnectionRequest(p)
      PROVE  TypeInv'
  <2>1. c2s' \in [Conn -> Seq(ClientPacket)]
    BY <1>3 DEF ConnectionRequest, Received, LinkTypeOK
  <2>2. LinkTypeOK'
    BY <1>3, <2>1, Zenon DEF ConnectionRequest, LinkTypeOK, PeerState
  <2>3. ServerTypeOK' /\ ConnectingPeer'
    BY <1>3, ContextType DEF ConnectionRequest, Received, objVars, LinkTypeOK, ServerTypeOK,
                ConnectingPeer
  <2> QED
    BY <1>0, <1>3, <2>2, <2>3, Zenon DEF ConnectionRequest, LinkTypeOK
<1>4. ASSUME NEW p \in Conn, ConnectionRequestMismatch(p)
      PROVE  TypeInv'
  <2>1. CASE DestroyPeer(p) /\ UNCHANGED s2c
    <3>1. LinkTypeOK' /\ ServerTypeOK'
      BY <1>4, <2>1, ContextType, DestroyPeerType, Zenon
      DEF ConnectionRequestMismatch, objVars, LinkTypeOK, ServerTypeOK
    <3> QED
      BY <1>0, <1>4, <2>1, <3>1, ContextType, Zenon
      DEF ConnectionRequestMismatch, Received, ConnectingPeer
  <2>2. CASE /\ peer' = [peer EXCEPT ![p] = "REFUSED"]
             /\ c2s' = [c2s EXCEPT ![p] = Tail(@)]
             /\ s2c' = [s2c EXCEPT ![p] = Written(p, ConRespPacket(FALSE, ServerView))]
             /\ UNCHANGED <<npeers, srvcall>>
    <3>1. Written(p, ConRespPacket(FALSE, ServerView)) \in Seq(ServerPacket)
      BY ResponseType, Zenon
    <3>2. c2s' \in [Conn -> Seq(ClientPacket)]
      BY <1>4, <2>2 DEF ConnectionRequestMismatch, Received, LinkTypeOK
    <3>3. LinkTypeOK'
      BY <1>4, <2>2, <3>1, <3>2, Zenon DEF ConnectionRequestMismatch, LinkTypeOK, PeerState
    <3>4. ServerTypeOK' /\ ConnectingPeer'
      BY <1>4, <2>2, ContextType
      DEF ConnectionRequestMismatch, Received, objVars, ServerTypeOK, ConnectingPeer
    <3> QED
      BY <1>0, <3>3, <3>4, Zenon
  <2> QED
    BY <1>4, <2>1, <2>2, Zenon DEF ConnectionRequestMismatch
<1>5. ASSUME NEW p \in Conn, CallUndecodable(p)
      PROVE  TypeInv'
  <2>1. LinkTypeOK' /\ ServerTypeOK' /\ ConnectingPeer'
    BY <1>5, ContextType DEF CallUndecodable, Received, serverVars, LinkTypeOK, ServerTypeOK, ConnectingPeer
  <2> QED
    BY <1>0, <1>5, <2>1, Zenon DEF CallUndecodable, serverVars
<1>6. ASSUME NEW p \in Conn, CallRejected(p)
      PROVE  TypeInv'
  <2>1. Request(p) \in MethodCall /\ Request(p).p \in Conn
    BY <1>6, RequestType, Zenon DEF CallRejected
  <2>2. PICK st \in AckStatus : Acknowledge(Request(p), st)
    BY <1>6, Zenon DEF CallRejected, AckStatus
  <2>3. c2s' \in [Conn -> Seq(ClientPacket)]
    BY <1>6 DEF CallRejected, Received, LinkTypeOK
  <2>4. LinkTypeOK' /\ ServerTypeOK'
    BY <1>6, <2>1, <2>2, <2>3, ContextType, AcknowledgeType, Zenon
    DEF CallRejected, objVars, LinkTypeOK, ServerTypeOK
  <2> QED
    BY <1>0, <1>6, <2>4, Zenon DEF CallRejected, ConnectingPeer
<1>7. ASSUME NEW p \in Conn, CallRequest(p)
      PROVE  TypeInv'
  <2>1. Request(p) \in MethodCall
    BY <1>7, RequestType, Zenon DEF CallRequest
  <2>2. c2s' \in [Conn -> Seq(ClientPacket)]
    BY <1>7 DEF CallRequest, Received, LinkTypeOK
  <2>3. LinkTypeOK' /\ ServerTypeOK' /\ ConnectingPeer'
    BY <1>7, <2>1, <2>2, ContextType, Zenon
    DEF CallRequest, objVars, LinkTypeOK, ServerTypeOK, ConnectingPeer
  <2> QED
    BY <1>0, <1>7, <2>3, Zenon DEF CallRequest
<1>8. ASSUME ConnectionResponse
      PROVE  TypeInv'
  <2> DEFINE p == ctx.p
             accepted == peer[p] = "CONNECTING"
  <2>1. p \in Conn /\ peer[p] \in {"CONNECTING", "REFUSED"}
    BY <1>8, Zenon DEF ConnectionResponse, ConnectingPeer
  <2>2. Written(p, ConRespPacket(accepted, ServerView)) \in Seq(ServerPacket)
    BY <2>1, ResponseType, Zenon
  <2>3. LinkTypeOK'
    BY <1>8, <2>1, <2>2, Zenon DEF ConnectionResponse, LinkTypeOK, PeerState
  <2>4. ServerTypeOK'
    BY <1>8, <2>1, ContextType, Zenon DEF ConnectionResponse, objVars, ServerTypeOK
  <2>5. ConnectingPeer'
    BY <1>8, <2>1, Zenon DEF ConnectionResponse, LinkTypeOK, ConnectingPeer, PeerCallback, Loop
  <2> QED
    BY <1>0, <1>8, <2>3, <2>4, <2>5, Zenon DEF ConnectionResponse
<1>9. ASSUME ConnectionResponseLost
      PROVE  TypeInv'
  <2>1. ctx.p \in Conn
    BY <1>9, Zenon DEF ConnectionResponseLost, ConnectingPeer
  <2>2. LinkTypeOK' /\ ServerTypeOK'
    BY <1>9, <2>1, ContextType, DestroyPeerType, Zenon
    DEF ConnectionResponseLost, objVars, LinkTypeOK, ServerTypeOK
  <2> QED
    BY <1>0, <1>9, <2>1, <2>2, ContextType, Zenon DEF ConnectionResponseLost, ConnectingPeer
<1>10. ASSUME ConnectedReturn
       PROVE  TypeInv'
  <2>1. CASE ctx.p = None
    BY <1>10, <2>1, TerminateType, Zenon DEF ConnectedReturn
  <2>2. CASE ctx.p # None
    <3>1. LinkTypeOK' /\ ServerTypeOK' /\ ConnectingPeer'
      BY <1>10, <2>2, ContextType DEF ConnectedReturn, linkVars, objVars, LinkTypeOK, ServerTypeOK, ConnectingPeer
    <3> QED
      BY <1>0, <1>10, <2>2, <3>1, Zenon DEF ConnectedReturn, linkVars
  <2> QED
    BY <2>1, <2>2, Zenon
<1>11. ASSUME MethodReturn
       PROVE  TypeInv'
  <2>1. CASE ctx.p = None
    BY <1>11, <2>1, TerminateType, Zenon DEF MethodReturn
  <2>2. CASE ctx.p # None
    <3>1. ctx \in MethodCall /\ ctx.p \in Conn
      BY <1>11, <2>2 DEF MethodReturn, ServerTypeOK, Context, Loop, MethodCall
    <3>2. /\ s2c' \in [Conn -> Seq(ServerPacket)]
          /\ broken' \subseteq Conn
          /\ srvcall' \in {NoCall} \cup MethodCall
          /\ oom' \in 0..MaxOom
      <4>1. CASE Acknowledge(ctx, "REFUSED")
        BY <3>1, <4>1, AcknowledgeType, Zenon DEF AckStatus
      <4>2. CASE UNCHANGED <<s2c, broken, srvcall, oom>>
        BY <4>2, Zenon DEF LinkTypeOK, ServerTypeOK
      <4> QED
        BY <1>11, <2>2, <4>1, <4>2, Zenon DEF MethodReturn
    <3>3. LinkTypeOK' /\ ServerTypeOK' /\ ConnectingPeer'
      BY <1>11, <2>2, <3>2, ContextType
      DEF MethodReturn, objVars, LinkTypeOK, ServerTypeOK, ConnectingPeer
    <3> QED
      BY <1>0, <1>11, <2>2, <3>3, Zenon DEF MethodReturn
  <2> QED
    BY <2>1, <2>2, Zenon
<1> QED
  BY <1>1, <1>2, <1>3, <1>4, <1>5, <1>6, <1>7, <1>8, <1>9, <1>10, <1>11, Zenon DEF ServerHandler

-----------------------------------------------------------------------------
(***************************************************************************)
(* The steps of a client: only a new connection changes a peer, and it is  *)
(* not a connected one.                                                    *)
(***************************************************************************)

\* The server side of a client step.
LEMMA ServerTypeUnchanged ==
    ASSUME TypeInv, UNCHANGED serverVars
    PROVE  ServerTypeOK'
BY Zenon DEF serverVars, TypeInv, TypeOK, ServerTypeOK, Context, Loop, MethodCall, NoCall

LEMMA ServerUnchangedType ==
    ASSUME TypeInv, UNCHANGED serverVars, UNCHANGED peer
    PROVE  ServerTypeOK' /\ ConnectingPeer'
BY ServerTypeUnchanged, Zenon DEF serverVars, TypeInv, ConnectingPeer

\* A packet read by a client acts on a view.
LEMMA ApplyType ==
    ASSUME NEW view \in View, NEW m \in ServerPacket
    PROVE  Apply(view, m) \in View
<1>1. m.type = "CONRESP" => m.objs \in View
  BY Zenon DEF ServerPacket
<1>2. m.type = "BUS_EVENT" => m.ev \in View /\ m.add \in View
  BY Zenon DEF ServerPacket
<1>3. m.type \in {"ADD", "EVENT"} => Only(m.h, m.v) \in View
  <2>1. m.type \in {"ADD", "EVENT"} => m.h \in Handle /\ m.v \in Value
    BY Zenon DEF ServerPacket
  <2> QED
    BY <2>1, Zenon DEF Only, EmptyView, View
<1>4. /\ \A v, w \in View : Added(v, w) \in View /\ Updated(v, w) \in View
      /\ \A v \in View : \A S : Removed(v, S) \in View
  BY Zenon DEF Added, Updated, Removed, View
<1> QED
  BY <1>1, <1>2, <1>3, <1>4, Zenon DEF Apply

\* The packet at the head of a client's channel is one, and has the fields of
\* its type.
LEMMA IncomingType ==
    ASSUME TypeOK, NEW c \in Client, conn[c] # None, Incoming(c) # <<>>
    PROVE  /\ conn[c] \in Conn
           /\ Head(Incoming(c)) \in ServerPacket
           /\ Tail(Incoming(c)) \in Seq(ServerPacket)
BY DEF TypeOK, LinkTypeOK, Incoming

\* Reading a packet and closing a socket keep the types of the link.
LEMMA ReceiveType ==
    ASSUME TypeOK, NEW c \in Client, NEW type, Receive(c, type), c2s' \in [Conn -> Seq(ClientPacket)]
    PROVE  LinkTypeOK'
BY IncomingType, Zenon DEF Receive, TypeOK, LinkTypeOK, Incoming

LEMMA CloseSocketType ==
    ASSUME TypeOK, NEW c \in Client, CloseSocket(c), UNCHANGED c2s
    PROVE  LinkTypeOK'
BY DEF CloseSocket, TypeOK, LinkTypeOK

\* Writing a call keeps the type of the channel.
LEMMA SendType ==
    ASSUME TypeOK, NEW p \in Conn, NEW k \in CallHandle, NEW h \in Handle, Send(p, CallPacket(k, h))
    PROVE  c2s' \in [Conn -> Seq(ClientPacket)]
<1>1. CallPacket(k, h) \in ClientPacket
  BY Zenon DEF CallPacket, ClientPacket
<1> QED
  BY <1>1 DEF Send, TypeOK, LinkTypeOK

\* The tables of calls.
LEMMA CallsType ==
    ASSUME NEW calls \in [CallHandle -> Handle \cup {None}], NEW S
    PROVE  Aborted(calls, S) \in [CallHandle -> Handle \cup {None}]
BY Zenon DEF Aborted

LEMMA ClientPacketsType ==
    ASSUME TypeInv, NEW c \in Client, ClientPackets(c), UNCHANGED serverVars, Counted'
    PROVE  TypeInv'
<1> USE DEF TypeInv, TypeOK
<1> DEFINE m == Head(Incoming(c))
<1>0. ASSUME conn[c] # None, Incoming(c) # <<>>
      PROVE  conn[c] \in Conn /\ m \in ServerPacket /\ Apply(replica[c], m) \in View
  BY <1>0, IncomingType, ApplyType, Zenon DEF ClientTypeOK
<1>1. ASSUME ConnectionResponseHandler(c)
      PROVE  TypeInv'
  <2>1. LinkTypeOK' /\ UNCHANGED peer
    BY <1>1, ReceiveType, Zenon DEF ConnectionResponseHandler, Receive, LinkTypeOK
  <2>2. ClientTypeOK'
    BY <1>0, <1>1, Zenon DEF ConnectionResponseHandler, Receive, ClientTypeOK, ClientState
  <2> QED
    BY <2>1, <2>2, ServerUnchangedType, Zenon
<1>2. ASSUME AddObject(c) \/ ObjectEvent(c)
      PROVE  TypeInv'
  <2>1. LinkTypeOK' /\ UNCHANGED peer
    BY <1>2, ReceiveType, Zenon DEF AddObject, ObjectEvent, Receive, LinkTypeOK
  <2>2. ClientTypeOK'
    BY <1>0, <1>2, Zenon DEF AddObject, ObjectEvent, Receive, ClientTypeOK
  <2> QED
    BY <2>1, <2>2, ServerUnchangedType, Zenon
<1>3. ASSUME RemoveObject(c) \/ BusEvent(c)
      PROVE  TypeInv'
  <2>1. LinkTypeOK' /\ UNCHANGED peer
    BY <1>3, ReceiveType, Zenon DEF RemoveObject, BusEvent, Receive, LinkTypeOK
  <2>2. Apply(replica[c], m) \in View
    BY <1>0, <1>3, Zenon DEF RemoveObject, BusEvent, Receive
  <2>3. PICK S : pending' = [pending EXCEPT ![c] = Aborted(@, S)]
    BY <1>3, Zenon DEF RemoveObject, BusEvent
  <2>4. replica' = [replica EXCEPT ![c] = Apply(@, m)] /\ cstate' = cstate
    BY <1>3, Zenon DEF RemoveObject, BusEvent
  <2>5. ClientTypeOK'
    BY <2>2, <2>3, <2>4, CallsType, Zenon DEF ClientTypeOK
  <2> QED
    BY <2>1, <2>5, ServerUnchangedType, Zenon
<1>4. ASSUME NEW k \in CallHandle, NEW h \in Handle, RemoveCallback(c, k, h)
      PROVE  TypeInv'
  <2>1. PICK type : Receive(c, type)
    BY <1>4, Zenon DEF RemoveCallback
  <2>2. conn[c] \in Conn /\ Apply(replica[c], m) \in View
    BY <1>0, <2>1, Zenon DEF Receive
  <2>3. c2s' \in [Conn -> Seq(ClientPacket)]
    BY <1>4, <2>2, SendType, Zenon DEF RemoveCallback
  <2>4. LinkTypeOK' /\ UNCHANGED peer
    BY <2>1, <2>3, ReceiveType, Zenon DEF Receive
  <2>5. pending' \in [Client -> [CallHandle -> Handle \cup {None}]]
    <3>1. PICK S : pending' = [pending EXCEPT ![c] = [Aborted(@, S) EXCEPT ![k] = h]]
      BY <1>4, Zenon DEF RemoveCallback
    <3> QED
      BY <3>1, CallsType, Zenon DEF ClientTypeOK
  <2>6. ClientTypeOK'
    BY <1>4, <2>2, <2>5, Zenon DEF RemoveCallback, ClientTypeOK
  <2> QED
    BY <2>4, <2>6, ServerUnchangedType, Zenon
<1>5. ASSUME RemoveUnknownObject(c)
      PROVE  TypeInv'
  <2>1. LinkTypeOK' /\ UNCHANGED peer
    BY <1>5, CloseSocketType, Zenon DEF RemoveUnknownObject, CloseSocket
  <2>2. ClientTypeOK'
    BY <1>5, Zenon DEF RemoveUnknownObject, ClientTypeOK, ClientState, EmptyView, View, NoCalls
  <2> QED
    BY <2>1, <2>2, ServerUnchangedType, Zenon
<1>6. ASSUME CallAck(c)
      PROVE  TypeInv'
  <2>1. LinkTypeOK' /\ UNCHANGED peer
    BY <1>6, ReceiveType, Zenon DEF CallAck, Receive, LinkTypeOK
  <2>2. ClientTypeOK'
    BY <1>6, Zenon DEF CallAck, ClientTypeOK
  <2> QED
    BY <2>1, <2>2, ServerUnchangedType, Zenon
<1> QED
  BY <1>1, <1>2, <1>3, <1>4, <1>5, <1>6, Zenon DEF ClientPackets

LEMMA ClientNextType ==
    ASSUME TypeInv, NEW c \in Client, ClientNext(c, up), UNCHANGED serverVars, Counted'
    PROVE  TypeInv'
<1> USE DEF TypeInv, TypeOK
<1>1. ASSUME ClientNew(c) \/ ClientStart(c)
      PROVE  TypeInv'
  <2>1. LinkTypeOK' /\ ClientTypeOK'
    BY <1>1, Zenon DEF ClientNew, ClientStart, linkVars, LinkTypeOK, ClientTypeOK, ClientState
  <2> QED
    BY <1>1, <2>1, ServerUnchangedType, Zenon DEF ClientNew, ClientStart, linkVars
<1>2. ASSUME NEW p \in Conn, SocketConnected(c, p, up)
      PROVE  TypeInv'
  <2>1. <<ConReqPacket(c)>> \in Seq(ClientPacket)
    BY DEF ConReqPacket, ClientPacket
  <2>2. LinkTypeOK'
    <3>1. peer' \in [Conn -> PeerState]
      BY <1>2, Zenon DEF SocketConnected, LinkTypeOK, PeerState
    <3>2. c2s' \in [Conn -> Seq(ClientPacket)]
      BY <1>2, <2>1, Zenon DEF SocketConnected, LinkTypeOK
    <3>3. conn' \in [Client -> Conn \cup {None}]
      BY <1>2, Zenon DEF SocketConnected, LinkTypeOK
    <3>4. s2c' = s2c /\ broken' \subseteq broken
      BY <1>2, Zenon DEF SocketConnected
    <3> QED
      BY <3>1, <3>2, <3>3, <3>4, Zenon DEF LinkTypeOK
  <2>3. ClientTypeOK'
    BY <1>2, Zenon DEF SocketConnected, clientVars, ClientTypeOK
  <2>4. ConnectingPeer'
    BY <1>2, Zenon DEF SocketConnected, Unused, serverVars, LinkTypeOK, ConnectingPeer
  <2> QED
    BY <2>2, <2>3, <2>4, ServerTypeUnchanged, Zenon
<1>3. ASSUME ClientError(c) \/ ClientDestroy(c)
      PROVE  TypeInv'
  <2>1. LinkTypeOK' /\ UNCHANGED peer
    BY <1>3, CloseSocketType, Zenon DEF ClientError, ClientDestroy, CloseSocket
  <2>2. EmptyView \in View /\ NoCalls \in [CallHandle -> Handle \cup {None}]
    BY Zenon DEF EmptyView, View, NoCalls
  <2>3. ASSUME ClientError(c) PROVE ClientTypeOK'
    BY <2>2, <2>3, CallsType, SMTT(30) DEF ClientError, DisconnectBus, ClientTypeOK, ClientState
  <2>4. ASSUME ClientDestroy(c) PROVE ClientTypeOK'
    BY <2>2, <2>4, Zenon DEF ClientDestroy, ClientTypeOK, ClientState
  <2> QED
    BY <1>3, <2>1, <2>3, <2>4, ServerUnchangedType, Zenon
<1>4. ASSUME NEW k \in CallHandle, NEW h \in Handle, ClientCall(c, k, h)
      PROVE  TypeInv'
  <2>1. c2s' \in [Conn -> Seq(ClientPacket)]
    <3>1. CASE conn[c] \in Conn
      BY <1>4, <3>1, SendType, Zenon DEF ClientCall
    <3>2. CASE conn[c] \notin Conn
      BY <1>4, <3>2, Zenon DEF ClientCall, Send, LinkTypeOK
    <3> QED
      BY <3>1, <3>2, Zenon
  <2>2. LinkTypeOK' /\ ClientTypeOK'
    BY <1>4, <2>1, Zenon DEF ClientCall, LinkTypeOK, ClientTypeOK
  <2> QED
    BY <1>4, <2>2, ServerUnchangedType, Zenon DEF ClientCall
<1> QED
  BY <1>1, <1>2, <1>3, <1>4, ClientPacketsType, Zenon DEF ClientNext

-----------------------------------------------------------------------------
(***************************************************************************)
(* The specification.                                                      *)
(***************************************************************************)

LEMMA TypeInit == Init => TypeInv
<1> SUFFICES ASSUME Init PROVE TypeInv
  BY Zenon
<1> USE DEF Init
<1>1. LinkTypeOK
  BY DEF LinkInit, LinkTypeOK, PeerState
<1>2. ServerTypeOK
  <2>1. sobj \in [Handle -> {"free", "new", "registered"}] /\ info \in [Handle -> Value \cup {None}]
    BY Zenon DEF ServerInit
  <2>2. oom \in 0..MaxOom /\ npeers \in Nat
    BY OomAssumption DEF ServerInit, OomAssumption
  <2> QED
    BY <2>1, <2>2, Zenon DEF ServerInit, ServerTypeOK, Context
<1>3. ClientTypeOK
  BY Zenon DEF ClientInit, ClientTypeOK, ClientState, EmptyView, View, NoCalls
<1>4. Counted
  BY Zenon DEF LinkInit, Counted, Connected
<1>5. ConnectingPeer
  BY Zenon DEF ServerInit, Loop, ConnectingPeer
<1> QED
  BY <1>1, <1>2, <1>3, <1>4, <1>5, Zenon DEF TypeInv, TypeOK

LEMMA TypeStep ==
    ASSUME TypeInv, [Next]_vars, npeers' \in Nat, Counted'
    PROVE  TypeInv'
<1>1. CASE UNCHANGED vars
  <2>1. ServerTypeOK' /\ ConnectingPeer'
    BY <1>1, ServerUnchangedType, Zenon DEF vars, linkVars, serverVars
  <2> QED
    BY <1>1, <2>1, Zenon DEF vars, linkVars, clientVars, TypeInv, TypeOK, LinkTypeOK, ClientTypeOK
<1>2. ASSUME ServerNext, UNCHANGED clientVars
      PROVE  TypeInv'
  <2>1. CASE ServerStart
    <3>1. LinkTypeOK' /\ ServerTypeOK' /\ ClientTypeOK' /\ ConnectingPeer'
      BY <1>2, <2>1, Zenon DEF ServerStart, linkVars, objVars, clientVars, TypeInv, TypeOK, LinkTypeOK,
                  ServerTypeOK, ClientTypeOK, ConnectingPeer, Context, Loop, MethodCall, NoCall
    <3> QED
      BY <3>1, Zenon DEF TypeInv, TypeOK
  <2>2. CASE ServerStop
    BY <1>2, <2>2, TerminateType, Zenon DEF ServerStop
  <2> QED
    BY <1>2, <2>1, <2>2, ServerApiType, ServerHandlerType, Zenon DEF ServerNext
<1> QED
  BY <1>1, <1>2, ClientNextType, Zenon DEF Next

-----------------------------------------------------------------------------
(***************************************************************************)
(* The clients.                                                            *)
(***************************************************************************)

\* A client without a connection changes state.
LEMMA UnconnectedStep ==
    ASSUME Shaken, TypeInv', NEW c \in Client, conn[c] = None,
           NEW st \in {"IDLE", "CONNECTING"}, cstate' = [cstate EXCEPT ![c] = st],
           UNCHANGED <<linkVars, serverVars, replica>>
    PROVE  Shaken'
<1> USE DEF Shaken, linkVars, serverVars
<1>0. cstate \in [Client -> ClientState] /\ replica[c] = EmptyView
  BY Zenon DEF TypeInv, TypeOK, ClientTypeOK, Links
<1>1. CallbackPeers'
  BY Zenon DEF CallbackPeers
<1>2. Links'
  BY <1>0, Zenon DEF Links, Open
<1>3. Answers'
  <2> SUFFICES ASSUME NEW d \in Client, conn[d] # None PROVE AnswersTo(d)'
    BY Zenon DEF Answers
  <2>1. AnswersTo(d) /\ cstate'[d] = cstate[d]
    BY <1>0, Zenon DEF Answers
  <2> QED
    BY <2>1, Zenon DEF AnswersTo, Unanswered
<1>4. CallsFromConnectedPeers'
  BY Zenon DEF CallsFromConnectedPeers
<1> QED
  BY <1>1, <1>2, <1>3, <1>4, Zenon

LEMMA SocketConnectedStep ==
    ASSUME Shaken, TypeInv', NEW c \in Client, NEW p \in Conn, SocketConnected(c, p, up),
           UNCHANGED serverVars
    PROVE  Shaken'
<1> USE DEF Shaken, SocketConnected, serverVars, clientVars
<1>0. /\ peer \in [Conn -> PeerState] /\ conn \in [Client -> Conn \cup {None}]
      /\ c2s \in [Conn -> Seq(ClientPacket)]
      /\ peer[p] = "closed" /\ (\A d \in Client : conn[d] # p) /\ c2s[p] = <<>> /\ s2c[p] = <<>>
  BY Zenon DEF TypeInv, TypeOK, LinkTypeOK, Unused, Open, Links
<1>1. ctx.p # p /\ srvcall.p # p
  BY <1>0, Zenon DEF CallbackPeers
<1>2. CallbackPeers'
  BY <1>0, <1>1 DEF CallbackPeers
<1>3. Links'
  <2>1. \A d, e \in Client : conn'[d] # None /\ conn'[d] = conn'[e] => d = e
    BY <1>0, SMTT(30) DEF Links
  <2>2. /\ \A d \in Client : conn'[d] # None => cstate[d] \in {"CONNECTING", "CONNECTED", "REFUSED"}
        /\ \A d \in Client : cstate[d] \in {"CONNECTED", "REFUSED"} => conn'[d] # None
    BY <1>0, Zenon DEF Links
  <2>3. \A x \in Conn : peer'[x] = "closed" => c2s'[x] = <<>>
    BY <1>0, Zenon DEF Links
  <2>4. \A x \in Conn : ~Open(x)' => s2c[x] = <<>>
    <3>1. \A d \in Client : conn[d] # None => conn'[d] = conn[d]
      BY <1>0, Zenon
    <3>2. \A x \in Conn : Open(x) => Open(x)'
      BY <3>1, LinkAssumption, Zenon DEF LinkAssumption, Open
    <3> QED
      BY <3>2, Zenon DEF Links
  <2>5. \A x \in broken' : peer'[x] \in {"CONNECTED", "closed"}
    BY <1>0, Zenon DEF Links, TypeInv, TypeOK, LinkTypeOK
  <2>6. \A d \in Client : cstate'[d] # "CONNECTED" => replica'[d] = EmptyView
    BY Zenon DEF Links
  <2>7. cstate' = cstate
    BY Zenon
  <2>8. \A x \in Conn : ~Open(x)' => s2c'[x] = <<>>
    BY <2>4, Zenon
  <2> QED
    BY <2>1, <2>2, <2>3, <2>5, <2>6, <2>7, <2>8, Zenon DEF Links
<1>4. Answers'
  <2> SUFFICES ASSUME NEW d \in Client, conn'[d] # None PROVE AnswersTo(d)'
    BY Zenon DEF Answers
  <2>1. CASE conn'[d] = conn[d]
    <3>1. AnswersTo(d) /\ conn[d] \in Conn /\ conn[d] # p
      BY <1>0, <2>1, Zenon DEF Answers
    <3> QED
      BY <1>0, <2>1, <3>1, Zenon DEF AnswersTo, Unanswered
  <2>2. CASE conn'[d] # conn[d]
    <3>1. d = c /\ conn'[d] = p
      BY <1>0, <2>2, Zenon
    <3>2. peer'[p] = "backlog"
      BY <1>0, Zenon
    <3>3. Len(s2c[p]) = 0 /\ s2c' = s2c /\ cstate' = cstate
      BY <1>0, Zenon
    <3> QED
      BY <1>0, <3>1, <3>2, <3>3 DEF AnswersTo, Unanswered
  <2> QED
    BY <2>1, <2>2, Zenon
<1>5. CallsFromConnectedPeers'
  <2> SUFFICES ASSUME NEW x \in Conn, NEW i \in 1..Len(c2s'[x]), c2s'[x][i].type = "CALL"
               PROVE  peer'[x] = "CONNECTED"
    BY Zenon DEF CallsFromConnectedPeers
  <2>1. CASE x # p
    BY <1>0, <2>1, Zenon DEF CallsFromConnectedPeers
  <2>2. CASE x = p
    <3>1. c2s'[p] = <<>> \/ c2s'[p] = <<ConReqPacket(c)>>
      BY <1>0, Zenon
    <3>2. c2s'[p] # <<>> => i = 1 /\ c2s'[p][1] = ConReqPacket(c)
      BY <2>2, <3>1
    <3>3. c2s'[p] # <<>>
      BY <2>2
    <3> QED
      BY <2>2, <3>2, <3>3 DEF ConReqPacket
  <2> QED
    BY <2>1, <2>2, Zenon
<1> QED
  BY <1>2, <1>3, <1>4, <1>5, Zenon

LEMMA CloseStep ==
    ASSUME Shaken, TypeInv', NEW c \in Client, CloseSocket(c),
           NEW st \in {"none", "CONNECTING", "crashed"}, cstate' = [cstate EXCEPT ![c] = st],
           replica'[c] = EmptyView, \A d \in Client : d # c => replica'[d] = replica[d],
           UNCHANGED <<c2s, serverVars>>
    PROVE  Shaken'
<1> USE DEF Shaken, CloseSocket, serverVars
<1>0. /\ cstate \in [Client -> ClientState] /\ conn \in [Client -> Conn \cup {None}]
      /\ s2c \in [Conn -> Seq(ServerPacket)]
      /\ \A d \in Client : conn'[d] # None => d # c /\ conn'[d] = conn[d] /\ cstate'[d] = cstate[d]
      /\ \A d \in Client : d # c => conn'[d] = conn[d] /\ cstate'[d] = cstate[d]
      /\ conn'[c] = None /\ cstate'[c] = st
  BY Zenon DEF TypeInv, TypeOK, LinkTypeOK, ClientTypeOK
<1>1. \A x \in Conn : x # conn[c] => s2c'[x] = s2c[x]
  BY <1>0, Zenon
<1>2. CallbackPeers'
  BY Zenon DEF CallbackPeers
<1>3. Links'
  <2>1. \A x \in Conn : ~Open(x)' => s2c'[x] = <<>>
    <3> SUFFICES ASSUME NEW x \in Conn, ~Open(x)' PROVE s2c'[x] = <<>>
      BY Zenon
    <3>1. CASE x = conn[c]
      BY <1>0, <3>1, LinkAssumption, Zenon DEF LinkAssumption
    <3>2. CASE x # conn[c]
      <4>1. ~Open(x)
        BY <1>0, <3>2, Zenon DEF Open
      <4> QED
        BY <1>1, <3>2, <4>1, Zenon DEF Links
    <3> QED
      BY <3>1, <3>2, Zenon
  <2>2. \A d, e \in Client : conn'[d] # None /\ conn'[d] = conn'[e] => d = e
    BY <1>0 DEF Links
  <2>3. \A d \in Client : cstate'[d] # "CONNECTED" => replica'[d] = EmptyView
    BY <1>0, ZenonT(40) DEF Links
  <2>4. /\ \A d \in Client : conn'[d] # None => cstate'[d] \in {"CONNECTING", "CONNECTED", "REFUSED"}
        /\ \A d \in Client : cstate'[d] \in {"CONNECTED", "REFUSED"} => conn'[d] # None
    BY <1>0, Zenon DEF Links
  <2> QED
    BY <2>1, <2>2, <2>3, <2>4, Zenon DEF Links
<1>4. Answers'
  <2> SUFFICES ASSUME NEW d \in Client, conn'[d] # None PROVE AnswersTo(d)'
    BY Zenon DEF Answers
  <2>1. /\ AnswersTo(d) /\ conn'[d] = conn[d] /\ cstate'[d] = cstate[d]
        /\ conn[d] \in Conn /\ conn[d] # conn[c]
    BY <1>0 DEF Answers, Links
  <2>2. s2c'[conn[d]] = s2c[conn[d]]
    BY <1>1, <2>1, Zenon
  <2> QED
    BY <2>1, <2>2 DEF AnswersTo, Unanswered
<1>5. CallsFromConnectedPeers'
  BY Zenon DEF CallsFromConnectedPeers
<1> QED
  BY <1>2, <1>3, <1>4, <1>5, Zenon

\* A call is written on the connection of a connected client.
LEMMA SendStep ==
    ASSUME Shaken, NEW p \in Conn, peer[p] \in {"CONNECTED", "closed"},
           NEW m \in ClientPacket, Send(p, m), UNCHANGED peer
    PROVE  /\ CallsFromConnectedPeers'
           /\ \A x \in Conn : peer'[x] = "closed" => c2s'[x] = <<>>
<1> USE DEF Shaken
<1>0. c2s \in [Conn -> Seq(ClientPacket)]
  BY Zenon DEF TypeInv, TypeOK, LinkTypeOK
<1>1. CASE c2s' = c2s
  BY <1>1, Zenon DEF CallsFromConnectedPeers, Links
<1>2. CASE c2s' = [c2s EXCEPT ![p] = Append(@, m)] /\ peer[p] # "closed"
  <2>1. \A x \in Conn : x # p => c2s'[x] = c2s[x]
    BY <1>0, <1>2, Zenon
  <2> QED
    BY <1>2, <2>1, Zenon DEF CallsFromConnectedPeers, Links
<1> QED
  BY <1>1, <1>2, Zenon DEF Send

\* A client reads a packet of its channel.
LEMMA ReceiveStep ==
    ASSUME Shaken, TypeInv', NEW c \in Client, NEW type, Receive(c, type),
           \/ /\ type = "CONRESP"
              /\ cstate[c] = "CONNECTING" =>
                   cstate' = [cstate EXCEPT ![c] = IF Head(Incoming(c)).accepted
                                                   THEN "CONNECTED" ELSE "REFUSED"]
              /\ cstate'[c] # "CONNECTED" => UNCHANGED replica
              /\ UNCHANGED c2s
           \/ /\ type # "CONRESP"
              /\ UNCHANGED cstate
              /\ c2s' = c2s \/ \E m \in ClientPacket : Send(conn[c], m),
           \A d \in Client : d # c => replica'[d] = replica[d],
           UNCHANGED serverVars
    PROVE  Shaken'
<1>a. TypeInv /\ CallbackPeers /\ Links /\ Answers /\ CallsFromConnectedPeers
  BY Zenon DEF Shaken
<1> DEFINE p == conn[c]
           q == s2c[p]
           r == s2c'[p]
<1>0. /\ cstate \in [Client -> ClientState] /\ conn \in [Client -> Conn \cup {None}]
      /\ s2c \in [Conn -> Seq(ServerPacket)] /\ UNCHANGED <<conn, peer, broken>>
  BY <1>a, Zenon DEF TypeInv, TypeOK, LinkTypeOK, ClientTypeOK, Receive
<1>1. /\ p \in Conn /\ q # <<>> /\ r = Tail(q) /\ q[1] = Head(q) /\ Head(q).type = type
      /\ Len(q) \in Nat \ {0} /\ Len(r) = Len(q) - 1
      /\ \A i \in 1..(Len(q) - 1) : r[i] = q[i + 1]
      /\ r = <<>> <=> Len(r) = 0
      /\ \A x \in Conn : x # p => s2c'[x] = s2c[x]
  <2>1. /\ p \in Conn /\ q \in Seq(ServerPacket) /\ q # <<>> /\ Head(q).type = type
        /\ r = Tail(q) /\ \A x \in Conn : x # p => s2c'[x] = s2c[x]
    BY <1>0, Zenon DEF Receive, Incoming
  <2> HIDE DEF p, q, r
  <2> QED
    BY <2>1, TailFacts, EmptyFacts, Zenon
<1>2. AnswersTo(c) /\ cstate[c] \in {"CONNECTING", "CONNECTED", "REFUSED"}
  BY <1>a, <1>0, <1>1, LinkAssumption, Zenon DEF LinkAssumption, Answers, Links
<1>3. ~Unanswered(p) /\ cstate[c] # "REFUSED"
  BY <1>1, <1>2, ZenonT(40) DEF AnswersTo
<1>4. \A i \in 1..Len(r) : r[i].type # "CONRESP"
  BY <1>1, <1>2, SMTT(30) DEF AnswersTo
<1>5. \/ /\ type = "CONRESP" /\ cstate[c] = "CONNECTING"
         /\ cstate' = [cstate EXCEPT ![c] = IF q[1].accepted THEN "CONNECTED" ELSE "REFUSED"]
         /\ c2s' = c2s
      \/ type # "CONRESP" /\ cstate[c] = "CONNECTED" /\ cstate' = cstate
  BY <1>1, <1>2, <1>3 DEF AnswersTo, Incoming
<1>6. /\ \A d \in Client : d # c => cstate'[d] = cstate[d]
      /\ cstate'[c] \in {"CONNECTED", "REFUSED"}
      /\ cstate'[c] = "CONNECTED" => peer[p] \in {"CONNECTED", "closed"}
      /\ cstate'[c] = "REFUSED" => peer[p] \in {"REFUSED", "closed"} /\ Len(q) = 1
  BY <1>0, <1>1, <1>2, <1>5, Zenon DEF AnswersTo
<1>7. CallbackPeers'
  BY <1>a, <1>0, Zenon DEF CallbackPeers, serverVars
<1>8. /\ CallsFromConnectedPeers'
      /\ \A x \in Conn : peer'[x] = "closed" => c2s'[x] = <<>>
  <2>1. CASE c2s' = c2s
    BY <1>a, <1>0, <2>1, Zenon DEF CallsFromConnectedPeers, Links
  <2>2. ASSUME NEW m \in ClientPacket, Send(p, m), type # "CONRESP"
        PROVE  /\ CallsFromConnectedPeers'
               /\ \A x \in Conn : peer'[x] = "closed" => c2s'[x] = <<>>
    BY <1>0, <1>1, <1>5, <1>6, <2>2, SendStep, Zenon
  <2> QED
    BY <2>1, <2>2, Zenon
<1>9. Links'
  <2>1. \A x \in Conn : ~Open(x)' => s2c'[x] = <<>>
    BY <1>a, <1>0, <1>1, ZenonT(30) DEF Open, Links
  <2>2. \A d \in Client : cstate'[d] # "CONNECTED" => replica'[d] = EmptyView
    BY <1>a, <1>2, <1>5, <1>6, ZenonT(30) DEF Links
  <2>3. /\ \A d \in Client : conn'[d] # None => cstate'[d] \in {"CONNECTING", "CONNECTED", "REFUSED"}
        /\ \A d \in Client : cstate'[d] \in {"CONNECTED", "REFUSED"} => conn'[d] # None
    BY <1>a, <1>0, <1>1, <1>6, LinkAssumption, ZenonT(30) DEF LinkAssumption, Links
  <2> QED
    BY <1>a, <1>0, <1>8, <2>1, <2>2, <2>3, Zenon DEF Links
<1>10. Answers'
  <2> SUFFICES ASSUME NEW d \in Client, conn[d] # None PROVE AnswersTo(d)'
    BY <1>0, Zenon DEF Answers
  <2>1. CASE d = c
    <3>1. ~Unanswered(p)'
      BY <1>0, <1>3, Zenon DEF Unanswered, serverVars
    <3>2. cstate'[c] = "REFUSED" => r = <<>>
      BY <1>1, <1>6
    <3>3. p' = p /\ s2c'[p'] = r /\ peer'[p] = peer[p]
      BY <1>0, Zenon
    <3> HIDE DEF r, p
    <3>4. /\ \A i \in 1..Len(r) : r[i].type = "CONRESP" => i = 1 /\ cstate'[c] = "CONNECTING"
          /\ cstate'[c] = "CONNECTED" => peer'[p] \in {"CONNECTED", "closed"}
          /\ cstate'[c] = "REFUSED" => peer'[p] \in {"REFUSED", "closed"} /\ r = <<>>
          /\ cstate'[c] # "CONNECTING"
      BY <1>4, <1>6, <3>2, <3>3, Zenon
    <3> QED
      BY <2>1, <3>1, <3>3, <3>4, Zenon DEF AnswersTo, p
  <2>2. CASE d # c
    <3>1. AnswersTo(d) /\ conn[d] \in Conn /\ conn[d] # p /\ cstate'[d] = cstate[d]
      BY <1>a, <1>0, <1>6, <2>2 DEF Answers, Links
    <3>2. s2c'[conn[d]] = s2c[conn[d]]
      BY <1>1, <3>1, Zenon
    <3> QED
      BY <1>0, <3>1, <3>2, Zenon DEF AnswersTo, Unanswered, serverVars
  <2> QED
    BY <2>1, <2>2, Zenon
<1> QED
  BY <1>7, <1>8, <1>9, <1>10, Zenon DEF Shaken

LEMMA ClientNextShaken ==
    ASSUME Shaken, TypeInv', NEW c \in Client, ClientNext(c, up), UNCHANGED serverVars
    PROVE  Shaken'
<1>0. /\ TypeOK
      /\ replica \in [Client -> View]
      /\ cstate[c] # "CONNECTED" => replica[c] = EmptyView
      /\ cstate[c] \notin {"CONNECTING", "CONNECTED", "REFUSED"} => conn[c] = None
  BY Zenon DEF Shaken, TypeInv, TypeOK, ClientTypeOK, Links
<1>a. ASSUME NEW k \in CallHandle, NEW h \in Handle PROVE CallPacket(k, h) \in ClientPacket
  BY Zenon DEF CallPacket, ClientPacket
<1>1. CASE ClientNew(c) \/ ClientStart(c)
  BY <1>0, <1>1, UnconnectedStep, Zenon DEF ClientNew, ClientStart
<1>2. ASSUME NEW p \in Conn, SocketConnected(c, p, up)
      PROVE  Shaken'
  BY <1>2, SocketConnectedStep, Zenon
<1>3. CASE ClientError(c)
  <2>1. replica'[c] = EmptyView /\ \A d \in Client : d # c => replica'[d] = replica[d]
    BY <1>0, <1>3, Zenon DEF ClientError, DisconnectBus
  <2> QED
    BY <1>3, <2>1, CloseStep, Zenon DEF ClientError
<1>4. CASE ClientDestroy(c)
  <2>1. replica'[c] = EmptyView /\ \A d \in Client : d # c => replica'[d] = replica[d]
    BY <1>0, <1>4, Zenon DEF ClientDestroy
  <2> QED
    BY <1>4, <2>1, CloseStep, Zenon DEF ClientDestroy
<1>5. CASE RemoveUnknownObject(c)
  <2>1. replica'[c] = EmptyView /\ \A d \in Client : d # c => replica'[d] = replica[d]
    BY <1>0, <1>5, Zenon DEF RemoveUnknownObject
  <2> QED
    BY <1>5, <2>1, CloseStep, Zenon DEF RemoveUnknownObject
<1>6. CASE ConnectionResponseHandler(c)
  <2>1. \A d \in Client : d # c => replica'[d] = replica[d]
    BY <1>0, <1>6, Zenon DEF ConnectionResponseHandler
  <2>2. cstate'[c] # "CONNECTED" => UNCHANGED replica
    BY <1>0, <1>6, Zenon DEF ConnectionResponseHandler, TypeOK, ClientTypeOK
  <2>3. cstate[c] = "CONNECTING" =>
          cstate' = [cstate EXCEPT ![c] = IF Head(Incoming(c)).accepted THEN "CONNECTED" ELSE "REFUSED"]
    BY <1>6, Zenon DEF ConnectionResponseHandler
  <2>4. Receive(c, "CONRESP") /\ UNCHANGED c2s
    BY <1>6, Zenon DEF ConnectionResponseHandler
  <2> QED
    BY <2>1, <2>2, <2>3, <2>4, ReceiveStep, Zenon
<1>7. CASE AddObject(c) \/ ObjectEvent(c) \/ RemoveObject(c) \/ BusEvent(c) \/ CallAck(c)
  <2>1. \A d \in Client : d # c => replica'[d] = replica[d]
    BY <1>0, <1>7, Zenon DEF AddObject, ObjectEvent, RemoveObject, BusEvent, CallAck
  <2>2. \E type \in {"ADD", "EVENT", "REMOVE", "BUS_EVENT", "ACK"} :
          Receive(c, type) /\ UNCHANGED <<cstate, c2s>>
    BY <1>7, Zenon DEF AddObject, ObjectEvent, RemoveObject, BusEvent, CallAck
  <2> QED
    BY <2>1, <2>2, ReceiveStep, Zenon
<1>8. ASSUME NEW k \in CallHandle, NEW h \in Handle, RemoveCallback(c, k, h)
      PROVE  Shaken'
  <2>1. \A d \in Client : d # c => replica'[d] = replica[d]
    BY <1>0, <1>8, Zenon DEF RemoveCallback
  <2>2. \E type \in {"REMOVE", "BUS_EVENT"} : Receive(c, type)
    BY <1>8, Zenon DEF RemoveCallback
  <2>3. Send(conn[c], CallPacket(k, h)) /\ UNCHANGED cstate
    BY <1>8, Zenon DEF RemoveCallback
  <2> QED
    BY <1>a, <2>1, <2>2, <2>3, ReceiveStep, Zenon
<1>9. ASSUME NEW k \in CallHandle, NEW h \in Handle, ClientCall(c, k, h)
      PROVE  Shaken'
  <2>0. Links /\ Answers /\ CallbackPeers /\ TypeOK
    BY Zenon DEF Shaken, TypeInv
  <2>1. /\ conn[c] \in Conn /\ peer[conn[c]] \in {"CONNECTED", "closed"}
        /\ Send(conn[c], CallPacket(k, h))
        /\ UNCHANGED <<conn, peer, s2c, broken, cstate, replica, ctx, srvcall>>
    <3>1. cstate[c] = "CONNECTED" /\ conn[c] # None
      BY <1>9, <2>0, Zenon DEF ClientCall, Links
    <3>2. AnswersTo(c) /\ conn[c] \in Conn
      BY <2>0, <3>1, Zenon DEF Answers, TypeOK, LinkTypeOK
    <3> QED
      BY <1>9, <3>1, <3>2, Zenon DEF ClientCall, serverVars, AnswersTo
  <2>2. CallsFromConnectedPeers' /\ \A x \in Conn : peer'[x] = "closed" => c2s'[x] = <<>>
    BY <1>a, <2>1, SendStep, Zenon
  <2>3. CallbackPeers'
    BY <2>0, <2>1, Zenon DEF CallbackPeers
  <2>4. Links'
    <3>1. \A x \in Conn : Open(x)' <=> Open(x)
      BY <2>1, ZenonT(40) DEF Open
    <3> QED
      BY <2>0, <2>1, <2>2, <3>1, Zenon DEF Links
  <2>5. Answers'
    BY <2>0, <2>1 DEF Answers, AnswersTo, Unanswered
  <2> QED
    BY <2>2, <2>3, <2>4, <2>5, Zenon DEF Shaken
<1> QED
  BY <1>1, <1>2, <1>3, <1>4, <1>5, <1>6, <1>7, <1>8, <1>9, Zenon DEF ClientNext, ClientPackets

-----------------------------------------------------------------------------
(***************************************************************************)
(* The server: the helpers.                                                *)
(***************************************************************************)

\* A request is taken from a peer that the server has not answered: the peer
\* waits, or its answer is sent.
LEMMA AnswerStep ==
    ASSUME Shaken, TypeInv', NEW p \in Conn, Unanswered(p),
           UNCHANGED <<conn, broken, srvcall, cstate, replica>>,
           c2s' = c2s \/ (c2s[p] # <<>> /\ c2s' = [c2s EXCEPT ![p] = Tail(@)]),
           ctx = Loop \/ ctx.p = p,
           NEW st \in {"IDLE", "CONNECTING", "CONNECTED", "REFUSED"},
           peer' = [peer EXCEPT ![p] = st],
           \/ /\ st = "IDLE"
              /\ UNCHANGED <<s2c, ctx>>
              /\ ctx = Loop
           \/ /\ st = "CONNECTING"
              /\ UNCHANGED s2c
              /\ ctx' = PeerCallback("connecting", p)
           \/ /\ st \in {"CONNECTED", "REFUSED"}
              /\ s2c' = [s2c EXCEPT ![p] = Written(p, ConRespPacket(st = "CONNECTED", ServerView))]
              /\ ctx' = IF st = "CONNECTED" THEN PeerCallback("connected", p) ELSE Loop
    PROVE  Shaken'
<1>0. TypeInv /\ CallbackPeers /\ Links /\ Answers /\ CallsFromConnectedPeers
  BY Zenon DEF Shaken
<1>1. /\ peer \in [Conn -> PeerState] /\ conn \in [Client -> Conn \cup {None}]
      /\ c2s \in [Conn -> Seq(ClientPacket)] /\ s2c \in [Conn -> Seq(ServerPacket)]
  BY <1>0, Zenon DEF TypeInv, TypeOK, LinkTypeOK
<1>2. peer[p] \in {"backlog", "IDLE", "CONNECTING", "REFUSED"}
  BY <1>0, Zenon DEF Unanswered, CallbackPeers
<1>3. CallbackPeers'
  BY <1>0, <1>1, <1>2, SMTT(30) DEF CallbackPeers, PeerCallback, Loop
<1>4. Links'
  <2>1. \A x \in Conn : x # p => peer'[x] = peer[x] /\ c2s'[x] = c2s[x] /\ s2c'[x] = s2c[x]
    BY <1>1, Zenon
  <2>2. peer'[p] # "closed" /\ p \notin broken
    BY <1>0, <1>1, <1>2, Zenon DEF Links
  <2>3. ~Open(p) => s2c'[p] = <<>>
    BY <1>0, <1>1, Zenon DEF Links, Written
  <2>4. \A x \in Conn : Open(x)' <=> Open(x)
    BY Zenon DEF Open
  <2> QED
    BY <1>0, <1>1, <2>1, <2>2, <2>3, <2>4 DEF Links
<1>5. ASSUME NEW x \in Conn, Unanswered(x)'
      PROVE  Unanswered(x) /\ (x = p => st \in {"IDLE", "CONNECTING"})
  BY <1>1, <1>2, <1>5 DEF Unanswered, PeerCallback, Loop
<1>6. Answers'
  <2> SUFFICES ASSUME NEW c \in Client, conn[c] # None PROVE AnswersTo(c)'
    BY Zenon DEF Answers
  <2>1. AnswersTo(c) /\ conn[c] \in Conn
    BY <1>0, <1>1, Zenon DEF Answers
  <2>5. conn'[c] = conn[c] /\ cstate'[c] = cstate[c]
    BY ZenonT(40)
  <2>2. CASE conn[c] # p
    <3>1. s2c'[conn[c]] = s2c[conn[c]] /\ peer'[conn[c]] = peer[conn[c]]
      BY <1>1, <2>1, <2>2, Zenon
    <3>2. Unanswered(conn[c])' => Unanswered(conn[c])
      BY <1>5, <2>1, Zenon
    <3> QED
      BY <2>1, <2>5, <3>1, <3>2, SMTT(30) DEF AnswersTo
  <2>3. CASE conn[c] = p /\ st \in {"IDLE", "CONNECTING"}
    <3>1. s2c' = s2c /\ peer'[p] = st
      BY <1>1, <2>3, Zenon
    <3>2. s2c[p] = <<>> /\ cstate[c] = "CONNECTING"
      BY <2>1, <2>3, Zenon DEF AnswersTo
    <3>3. \A i \in 1..Len(s2c[p]) : FALSE
      BY <3>2
    <3> QED
      BY <2>3, <2>5, <3>1, <3>2, <3>3, Zenon DEF AnswersTo
  <2>4. CASE conn[c] = p /\ st \in {"CONNECTED", "REFUSED"}
    <3> DEFINE m == ConRespPacket(st = "CONNECTED", ServerView)
    <3>1. /\ s2c'[p] = <<m>> /\ m.type = "CONRESP" /\ m.accepted = (st = "CONNECTED")
          /\ cstate[c] = "CONNECTING"
      BY <1>1, <2>4, ResponseWritten, ZenonT(30)
    <3>2. Len(s2c'[p]) = 1 /\ s2c'[p][1] = m /\ s2c'[p] # <<>>
      BY <3>1
    <3>3. ~Unanswered(p)' /\ peer'[p] = st
      BY <1>1, <1>5, <2>4, Zenon
    <3>4. \A i \in 1..Len(s2c'[p]) : i = 1
      BY <3>2
    <3> HIDE DEF m
    <3> QED
      BY <2>4, <3>1, <3>2, <3>3, <3>4, Zenon DEF AnswersTo
  <2> QED
    BY <2>2, <2>3, <2>4, Zenon
<1>7. CallsFromConnectedPeers'
  <2>1. \A i \in 1..Len(c2s[p]) : c2s[p][i].type # "CALL"
    BY <1>0, <1>2, Zenon DEF CallsFromConnectedPeers
  <2>2. \A i \in 1..Len(c2s'[p]) : c2s'[p][i].type # "CALL"
    <3>1. CASE c2s' = c2s
      BY <2>1, <3>1, Zenon
    <3>2. CASE c2s[p] # <<>> /\ c2s'[p] = Tail(c2s[p])
      BY <1>1, <2>1, <3>2, TailFacts
    <3> QED
      BY <1>1, <3>1, <3>2, Zenon
  <2> QED
    BY <1>0, <1>1, <2>2, Zenon DEF CallsFromConnectedPeers
<1> QED
  BY <1>3, <1>4, <1>6, <1>7, Zenon DEF Shaken

\* A step that changes no connection, and ends a callback or none.
LEMMA QuietStep ==
    ASSUME Shaken, TypeInv', UNCHANGED <<linkVars, cstate, replica>>,
           ctx' = ctx \/ (ctx' = Loop /\ ctx.at # "connecting"),
           srvcall'.p \in {srvcall.p, None}
    PROVE  Shaken'
<1> USE DEF Shaken, linkVars
<1>1. CallbackPeers'
  BY DEF CallbackPeers, Loop
<1>2. Links'
  BY Zenon DEF Links, Open
<1>3. ASSUME NEW p \in Conn, Unanswered(p)' PROVE Unanswered(p)
  BY <1>3 DEF Unanswered, Loop
<1>4. Answers'
  <2> SUFFICES ASSUME NEW c \in Client, conn[c] # None PROVE AnswersTo(c)'
    BY Zenon DEF Answers
  <2>1. AnswersTo(c) /\ conn[c] \in Conn
    BY Zenon DEF Answers, TypeInv, TypeOK, LinkTypeOK
  <2> QED
    BY <1>3, <2>1, Zenon DEF AnswersTo
<1>5. CallsFromConnectedPeers'
  BY Zenon DEF CallsFromConnectedPeers
<1> QED
  BY <1>1, <1>2, <1>4, <1>5, Zenon

\* obus_peer_destroy outside of callbacks, or on the peer of the callback.
LEMMA DestroyStep ==
    ASSUME Shaken, TypeInv', NEW p \in Conn, DestroyPeer(p), ctx' = Loop,
           ctx = Loop \/ ctx.p = p,
           UNCHANGED <<conn, s2c, broken, cstate, replica>>
    PROVE  Shaken'
<1> USE DEF Shaken, DestroyPeer
<1>0. peer \in [Conn -> PeerState] /\ c2s \in [Conn -> Seq(ClientPacket)]
  BY Zenon DEF TypeInv, TypeOK, LinkTypeOK
<1>1. CallbackPeers'
  <2>1. srvcall'.p # None => srvcall.p # None /\ srvcall.p # p /\ srvcall'.p = srvcall.p
    BY Zenon DEF Without, TypeInv, TypeOK, ServerTypeOK, MethodCall, NoCall, Loop
  <2> QED
    BY <1>0, <2>1 DEF CallbackPeers, Loop
<1>2. Links'
  BY <1>0 DEF Links, Open
<1>3. ASSUME NEW x \in Conn, Unanswered(x)' PROVE Unanswered(x) /\ x # p
  BY <1>0, <1>3, Zenon DEF Unanswered, Loop
<1>4. Answers'
  <2> SUFFICES ASSUME NEW c \in Client, conn[c] # None PROVE AnswersTo(c)'
    BY Zenon DEF Answers
  <2>1. AnswersTo(c) /\ conn[c] \in Conn
    BY Zenon DEF Answers, TypeInv, TypeOK, LinkTypeOK
  <2> QED
    BY <1>0, <1>3, <2>1, Zenon DEF AnswersTo
<1>5. CallsFromConnectedPeers'
  BY <1>0 DEF CallsFromConnectedPeers
<1> QED
  BY <1>1, <1>2, <1>4, <1>5, Zenon

\* A packet other than a connection response is appended for a client whose
\* peer is connected.
LEMMA AppendAnswers ==
    ASSUME Shaken, NEW c \in Client, conn[c] # None, peer[conn[c]] = "CONNECTED",
           NEW m \in ServerPacket, m.type # "CONRESP",
           s2c'[conn[c]] = Append(s2c[conn[c]], m),
           peer'[conn[c]] = "CONNECTED", UNCHANGED <<conn, cstate>>, ~Unanswered(conn[c])'
    PROVE  AnswersTo(c)'
<1> DEFINE p == conn[c]
           q == s2c[p]
           r == s2c'[p]
<1>1. AnswersTo(c) /\ p \in Conn /\ q \in Seq(ServerPacket)
  BY Zenon DEF Shaken, Answers, TypeInv, TypeOK, LinkTypeOK
<1>2. /\ Len(q) \in Nat /\ Len(r) = Len(q) + 1 /\ r # <<>>
      /\ \A i \in 1..Len(q) : r[i] = q[i]
      /\ r[Len(q) + 1] = m
      /\ q = <<>> <=> Len(q) = 0
  BY <1>1, AppendFacts, EmptyFacts, SMTT(30)
<1>3. cstate[c] \in {"CONNECTING", "CONNECTED"}
  BY <1>1, Zenon DEF AnswersTo, Shaken, Links
<1>4. \A i \in 1..Len(r) : r[i].type = "CONRESP" => i = 1 /\ cstate[c] = "CONNECTING"
  <2> SUFFICES ASSUME NEW i \in 1..Len(r), r[i].type = "CONRESP"
               PROVE  i = 1 /\ cstate[c] = "CONNECTING"
    BY Zenon
  <2>1. \A j \in 1..Len(q) : q[j].type = "CONRESP" => j = 1 /\ cstate[c] = "CONNECTING"
    BY <1>1, Zenon DEF AnswersTo
  <2>2. i # Len(q) + 1
    BY <1>2, Zenon
  <2>3. i \in 1..Len(q) /\ r[i] = q[i]
    BY <1>2, <2>2, SMTT(30)
  <2> QED
    BY <2>1, <2>3, Zenon
<1>5. ASSUME cstate[c] = "CONNECTING"
      PROVE  r[1].type = "CONRESP" /\ r[1].accepted
  <2>1. q # <<>> /\ q[1].type = "CONRESP" /\ q[1].accepted
    BY <1>1, <1>5, Zenon DEF AnswersTo
  <2> QED
    BY <1>2, <2>1
<1> HIDE DEF r
<1> QED
  BY <1>2, <1>3, <1>4, <1>5, Zenon DEF AnswersTo, r

\* obus_server_send_peers.
LEMMA BroadcastStep ==
    ASSUME Shaken, TypeInv', NEW m \in ServerPacket, m.type # "CONRESP",
           NEW lost \in SUBSET Connected, SendPeers(m, lost),
           UNCHANGED <<conn, broken, cstate, replica>>
    PROVE  Shaken'
<1> USE DEF Shaken
<1>1. CASE npeers = 0
  BY <1>1, QuietStep, Zenon DEF SendPeers, linkVars
<1>2. CASE npeers # 0
  <2>0. /\ peer' = [p \in Conn |-> IF p \in lost THEN "closed" ELSE peer[p]]
        /\ c2s' = [p \in Conn |-> IF p \in lost THEN <<>> ELSE c2s[p]]
        /\ s2c' = [p \in Conn |-> IF p \in Connected \ lost THEN Written(p, m) ELSE s2c[p]]
        /\ ctx' = Without(lost, ctx)
        /\ srvcall' = Without(lost, srvcall)
    BY <1>2, Zenon DEF SendPeers
  <2>1. CallbackPeers'
    <3>1. /\ ctx'.at = ctx.at /\ ctx'.p \in {ctx.p, None} /\ (ctx.p \in lost => ctx'.p = None)
          /\ srvcall'.p \in {srvcall.p, None} /\ (srvcall.p \in lost => srvcall'.p = None)
      BY <2>0, Zenon DEF Without, TypeInv, TypeOK, ServerTypeOK, Context, MethodCall, NoCall, Loop
    <3>2. ctx.p \in Conn \cup {None} /\ srvcall.p \in Conn \cup {None}
      BY DEF TypeInv, TypeOK, ServerTypeOK, Context, MethodCall, NoCall, Loop
    <3>3. ASSUME ctx.at = "connecting"
          PROVE  ctx' = ctx /\ peer'[ctx.p] = peer[ctx.p]
      BY <2>0, <3>3, Zenon DEF Without, Connected, CallbackPeers
    <3>4. /\ ctx'.at = "connecting" => ctx'.p \in Conn /\ peer'[ctx'.p] \in {"CONNECTING", "REFUSED"}
      BY <3>1, <3>3, Zenon DEF CallbackPeers
    <3>5. /\ ctx'.at # "connecting" /\ ctx'.p # None => peer'[ctx'.p] = "CONNECTED"
          /\ srvcall'.p # None => peer'[srvcall'.p] = "CONNECTED"
      BY <2>0, <3>1, <3>2, Zenon DEF CallbackPeers
    <3> QED
      BY <3>4, <3>5, Zenon DEF CallbackPeers
  <2>2. Links'
    BY <2>0, Zenon DEF Links, Open, Written, TypeInv, TypeOK, LinkTypeOK
  <2>3. ASSUME NEW p \in Conn, Unanswered(p)' PROVE Unanswered(p) /\ p \notin Connected
    BY <2>0, <2>3, Zenon DEF Unanswered, Without, CallbackPeers, Connected, TypeInv, TypeOK, ServerTypeOK,
                Context, MethodCall, Loop
  <2>4. Answers'
    <3> SUFFICES ASSUME NEW c \in Client, conn[c] # None PROVE AnswersTo(c)'
      BY Zenon DEF Answers
    <3> DEFINE p == conn[c]
    <3>1. AnswersTo(c) /\ p \in Conn /\ s2c[p] \in Seq(ServerPacket)
      BY Zenon DEF Answers, TypeInv, TypeOK, LinkTypeOK
    <3>2. CASE s2c'[p] = s2c[p]
      BY <2>0, <2>3, <3>1, <3>2, ZenonT(40) DEF AnswersTo, Connected
    <3>3. CASE s2c'[p] = Append(s2c[p], m) /\ p \in Connected \ lost
      <4>1. peer[p] = "CONNECTED" /\ peer'[p] = "CONNECTED"
        BY <2>0, <3>1, <3>3, Zenon DEF Connected
      <4>2. ~Unanswered(p)'
        BY <2>3, <3>1, <3>3, Zenon
      <4> QED
        BY <3>1, <3>3, <4>1, <4>2, AppendAnswers, Zenon
    <3> QED
      BY <2>0, <3>1, <3>2, <3>3, Zenon DEF Written
  <2>5. CallsFromConnectedPeers'
    BY <2>0 DEF CallsFromConnectedPeers
  <2> QED
    BY <2>1, <2>2, <2>4, <2>5, Zenon
<1> QED
  BY <1>1, <1>2, Zenon

\* The steps of a call: a connected peer's request is read, run or answered.
LEMMA CallStep ==
    ASSUME Shaken, TypeInv', NEW p \in Conn, peer[p] = "CONNECTED",
           NEW k, NEW h, NEW st, AckPacket(k, st, h, ServerView) \in ServerPacket,
           AckWritten(p, k, h, st) \/ UNCHANGED <<s2c, broken>>,
           UNCHANGED <<conn, peer, cstate, replica>>,
           c2s' = c2s \/ (c2s[p] # <<>> /\ c2s' = [c2s EXCEPT ![p] = Tail(@)]),
           \/ ctx' = ctx
           \/ ctx.at # "connecting" /\ ctx'.at # "connecting" /\ ctx'.p \in {None, p},
           srvcall'.p \in {srvcall.p, None, p}
    PROVE  Shaken'
<1> USE DEF Shaken
<1>1. CallbackPeers'
  BY Zenon DEF CallbackPeers
<1>2. /\ s2c \in [Conn -> Seq(ServerPacket)] /\ c2s \in [Conn -> Seq(ClientPacket)]
      /\ conn \in [Client -> Conn \cup {None}]
  BY ZenonT(40) DEF TypeInv, TypeOK, LinkTypeOK
<1>3. Links'
  BY <1>2 DEF Links, Open, AckWritten, Written
<1>4. ASSUME NEW x \in Conn, Unanswered(x)' PROVE Unanswered(x) /\ x # p
  BY <1>4, Zenon DEF Unanswered, CallbackPeers
<1>5. Answers'
  <2> SUFFICES ASSUME NEW c \in Client, conn[c] # None PROVE AnswersTo(c)'
    BY Zenon DEF Answers
  <2>1. AnswersTo(c) /\ conn[c] \in Conn
    BY <1>2, Zenon DEF Answers
  <2>2. CASE s2c'[conn[c]] = s2c[conn[c]]
    BY <1>4, <2>1, <2>2, Zenon DEF AnswersTo
  <2>3. CASE conn[c] = p /\ s2c'[p] = Append(s2c[p], AckPacket(k, st, h, ServerView))
    <3>1. AckPacket(k, st, h, ServerView).type # "CONRESP"
      BY Zenon DEF AckPacket
    <3> QED
      BY <1>4, <2>1, <2>3, <3>1, AppendAnswers, Zenon
  <2> QED
    BY <1>2, <2>1, <2>2, <2>3, Zenon DEF AckWritten, Written
<1>6. CallsFromConnectedPeers'
  <2>1. CASE c2s' = c2s
    BY <2>1, Zenon DEF CallsFromConnectedPeers
  <2>2. CASE c2s[p] # <<>> /\ c2s' = [c2s EXCEPT ![p] = Tail(@)]
    BY <1>2, <2>2, Zenon DEF CallsFromConnectedPeers
  <2> QED
    BY <2>1, <2>2, Zenon
<1> QED
  BY <1>1, <1>3, <1>5, <1>6, Zenon

\* The end of the server process.
LEMMA TerminateStep ==
    ASSUME Shaken, TypeInv', Terminate, UNCHANGED clientVars
    PROVE  Shaken'
<1> USE DEF Shaken, Terminate, clientVars
<1>1. CallbackPeers'
  BY Zenon DEF CallbackPeers, Loop, NoCall
<1>2. Links'
  BY Zenon DEF Links, Open, TypeInv, TypeOK, LinkTypeOK
<1>3. ASSUME NEW x \in Conn PROVE ~Unanswered(x)'
  BY Zenon DEF Unanswered, Loop
<1>4. Answers'
  <2> SUFFICES ASSUME NEW c \in Client, conn[c] # None PROVE AnswersTo(c)'
    BY Zenon DEF Answers
  <2>1. AnswersTo(c) /\ conn[c] \in Conn
    BY ZenonT(40) DEF Answers, TypeInv, TypeOK, LinkTypeOK
  <2> QED
    BY <1>3, <2>1, Zenon DEF AnswersTo
<1>5. CallsFromConnectedPeers'
  BY DEF CallsFromConnectedPeers
<1> QED
  BY <1>1, <1>2, <1>4, <1>5, Zenon

-----------------------------------------------------------------------------
(***************************************************************************)
(* The steps of the server.                                                *)
(***************************************************************************)

LEMMA ServerApiShaken ==
    ASSUME Shaken, TypeInv', ServerApi, UNCHANGED clientVars
    PROVE  Shaken'
<1> USE DEF clientVars
<1>0. TypeOK
  BY Zenon DEF Shaken, TypeInv
<1>1. ASSUME NEW h \in Handle, NEW v \in Value, NewObject(h, v)
      PROVE  Shaken'
  BY <1>1, QuietStep, Zenon DEF NewObject
<1>2. ASSUME NEW h \in Handle, DestroyObject(h) \/ RegisterObjectOom(h) \/ UnregisterObjectOom(h)
      PROVE  Shaken'
  BY <1>2, QuietStep, Zenon DEF DestroyObject, RegisterObjectOom, UnregisterObjectOom
<1>3. ASSUME NEW lost \in SUBSET Connected, NEW h \in Handle, RegisterObject(h, lost)
      PROVE  Shaken'
  <2> DEFINE m == AddPacket(h, info[h], ViewOf(sobj', info))
  <2>1. m.type # "CONRESP"
    BY Zenon DEF AddPacket
  <2>2. m \in ServerPacket
    BY <1>0, <1>3, PacketType, ViewType, Zenon DEF RegisterObject, TypeOK, ServerTypeOK
  <2> QED
    BY <1>3, <2>1, <2>2, BroadcastStep, Zenon DEF RegisterObject
<1>4. ASSUME NEW lost \in SUBSET Connected, NEW h \in Handle, UnregisterObject(h, lost)
      PROVE  Shaken'
  <2> DEFINE m == RemovePacket(h, ViewOf(sobj', info))
  <2>1. m.type # "CONRESP"
    BY Zenon DEF RemovePacket
  <2>2. m \in ServerPacket
    BY <1>0, PacketType, ViewType, Zenon DEF TypeOK, ServerTypeOK
  <2> QED
    BY <1>4, <2>1, <2>2, BroadcastStep, Zenon DEF UnregisterObject
<1>5. ASSUME NEW lost \in SUBSET Connected, NEW h \in Handle, NEW v \in Value,
             SendEvent(h, v, lost)
      PROVE  Shaken'
  <2> DEFINE m == EventPacket(h, v, ViewOf(sobj, info'))
  <2>1. m.type # "CONRESP"
    BY Zenon DEF EventPacket
  <2>2. m \in ServerPacket
    BY PacketType, ViewType, Zenon DEF TypeInv, TypeOK, ServerTypeOK
  <2> QED
    BY <1>5, <2>1, <2>2, BroadcastStep, Zenon DEF SendEvent
<1>6. ASSUME NEW lost \in SUBSET Connected, NEW add \in SUBSET Handle, NEW rem \in SUBSET Handle,
             NEW ev \in View, SendBusEvent(add, rem, ev, lost)
      PROVE  Shaken'
  <2> DEFINE added == [h \in Handle |-> IF h \in add THEN info[h] ELSE None]
             m == BusEventPacket(added, rem, ev, ViewOf(sobj', info'))
  <2>1. m.type # "CONRESP"
    BY Zenon DEF BusEventPacket
  <2>2. added \in View
    BY <1>0, Zenon DEF View, TypeOK, ServerTypeOK
  <2>3. m \in ServerPacket
    BY <2>2, WidePacketType, ViewType, Zenon DEF TypeInv, TypeOK, ServerTypeOK
  <2> QED
    BY <1>6, <2>1, <2>3, BroadcastStep, Zenon DEF SendBusEvent
<1>7. ASSUME RefuseConnection
      PROVE  Shaken'
  <2> USE <1>7 DEF RefuseConnection, serverVars
  <2>0. /\ peer \in [Conn -> PeerState] /\ ctx.p \in Conn /\ conn \in [Client -> Conn \cup {None}]
    BY Zenon DEF Shaken, CallbackPeers, TypeInv, TypeOK, LinkTypeOK
  <2>1. CallbackPeers'
    BY <2>0, SMTT(30) DEF Shaken, CallbackPeers
  <2>2. Links'
    BY <2>0 DEF Shaken, Links, Open
  <2>3. ASSUME NEW x \in Conn, Unanswered(x)' PROVE Unanswered(x)
    BY <2>0, <2>3, Zenon DEF Unanswered
  <2>4. Answers'
    <3> SUFFICES ASSUME NEW c \in Client, conn[c] # None PROVE AnswersTo(c)'
      BY Zenon DEF Answers
    <3>1. AnswersTo(c) /\ conn[c] \in Conn
      BY <2>0, Zenon DEF Shaken, Answers
    <3>2. CASE conn[c] = ctx.p
      <4>1. Unanswered(conn[c])
        BY <3>2, Zenon DEF Unanswered
      <4> QED
        BY <2>0, <3>1, <3>2, <4>1, Zenon DEF AnswersTo
    <3>3. CASE conn[c] # ctx.p
      BY <2>0, <2>3, <3>1, <3>3, Zenon DEF AnswersTo
    <3> QED
      BY <3>2, <3>3, Zenon
  <2>5. CallsFromConnectedPeers'
    BY <2>0, Zenon DEF Shaken, CallsFromConnectedPeers
  <2> QED
    BY <2>1, <2>2, <2>4, <2>5, Zenon DEF Shaken
<1>8. ASSUME SendAck
      PROVE  Shaken'
  <2>1. CASE ctx.p = None
    BY <1>8, <2>1, TerminateStep, Zenon DEF SendAck
  <2>2. CASE ctx.p # None
    <3>1. ctx \in MethodCall /\ ctx.p \in Conn
      BY <1>0, <1>8, <2>2 DEF SendAck, TypeOK, ServerTypeOK, Context, Loop, MethodCall
    <3>2. AckPacket(ctx.k, "ACKED", ctx.h, ServerView) \in ServerPacket
      BY <1>0, <3>1, PacketType, ViewType, Zenon DEF MethodCall, AckStatus, ServerView, TypeOK, ServerTypeOK
    <3>3. peer[ctx.p] = "CONNECTED"
      BY <1>8, <2>2, Zenon DEF SendAck, Shaken, CallbackPeers
    <3>4. srvcall'.p \in {None, ctx.p}
      BY <1>8, <2>2 DEF SendAck, Acknowledge, NoCall, Loop
    <3> QED
      BY <1>8, <2>2, <3>1, <3>2, <3>3, <3>4, CallStep, Zenon DEF SendAck, Acknowledge
  <2> QED
    BY <2>1, <2>2, Zenon
<1>9. ASSUME SendAckLate
      PROVE  Shaken'
  <2>1. CASE Terminate
    BY <2>1, TerminateStep, Zenon
  <2>2. CASE ~Terminate
    <3>1. srvcall \in MethodCall /\ srvcall.p \in Conn
      BY <1>0, <1>9, <2>2, Zenon DEF SendAckLate, TypeOK, ServerTypeOK, MethodCall
    <3>2. AckPacket(srvcall.k, "ACKED", srvcall.h, ServerView) \in ServerPacket
      BY <1>0, <3>1, PacketType, ViewType, Zenon DEF MethodCall, AckStatus, ServerView, TypeOK, ServerTypeOK
    <3>3. peer[srvcall.p] = "CONNECTED"
      BY <1>9, <2>2, Zenon DEF SendAckLate, Shaken, CallbackPeers
    <3>4. srvcall'.p = None
      BY <1>9, <2>2 DEF SendAckLate, NoCall, Loop
    <3> QED
      BY <1>9, <2>2, <3>1, <3>2, <3>3, <3>4, CallStep, Zenon DEF SendAckLate
  <2> QED
    BY <2>1, <2>2, Zenon
<1> QED
  BY <1>1, <1>2, <1>3, <1>4, <1>5, <1>6, <1>7, <1>8, <1>9, Zenon DEF ServerApi

\* A packet is read and ignored.
LEMMA IgnoreStep ==
    ASSUME Shaken, TypeInv', NEW p \in Conn, peer[p] # "closed", c2s[p] # <<>>,
           c2s' = [c2s EXCEPT ![p] = Tail(@)],
           UNCHANGED <<conn, peer, s2c, broken, ctx, srvcall, cstate, replica>>
    PROVE  Shaken'
<1> USE DEF Shaken
<1>1. c2s \in [Conn -> Seq(ClientPacket)]
  BY Zenon DEF TypeInv, TypeOK, LinkTypeOK
<1>2. CallbackPeers'
  BY Zenon DEF CallbackPeers
<1>3. Links'
  BY <1>1, Zenon DEF Links, Open
<1>4. Answers'
  BY ZenonT(40) DEF Answers, AnswersTo, Unanswered
<1>5. CallsFromConnectedPeers'
  BY <1>1, TailFacts DEF CallsFromConnectedPeers
<1> QED
  BY <1>2, <1>3, <1>4, <1>5, Zenon

LEMMA ServerHandlerShaken ==
    ASSUME Shaken, TypeInv', ServerHandler, UNCHANGED clientVars
    PROVE  Shaken'
<1> USE DEF clientVars
<1>0. TypeOK /\ CallbackPeers
  BY Zenon DEF Shaken, TypeInv
<1>a. ASSUME NEW p \in Conn, Received(p, "CALL")
      PROVE  peer[p] = "CONNECTED" /\ c2s[p] # <<>>
  <2>1. c2s[p] \in Seq(ClientPacket) /\ c2s[p] # <<>> /\ Head(c2s[p]).type = "CALL"
    BY <1>0, <1>a, Zenon DEF Received, TypeOK, LinkTypeOK
  <2>2. 1 \in 1..Len(c2s[p]) /\ c2s[p][1].type = "CALL"
    BY <2>1, TailFacts
  <2> QED
    BY <2>1, <2>2, Zenon DEF Shaken, CallsFromConnectedPeers
<1>1. ASSUME NEW p \in Conn, Accept(p)
      PROVE  Shaken'
  <2>1. Unanswered(p)
    BY <1>1, Zenon DEF Accept, Unanswered
  <2>2. CASE DestroyPeer(p) /\ Oom
    BY <1>1, <2>2, DestroyStep, Zenon DEF Accept
  <2>3. CASE peer' = [peer EXCEPT ![p] = "IDLE"] /\ UNCHANGED <<c2s, npeers, srvcall, oom>>
    BY <1>1, <2>1, <2>3, AnswerStep, Zenon DEF Accept
  <2> QED
    BY <1>1, <2>2, <2>3, Zenon DEF Accept
<1>2. ASSUME NEW p \in Conn, PeerError(p)
      PROVE  Shaken'
  BY <1>2, DestroyStep, Zenon DEF PeerError
<1>3. ASSUME NEW p \in Conn, ConnectionRequest(p)
      PROVE  Shaken'
  <2>1. CASE peer[p] = "IDLE"
    <3>1. Unanswered(p)
      BY <2>1, Zenon DEF Unanswered
    <3> QED
      BY <1>3, <2>1, <3>1, AnswerStep, Zenon DEF ConnectionRequest, Received
  <2>2. CASE peer[p] # "IDLE"
    BY <1>3, <2>2, IgnoreStep, Zenon DEF ConnectionRequest, Received
  <2> QED
    BY <2>1, <2>2, Zenon
<1>4. ASSUME NEW p \in Conn, ConnectionRequestMismatch(p)
      PROVE  Shaken'
  <2>1. Unanswered(p)
    BY <1>4, Zenon DEF ConnectionRequestMismatch, Unanswered
  <2>2. CASE DestroyPeer(p) /\ UNCHANGED s2c
    BY <1>4, <2>2, DestroyStep, Zenon DEF ConnectionRequestMismatch, Received
  <2>3. CASE /\ peer' = [peer EXCEPT ![p] = "REFUSED"]
             /\ c2s' = [c2s EXCEPT ![p] = Tail(@)]
             /\ s2c' = [s2c EXCEPT ![p] = Written(p, ConRespPacket(FALSE, ServerView))]
             /\ UNCHANGED <<npeers, srvcall>>
    <3>1. ("REFUSED" = "CONNECTED") = FALSE
      BY Zenon
    <3> QED
      BY <1>4, <2>1, <2>3, <3>1, AnswerStep, Zenon DEF ConnectionRequestMismatch, Received
  <2> QED
    BY <1>4, <2>2, <2>3, Zenon DEF ConnectionRequestMismatch
<1>5. ASSUME NEW p \in Conn, CallUndecodable(p)
      PROVE  Shaken'
  BY <1>a, <1>5, IgnoreStep, Zenon DEF CallUndecodable, serverVars
<1>6. ASSUME NEW p \in Conn, CallRejected(p)
      PROVE  Shaken'
  <2> DEFINE call == Request(p)
  <2>1. call \in MethodCall /\ call.p = p
    BY <1>0, <1>6, RequestType, Zenon DEF CallRejected
  <2>2. PICK st \in AckStatus : Acknowledge(call, st)
    BY <1>6, Zenon DEF CallRejected, AckStatus
  <2>3. AckPacket(call.k, st, call.h, ServerView) \in ServerPacket
    BY <1>0, <2>1, PacketType, ViewType, Zenon DEF MethodCall, ServerView, TypeOK, ServerTypeOK
  <2>4. srvcall'.p \in {None, p}
    BY <2>1, <2>2 DEF Acknowledge, NoCall, Loop
  <2>5. AckWritten(p, call.k, call.h, st) \/ UNCHANGED <<s2c, broken>>
    BY <2>1, <2>2, Zenon DEF Acknowledge
  <2> HIDE DEF call
  <2> QED
    BY <1>a, <1>6, <2>3, <2>4, <2>5, CallStep, Zenon DEF CallRejected
<1>7. ASSUME NEW p \in Conn, CallRequest(p)
      PROVE  Shaken'
  <2> DEFINE call == Request(p)
  <2>1. call \in MethodCall /\ call.p = p
    BY <1>0, <1>7, RequestType, Zenon DEF CallRequest
  <2>2. AckPacket(call.k, "ACKED", call.h, ServerView) \in ServerPacket
    BY <1>0, <2>1, PacketType, ViewType, Zenon DEF MethodCall, AckStatus, ServerView, TypeOK, ServerTypeOK
  <2>3. ctx'.at # "connecting" /\ ctx'.p = p /\ srvcall'.p = p /\ ctx.at # "connecting"
    BY <1>7, <2>1, Zenon DEF CallRequest, Received, MethodCall, Loop
  <2> HIDE DEF call
  <2> QED
    BY <1>a, <1>7, <2>2, <2>3, CallStep, Zenon DEF CallRequest
<1>8. ASSUME ConnectionResponse
      PROVE  Shaken'
  <2> DEFINE p == ctx.p
             st == IF peer[p] = "CONNECTING" THEN "CONNECTED" ELSE "REFUSED"
  <2>1. p \in Conn /\ Unanswered(p)
    BY <1>0, <1>8, Zenon DEF ConnectionResponse, CallbackPeers, Unanswered
  <2>2. (st = "CONNECTED") = (peer[p] = "CONNECTING")
    BY Zenon
  <2>3. /\ st \in {"CONNECTED", "REFUSED"}
        /\ peer' = [peer EXCEPT ![p] = st]
        /\ s2c' = [s2c EXCEPT ![p] = Written(p, ConRespPacket(st = "CONNECTED", ServerView))]
        /\ ctx' = IF st = "CONNECTED" THEN PeerCallback("connected", p) ELSE Loop
    BY <1>8, <2>2, Zenon DEF ConnectionResponse
  <2> HIDE DEF st
  <2> QED
    BY <1>8, <2>1, <2>3, AnswerStep, Zenon DEF ConnectionResponse
<1>9. ASSUME ConnectionResponseLost
      PROVE  Shaken'
  BY <1>0, <1>9, DestroyStep, Zenon DEF ConnectionResponseLost, CallbackPeers
<1>10. ASSUME ConnectedReturn
       PROVE  Shaken'
  BY <1>10, TerminateStep, QuietStep, Zenon DEF ConnectedReturn
<1>11. ASSUME MethodReturn
       PROVE  Shaken'
  <2>1. CASE ctx.p = None
    BY <1>11, <2>1, TerminateStep, Zenon DEF MethodReturn
  <2>2. CASE ctx.p # None
    <3>1. ctx \in MethodCall /\ ctx.p \in Conn
      BY <1>0, <1>11, <2>2 DEF MethodReturn, TypeOK, ServerTypeOK, Context, Loop, MethodCall
    <3>2. AckPacket(ctx.k, "REFUSED", ctx.h, ServerView) \in ServerPacket
      BY <1>0, <3>1, PacketType, ViewType, Zenon DEF MethodCall, AckStatus, ServerView, TypeOK, ServerTypeOK
    <3>3. peer[ctx.p] = "CONNECTED"
      BY <1>0, <1>11, <2>2, Zenon DEF MethodReturn, CallbackPeers
    <3>4. /\ AckWritten(ctx.p, ctx.k, ctx.h, "REFUSED") \/ UNCHANGED <<s2c, broken>>
          /\ srvcall'.p \in {None, ctx.p, srvcall.p}
          /\ ctx.at # "connecting" /\ ctx'.at # "connecting" /\ ctx'.p = None
      BY <1>11, <2>2 DEF MethodReturn, Acknowledge, NoCall, Loop
    <3> QED
      BY <1>11, <2>2, <3>1, <3>2, <3>3, <3>4, CallStep, ZenonT(40) DEF MethodReturn
  <2> QED
    BY <2>1, <2>2, Zenon
<1> QED
  BY <1>1, <1>2, <1>3, <1>4, <1>5, <1>6, <1>7, <1>8, <1>9, <1>10, <1>11, Zenon DEF ServerHandler

-----------------------------------------------------------------------------
(***************************************************************************)
(* What one packet does to a view.                                         *)
(***************************************************************************)

LEMMA ResponseLeads ==
    ASSUME NEW view \in View
    PROVE  /\ Leads(EmptyView, ConRespPacket(TRUE, view))
           /\ \A accepted \in BOOLEAN : ConRespPacket(accepted, view).after = view
<1>1. Added(EmptyView, view) = view
  BY Zenon DEF Added, EmptyView, View
<1> QED
  BY <1>1, Zenon DEF Leads, Apply, ConRespPacket

LEMMA AckLeads ==
    ASSUME NEW view, NEW k, NEW st, NEW h
    PROVE  /\ Leads(view, AckPacket(k, st, h, view))
           /\ AckPacket(k, st, h, view).after = view
           /\ AckPacket(k, st, h, view).type = "ACK"
BY Zenon DEF Leads, Apply, AckPacket

LEMMA AddLeads ==
    ASSUME TypeOK, NEW h \in Handle, sobj[h] = "new",
           sobj' = [sobj EXCEPT ![h] = "registered"]
    PROVE  Leads(ServerView, AddPacket(h, info[h], ViewOf(sobj', info)))
<1> DEFINE after == ViewOf(sobj', info)
           m == AddPacket(h, info[h], after)
<1>0. sobj \in [Handle -> {"free", "new", "registered"}]
  BY Zenon DEF TypeOK, ServerTypeOK
<1>1. Added(ServerView, Only(h, info[h])) = after
  BY <1>0, Zenon DEF Added, Only, EmptyView, ServerView, ViewOf
<1>2. m.type = "ADD" /\ m.h = h /\ m.v = info[h] /\ m.after = after
  BY Zenon DEF AddPacket
<1> HIDE DEF m, after
<1>3. Leads(ServerView, m)
  BY <1>1, <1>2, Zenon DEF Leads, Apply
<1> QED
  BY <1>3, Zenon DEF m, after

LEMMA RemoveLeads ==
    ASSUME TypeOK, NEW h \in Handle, sobj[h] = "registered",
           sobj' = [sobj EXCEPT ![h] = "new"]
    PROVE  Leads(ServerView, RemovePacket(h, ViewOf(sobj', info)))
<1> DEFINE after == ViewOf(sobj', info)
           m == RemovePacket(h, after)
<1>0. sobj \in [Handle -> {"free", "new", "registered"}] /\ info[h] # None
  BY Zenon DEF TypeOK, ServerTypeOK
<1>1. Removed(ServerView, {h}) = after /\ ServerView[h] # None
  BY <1>0, Zenon DEF Removed, ServerView, ViewOf
<1>2. m.type = "REMOVE" /\ m.h = h /\ m.after = after
  BY Zenon DEF RemovePacket
<1> HIDE DEF m, after
<1>3. Leads(ServerView, m)
  BY <1>1, <1>2, Zenon DEF Leads, Apply
<1> QED
  BY <1>3, Zenon DEF m, after

LEMMA EventLeads ==
    ASSUME TypeOK, NEW h \in Handle, NEW v \in Value, sobj[h] = "registered",
           info' = [info EXCEPT ![h] = v]
    PROVE  Leads(ServerView, EventPacket(h, v, ViewOf(sobj, info')))
<1> DEFINE after == ViewOf(sobj, info')
           m == EventPacket(h, v, after)
<1>0. info \in [Handle -> Value \cup {None}] /\ info[h] # None /\ v # None
  BY LinkAssumption, Zenon DEF LinkAssumption, TypeOK, ServerTypeOK
<1>1. Updated(ServerView, Only(h, v)) = after
  BY <1>0, Zenon DEF Updated, Only, EmptyView, ServerView, ViewOf
<1>2. m.type = "EVENT" /\ m.h = h /\ m.v = v /\ m.after = after
  BY Zenon DEF EventPacket
<1> HIDE DEF m, after
<1>3. Leads(ServerView, m)
  BY <1>1, <1>2, Zenon DEF Leads, Apply
<1> QED
  BY <1>3, Zenon DEF m, after

LEMMA BusEventLeads ==
    ASSUME TypeOK, NEW add \in SUBSET Handle, NEW rem \in SUBSET Handle, NEW ev \in View,
           \A h \in add : sobj[h] = "new",
           \A h \in rem : sobj[h] = "registered",
           \A h \in Handle : ev[h] # None => sobj[h] = "registered",
           sobj' = [h \in Handle |-> IF h \in add THEN "registered"
                                     ELSE IF h \in rem THEN "new" ELSE sobj[h]],
           info' = [h \in Handle |-> IF ev[h] # None THEN ev[h] ELSE info[h]]
    PROVE  Leads(ServerView,
                 BusEventPacket([h \in Handle |-> IF h \in add THEN info[h] ELSE None],
                                rem, ev, ViewOf(sobj', info')))
<1> DEFINE added == [h \in Handle |-> IF h \in add THEN info[h] ELSE None]
           after == ViewOf(sobj', info')
           m == BusEventPacket(added, rem, ev, after)
           result == Removed(Added(Updated(ServerView, ev), added), Known(ServerView, rem))
<1>0. \A h \in Handle : /\ info[h] = None <=> sobj[h] = "free"
                        /\ sobj[h] \in {"free", "new", "registered"}
  BY Zenon DEF TypeOK, ServerTypeOK
<1>1. ASSUME NEW h \in Handle PROVE result[h] = after[h]
  <2>1. ServerView[h] = IF sobj[h] = "registered" THEN info[h] ELSE None
    BY Zenon DEF ServerView, ViewOf
  <2>2. after[h] = IF h \in add THEN info[h]
                   ELSE IF h \in rem THEN None
                   ELSE IF ev[h] # None THEN ev[h]
                   ELSE IF sobj[h] = "registered" THEN info[h] ELSE None
    BY <1>0, Zenon DEF ViewOf
  <2>3. Updated(ServerView, ev)[h] = IF ev[h] # None THEN ev[h] ELSE ServerView[h]
    BY <1>0, <2>1, Zenon DEF Updated
  <2>4. Added(Updated(ServerView, ev), added)[h] =
          IF Updated(ServerView, ev)[h] = None THEN added[h] ELSE Updated(ServerView, ev)[h]
    BY Zenon DEF Added
  <2>5. h \in Known(ServerView, rem) <=> h \in rem
    BY <1>0, <2>1, Zenon DEF Known
  <2>6. result[h] = IF h \in rem THEN None ELSE Added(Updated(ServerView, ev), added)[h]
    BY <2>5, Zenon DEF Removed
  <2> QED
    BY <1>0, <2>1, <2>2, <2>3, <2>4, <2>6, Zenon
<1>2. result = after
  <2>1. /\ result = [h \in Handle |-> result[h]]
        /\ after = [h \in Handle |-> after[h]]
    BY Zenon DEF Removed, ViewOf
  <2> HIDE DEF result, after
  <2> QED
    BY <1>1, <2>1, Zenon
<1>3. /\ m.type = "BUS_EVENT" /\ m.add = added /\ m.rem = rem /\ m.ev = ev /\ m.after = after
  BY Zenon DEF BusEventPacket
<1> HIDE DEF m, after, added
<1>4. Leads(ServerView, m)
  BY <1>2, <1>3, Zenon DEF Leads, Apply
<1> QED
  BY <1>4, Zenon DEF m, after, added

\* Only a removal takes an object from a view.
LEMMA ApplyRemoves ==
    ASSUME NEW view \in View, NEW m \in ServerPacket, NEW h \in Handle,
           view[h] # None, Apply(view, m)[h] = None
    PROVE  Removes(m, h)
<1>1. /\ m.type = "CONRESP" => Apply(view, m) = Added(view, m.objs)
      /\ m.type = "ADD" => Apply(view, m) = Added(view, Only(m.h, m.v))
      /\ m.type = "EVENT" => Apply(view, m) = Updated(view, Only(m.h, m.v))
      /\ m.type = "REMOVE" => Apply(view, m) = Removed(view, {m.h})
      /\ m.type = "BUS_EVENT" =>
           Apply(view, m) = Removed(Added(Updated(view, m.ev), m.add), Known(view, m.rem))
      /\ m.type = "ACK" => Apply(view, m) = view
  BY Zenon DEF Apply
<1>3. \A objs : Added(view, objs)[h] # None
  BY Zenon DEF Added
<1>4. \A ev : Updated(view, ev)[h] # None
  BY Zenon DEF Updated
<1>5. \A ev, add : Added(Updated(view, ev), add)[h] # None
  BY <1>4, Zenon DEF Added
<1>6. \A v, rem : Removed(v, rem)[h] = IF h \in rem THEN None ELSE v[h]
  BY Zenon DEF Removed
<1>7. Apply(view, m)[h] = None
  BY Zenon
<1>8. m.type \in {"CONRESP", "ADD", "REMOVE", "EVENT", "BUS_EVENT", "ACK"}
  BY Zenon DEF ServerPacket
<1>9. CASE m.type \in {"CONRESP", "ADD", "EVENT", "ACK"}
  BY <1>1, <1>3, <1>4, <1>7, <1>9, Zenon
<1>10. CASE m.type = "REMOVE"
  BY <1>1, <1>6, <1>7, <1>10, SMTT(30) DEF Removes
<1>11. CASE m.type = "BUS_EVENT"
  BY <1>1, <1>5, <1>6, <1>7, <1>11 DEF Removes, Known
<1> QED
  BY <1>8, <1>9, <1>10, <1>11, Zenon

-----------------------------------------------------------------------------
(***************************************************************************)
(* What one step does to the packets on their way to a client.             *)
(***************************************************************************)

\* A packet that leads from the server's view to its next one is written.
LEMMA FollowsWrite ==
    ASSUME Shaken, NEW c \in Client, conn[c] # None, Follows(c), NEW m \in ServerPacket,
           peer[conn[c]] = "CONNECTED", Leads(ServerView, m), m.after = ServerView',
           s2c'[conn[c]] = Written(conn[c], m), broken' = broken,
           UNCHANGED <<conn, replica>>
    PROVE  Follows(c)'
<1> DEFINE p == conn[c]
           q == s2c[p]
           r == s2c'[p]
<1>0. p \in Conn /\ q \in Seq(ServerPacket) /\ Open(p)
  BY Zenon DEF Shaken, TypeInv, TypeOK, LinkTypeOK, Open
<1>1. CASE p \in broken
  BY <1>1, FollowsSame, Zenon DEF Written
<1>2. CASE p \notin broken
  <2>1. /\ Len(q) \in Nat /\ Len(r) = Len(q) + 1 /\ r # <<>>
        /\ \A i \in 1..Len(q) : r[i] = q[i]
        /\ r[Len(q) + 1] = m
        /\ q = <<>> <=> Len(q) = 0
    <3>1. r = Append(q, m)
      BY <1>0, <1>2, Zenon DEF Written
    <3> HIDE DEF p, q, r
    <3> QED
      BY <1>0, <3>1, AppendFacts, EmptyFacts
  <2>2. /\ q = <<>> => replica[c] = ServerView
        /\ q # <<>> => q[Len(q)].after = ServerView
    BY <1>2, Zenon DEF Follows
  <2>3. r[Len(r)].after = ServerView'
    BY <2>1, Zenon
  <2>4. q = <<>> => Leads(replica[c], r[1])
    BY <2>1, <2>2, SMTT(30)
  <2>5. q # <<>> => r[1] = q[1]
    BY <2>1
  <2>6. ASSUME NEW i \in 1..(Len(r) - 1) PROVE Leads(r[i].after, r[i + 1])
    <3>1. CASE i = Len(q)
      <4>1. q # <<>> /\ r[i] = q[Len(q)] /\ r[i + 1] = m
        BY <2>1, <3>1
      <4> QED
        BY <2>2, <4>1, Zenon
    <3>2. CASE i # Len(q)
      <4>1. i \in 1..(Len(q) - 1) /\ r[i] = q[i] /\ r[i + 1] = q[i + 1]
        BY <2>1, <3>2, SMTT(30)
      <4> QED
        BY <4>1, Zenon DEF Follows
    <3> QED
      BY <3>1, <3>2, Zenon
  <2>7. (r[1].type = "CONRESP" => r[1].accepted) => Leads(replica[c], r[1])
    BY <2>4, <2>5, Zenon DEF Follows
  <2>8. p' = p /\ replica'[c] = replica[c] /\ r # <<>>
    BY <2>1, Zenon
  <2> HIDE DEF r, q
  <2> QED
    BY <2>3, <2>6, <2>7, <2>8, Zenon DEF Follows, r
<1> QED
  BY <1>1, <1>2, Zenon

LEMMA SingletonFacts ==
    ASSUME NEW m, NEW q, q = <<m>>
    PROVE  Len(q) = 1 /\ q[1] = m /\ q # <<>> /\ \A i \in 1..(Len(q) - 1) : FALSE
OBVIOUS

\* The answer to a connection request is written.
LEMMA FollowsResponse ==
    ASSUME Shaken, NEW p \in Conn, Unanswered(p), NEW accepted \in BOOLEAN,
           NEW c \in Client, conn[c] = p,
           s2c'[p] = Written(p, ConRespPacket(accepted, ServerView)),
           UNCHANGED <<conn, replica>>, ServerView' = ServerView
    PROVE  Follows(c)'
<1> DEFINE m == ConRespPacket(accepted, ServerView)
<1>0. ServerView \in View /\ s2c \in [Conn -> Seq(ServerPacket)]
  BY ViewType, Zenon DEF Shaken, TypeInv, TypeOK, ServerTypeOK, LinkTypeOK, ServerView
<1>a. Written(p, m) = <<m>> /\ m.type = "CONRESP" /\ m.accepted = accepted /\ cstate[c] = "CONNECTING"
  BY ResponseWritten, Zenon
<1>1. s2c'[p] = <<m>> /\ m.type = "CONRESP" /\ m.accepted = accepted /\ replica[c] = EmptyView
  BY <1>0, <1>a, Zenon DEF Shaken, Links
<1>2. m.after = ServerView /\ (accepted => Leads(EmptyView, m))
  BY <1>0, ResponseLeads, Zenon
<1> HIDE DEF m
<1>3. /\ Len(s2c'[p]) = 1 /\ s2c'[p][1] = m /\ s2c'[p] # <<>>
      /\ \A i \in 1..(Len(s2c'[p]) - 1) : FALSE
  BY <1>1, SingletonFacts, Zenon
<1>4. conn'[c] = p /\ replica'[c] = EmptyView
  BY <1>1, Zenon
<1> QED
  BY <1>1, <1>2, <1>3, <1>4, Zenon DEF Follows


\* The removals on their way to a client are still there, and one more packet
\* may be.
LEMMA AnnouncedSame ==
    ASSUME NEW c \in Client, AnnouncedTo(c), conn'[c] = conn[c], s2c'[conn[c]] = s2c[conn[c]],
           replica'[c] = replica[c], ServerView' = ServerView
    PROVE  AnnouncedTo(c)'
BY Zenon DEF AnnouncedTo, Seen, Incoming

LEMMA AnnouncedWrite ==
    ASSUME Shaken, NEW c \in Client, conn[c] # None, AnnouncedTo(c), NEW m \in ServerPacket,
           Leads(ServerView, m), m.after = ServerView',
           s2c'[conn[c]] = Append(s2c[conn[c]], m), UNCHANGED <<conn, replica>>
    PROVE  AnnouncedTo(c)'
<1> DEFINE q == Incoming(c)
           r == Incoming(c)'
<1>0. q \in Seq(ServerPacket) /\ r = Append(q, m) /\ ServerView \in View
  BY ViewType, Zenon DEF Shaken, TypeInv, TypeOK, LinkTypeOK, ServerTypeOK, Incoming, ServerView
<1>1. /\ Len(q) \in Nat /\ Len(r) = Len(q) + 1
      /\ \A i \in 1..Len(q) : r[i] = q[i]
      /\ r[Len(q) + 1] = m
  <2> HIDE DEF q, r
  <2> QED
    BY <1>0, AppendFacts
<1> SUFFICES ASSUME NEW i \in 0..Len(r), NEW h \in Handle, Seen(c, i)'[h] # None,
                    ServerView'[h] = None
             PROVE  \E j \in (i + 1)..Len(r) : Removes(r[j], h)
  BY Zenon DEF AnnouncedTo
<1>2. i # Len(r)
  <2>1. CASE i = Len(r)
    <3>1. Seen(c, i)' = m.after
      BY <1>1, <2>1, SMTT(30) DEF Seen
    <3> QED
      BY <3>1, Zenon
  <2> QED
    BY <2>1, Zenon
<1>3. i \in 0..Len(q) /\ Seen(c, i)' = Seen(c, i)
  BY <1>1, <1>2 DEF Seen
<1>4. CASE ServerView[h] = None
  <2>1. PICK j \in (i + 1)..Len(q) : Removes(q[j], h)
    BY <1>3, <1>4, Zenon DEF AnnouncedTo
  <2>2. j \in (i + 1)..Len(r) /\ r[j] = q[j]
    BY <1>1, <1>3
  <2> QED
    BY <2>1, <2>2, Zenon
<1>5. CASE ServerView[h] # None
  <2>1. Removes(m, h)
    BY <1>0, <1>5, ApplyRemoves, Zenon DEF Leads
  <2>2. Len(r) \in (i + 1)..Len(r) /\ r[Len(r)] = m
    BY <1>1, <1>3
  <2> QED
    BY <2>1, <2>2, Zenon
<1> QED
  BY <1>4, <1>5, Zenon

\* The connection response is all there is, and records the server's view.
LEMMA AnnouncedResponse ==
    ASSUME NEW c \in Client, NEW m, s2c'[conn[c]] = <<m>>, m.after = ServerView',
           conn'[c] = conn[c], replica'[c] = EmptyView
    PROVE  AnnouncedTo(c)'
<1> SUFFICES ASSUME NEW i \in 0..Len(Incoming(c)'), NEW h \in Handle, Seen(c, i)'[h] # None,
                    ServerView'[h] = None
             PROVE  FALSE
  BY Zenon DEF AnnouncedTo
<1>1. Incoming(c)' = <<m>>
  BY Zenon DEF Incoming
<1>2. i \in {0, 1} /\ Incoming(c)'[1] = m
  BY <1>1
<1> QED
  BY <1>2, Zenon DEF Seen, EmptyView


-----------------------------------------------------------------------------
(***************************************************************************)
(* The steps of the server.                                                *)
(***************************************************************************)

\* What a step of the server does to connection p: nothing, or it writes a
\* packet that leads from its view to its next one, or it answers a request.
Delivers(p) ==
    \/ /\ s2c'[p] = s2c[p]
       /\ peer'[p] = "CONNECTED" /\ p \notin broken' =>
            /\ peer[p] = "CONNECTED" /\ p \notin broken
            /\ ServerView' = ServerView
    \/ \E m \in ServerPacket :
          /\ peer[p] = "CONNECTED"
          /\ Leads(ServerView, m)
          /\ m.after = ServerView'
          /\ s2c'[p] = Written(p, m)
          /\ broken' = broken
    \/ \E accepted \in BOOLEAN :
          /\ Unanswered(p)
          /\ s2c'[p] = Written(p, ConRespPacket(accepted, ServerView))
          /\ ServerView' = ServerView

Delivery == \A p \in Conn : Delivers(p)

LEMMA DeliveryFollows ==
    ASSUME Shaken, Replication, Delivery, UNCHANGED <<conn, replica>>
    PROVE  Replication'
<1> SUFFICES ASSUME NEW c \in Client, conn[c] # None PROVE Follows(c)'
  BY Zenon DEF Replication
<1>1. Follows(c) /\ conn[c] \in Conn /\ Delivers(conn[c])
  BY Zenon DEF Replication, Delivery, Shaken, TypeInv, TypeOK, LinkTypeOK
<1>2. CASE /\ s2c'[conn[c]] = s2c[conn[c]]
           /\ peer'[conn[c]] = "CONNECTED" /\ conn[c] \notin broken' =>
                /\ peer[conn[c]] = "CONNECTED" /\ conn[c] \notin broken
                /\ ServerView' = ServerView
  BY <1>1, <1>2, FollowsSame, Zenon
<1>3. ASSUME NEW m \in ServerPacket, peer[conn[c]] = "CONNECTED", Leads(ServerView, m),
             m.after = ServerView', s2c'[conn[c]] = Written(conn[c], m), broken' = broken
      PROVE  Follows(c)'
  BY <1>1, <1>3, FollowsWrite, Zenon
<1>4. ASSUME NEW accepted \in BOOLEAN, Unanswered(conn[c]), ServerView' = ServerView,
             s2c'[conn[c]] = Written(conn[c], ConRespPacket(accepted, ServerView))
      PROVE  Follows(c)'
  BY <1>1, <1>4, FollowsResponse, Zenon
<1> QED
  BY <1>1, <1>2, <1>3, <1>4, Zenon DEF Delivers

LEMMA DeliveryAnnounced ==
    ASSUME Shaken, Announced, Delivery, UNCHANGED <<conn, replica>>
    PROVE  Announced'
<1> SUFFICES ASSUME NEW c \in Client, conn[c] # None, peer'[conn[c]] = "CONNECTED",
                    conn[c] \notin broken'
             PROVE  AnnouncedTo(c)'
  BY Zenon DEF Announced
<1> DEFINE p == conn[c]
<1>1. p \in Conn /\ Delivers(p) /\ Open(p)
  BY Zenon DEF Delivery, Shaken, TypeInv, TypeOK, LinkTypeOK, Open
<1>2. CASE s2c'[p] = s2c[p] /\ peer[p] = "CONNECTED" /\ p \notin broken /\ ServerView' = ServerView
  BY <1>2, AnnouncedSame, Zenon DEF Announced
<1>3. ASSUME NEW m \in ServerPacket, peer[p] = "CONNECTED", Leads(ServerView, m),
             m.after = ServerView', s2c'[p] = Written(p, m), broken' = broken
      PROVE  AnnouncedTo(c)'
  <2>1. s2c'[p] = Append(s2c[p], m)
    BY <1>1, <1>3, Zenon DEF Written
  <2> QED
    BY <1>3, <2>1, AnnouncedWrite, Zenon DEF Announced
<1>4. ASSUME NEW accepted \in BOOLEAN, Unanswered(p), ServerView' = ServerView,
             s2c'[p] = Written(p, ConRespPacket(accepted, ServerView))
      PROVE  AnnouncedTo(c)'
  <2> DEFINE m == ConRespPacket(accepted, ServerView)
  <2>1. s2c'[p] = <<m>> /\ cstate[c] = "CONNECTING"
    BY <1>1, <1>4, ResponseWritten, Zenon
  <2>2. m.after = ServerView' /\ replica'[c] = EmptyView
    BY <1>4, <2>1, Zenon DEF ConRespPacket, Shaken, Links
  <2> HIDE DEF m
  <2> QED
    BY <2>1, <2>2, AnnouncedResponse, Zenon
<1> QED
  BY <1>1, <1>2, <1>3, <1>4, Zenon DEF Delivers

LEMMA QuietDelivery ==
    ASSUME UNCHANGED s2c,
           \A p \in Conn : peer'[p] = "CONNECTED" /\ p \notin broken' =>
               /\ peer[p] = "CONNECTED" /\ p \notin broken
               /\ ServerView' = ServerView
    PROVE  Delivery
BY Zenon DEF Delivery, Delivers

LEMMA BroadcastDelivery ==
    ASSUME Shaken, NEW m \in ServerPacket, NEW lost \in SUBSET Connected,
           SendPeers(m, lost), Leads(ServerView, m), m.after = ServerView', UNCHANGED broken
    PROVE  Delivery
<1>1. CASE npeers = 0
  <2>1. Connected = {}
    BY <1>1, Zenon DEF Shaken, TypeInv, Counted
  <2> QED
    BY <1>1, <2>1, QuietDelivery, Zenon DEF SendPeers, Connected
<1>2. CASE npeers # 0
  <2>0. /\ peer' = [p \in Conn |-> IF p \in lost THEN "closed" ELSE peer[p]]
        /\ s2c' = [p \in Conn |-> IF p \in Connected \ lost THEN Written(p, m) ELSE s2c[p]]
    BY <1>2, Zenon DEF SendPeers
  <2> SUFFICES ASSUME NEW p \in Conn PROVE Delivers(p)
    BY Zenon DEF Delivery
  <2>1. CASE p \in Connected \ lost
    BY <2>0, <2>1, Zenon DEF Delivers, Connected
  <2>2. CASE p \notin Connected \ lost
    <3>1. s2c'[p] = s2c[p] /\ peer'[p] # "CONNECTED"
      BY <2>0, <2>2, Zenon DEF Connected
    <3> QED
      BY <3>1, Zenon DEF Delivers
  <2> QED
    BY <2>1, <2>2, Zenon
<1> QED
  BY <1>1, <1>2, Zenon

LEMMA AckDelivery ==
    ASSUME Shaken, NEW p \in Conn, peer[p] = "CONNECTED", NEW k, NEW st, NEW h,
           AckPacket(k, st, h, ServerView) \in ServerPacket, AckWritten(p, k, h, st),
           UNCHANGED peer, ServerView' = ServerView
    PROVE  Delivery
<1> DEFINE m == AckPacket(k, st, h, ServerView)
<1>0. s2c \in [Conn -> Seq(ServerPacket)] /\ Leads(ServerView, m) /\ m.after = ServerView'
  BY AckLeads DEF Shaken, TypeInv, TypeOK, LinkTypeOK
<1>1. CASE s2c' = [s2c EXCEPT ![p] = Written(p, m)] /\ UNCHANGED broken
  <2> SUFFICES ASSUME NEW x \in Conn PROVE Delivers(x)
    BY Zenon DEF Delivery
  <2> HIDE DEF m
  <2>1. CASE x = p
    <3>1. s2c'[p] = Written(p, m) /\ m \in ServerPacket
      BY <1>0, <1>1, Zenon DEF m
    <3> QED
      BY <1>0, <1>1, <2>1, <3>1, Zenon DEF Delivers
  <2>2. CASE x # p
    BY <1>0, <1>1, <2>2, Zenon DEF Delivers
  <2> QED
    BY <2>1, <2>2, Zenon
<1>2. CASE broken' = broken \cup {p} /\ UNCHANGED s2c
  BY <1>2, QuietDelivery, Zenon
<1> QED
  BY <1>1, <1>2, Zenon DEF AckWritten

LEMMA ResponseDelivery ==
    ASSUME Shaken, NEW p \in Conn, Unanswered(p), NEW accepted \in BOOLEAN, NEW st,
           s2c' = [s2c EXCEPT ![p] = Written(p, ConRespPacket(accepted, ServerView))],
           peer' = [peer EXCEPT ![p] = st], UNCHANGED broken, ServerView' = ServerView
    PROVE  Delivery
<1> SUFFICES ASSUME NEW x \in Conn PROVE Delivers(x)
  BY Zenon DEF Delivery
<1>1. s2c \in [Conn -> Seq(ServerPacket)] /\ peer \in [Conn -> PeerState]
  BY Zenon DEF Shaken, TypeInv, TypeOK, LinkTypeOK
<1>2. CASE x = p
  <2>1. s2c'[p] = Written(p, ConRespPacket(accepted, ServerView))
    BY <1>1, Zenon
  <2> QED
    BY <1>2, <2>1, Zenon DEF Delivers
<1>3. CASE x # p
  <2>1. s2c'[x] = s2c[x] /\ peer'[x] = peer[x]
    BY <1>1, <1>3, Zenon
  <2> QED
    BY <2>1, Zenon DEF Delivers
<1> QED
  BY <1>2, <1>3, Zenon

LEMMA ServerApiDelivery ==
    ASSUME Shaken, oom = 0, oom' = 0, ServerApi, UNCHANGED clientVars
    PROVE  Delivery
<1> USE DEF clientVars
<1>0. TypeOK /\ ~Oom
  BY DEF Shaken, TypeInv, Oom
<1>1. ASSUME NEW h \in Handle, NEW v \in Value, NewObject(h, v)
      PROVE  Delivery
  <2>1. ServerView' = ServerView
    BY <1>0, <1>1, Zenon DEF NewObject, ServerView, ViewOf, TypeOK, ServerTypeOK
  <2> QED
    BY <1>1, <2>1, QuietDelivery, Zenon DEF NewObject, linkVars
<1>2. ASSUME NEW h \in Handle, DestroyObject(h)
      PROVE  Delivery
  <2>1. ServerView' = ServerView
    BY <1>0, <1>2, Zenon DEF DestroyObject, ServerView, ViewOf, TypeOK, ServerTypeOK
  <2> QED
    BY <1>2, <2>1, QuietDelivery, Zenon DEF DestroyObject, linkVars
<1>3. ASSUME NEW lost \in SUBSET Connected, NEW h \in Handle, RegisterObject(h, lost)
      PROVE  Delivery
  <2> DEFINE m == AddPacket(h, info[h], ViewOf(sobj', info))
  <2>1. m.after = ServerView'
    BY <1>3, Zenon DEF AddPacket, ServerView, RegisterObject
  <2>2. m \in ServerPacket
    BY <1>0, <1>3, PacketType, ViewType, Zenon DEF RegisterObject, TypeOK, ServerTypeOK
  <2>3. Leads(ServerView, m)
    BY <1>0, <1>3, AddLeads, Zenon DEF RegisterObject
  <2> QED
    BY <1>3, <2>1, <2>2, <2>3, BroadcastDelivery, Zenon DEF RegisterObject
<1>4. ASSUME NEW lost \in SUBSET Connected, NEW h \in Handle, UnregisterObject(h, lost)
      PROVE  Delivery
  <2> DEFINE m == RemovePacket(h, ViewOf(sobj', info))
  <2>1. m.after = ServerView'
    BY <1>4, Zenon DEF RemovePacket, ServerView, UnregisterObject
  <2>2. m \in ServerPacket
    <3>1. sobj' \in [Handle -> {"free", "new", "registered"}]
      BY <1>0, <1>4, Zenon DEF UnregisterObject, TypeOK, ServerTypeOK
    <3> QED
      BY <1>0, <3>1, PacketType, ViewType, Zenon DEF TypeOK, ServerTypeOK
  <2>3. Leads(ServerView, m)
    BY <1>0, <1>4, RemoveLeads, Zenon DEF UnregisterObject
  <2> QED
    BY <1>4, <2>1, <2>2, <2>3, BroadcastDelivery, Zenon DEF UnregisterObject
<1>5. ASSUME NEW lost \in SUBSET Connected, NEW h \in Handle, NEW v \in Value,
             SendEvent(h, v, lost)
      PROVE  Delivery
  <2> DEFINE m == EventPacket(h, v, ViewOf(sobj, info'))
  <2>1. m.after = ServerView'
    BY <1>5, Zenon DEF EventPacket, ServerView, SendEvent
  <2>2. m \in ServerPacket
    <3>1. info' \in [Handle -> Value \cup {None}]
      BY <1>0, <1>5, Zenon DEF SendEvent, TypeOK, ServerTypeOK
    <3> QED
      BY <1>0, <3>1, PacketType, ViewType, Zenon DEF TypeOK, ServerTypeOK
  <2>3. Leads(ServerView, m)
    BY <1>0, <1>5, EventLeads, Zenon DEF SendEvent
  <2> QED
    BY <1>5, <2>1, <2>2, <2>3, BroadcastDelivery, Zenon DEF SendEvent
<1>6. ASSUME NEW lost \in SUBSET Connected, NEW add \in SUBSET Handle, NEW rem \in SUBSET Handle,
             NEW ev \in View, SendBusEvent(add, rem, ev, lost)
      PROVE  Delivery
  <2> DEFINE added == [h \in Handle |-> IF h \in add THEN info[h] ELSE None]
             m == BusEventPacket(added, rem, ev, ViewOf(sobj', info'))
  <2>1. m.after = ServerView'
    BY Zenon DEF BusEventPacket, ServerView
  <2>2. added \in View
    BY <1>0, Zenon DEF View, TypeOK, ServerTypeOK
  <2>3. info' \in [Handle -> Value \cup {None}]
    BY <1>0, <1>6, Zenon DEF SendBusEvent, TypeOK, ServerTypeOK, View
  <2>4. m \in ServerPacket
    BY <2>2, <2>3, WidePacketType, ViewType, Zenon
  <2>5. Leads(ServerView, m)
    BY <1>0, <1>6, BusEventLeads, Zenon DEF SendBusEvent
  <2> QED
    BY <1>6, <2>1, <2>4, <2>5, BroadcastDelivery, Zenon DEF SendBusEvent
<1>7. CASE RefuseConnection
  <2>1. ServerView' = ServerView /\ peer \in [Conn -> PeerState]
    BY <1>0, <1>7, Zenon DEF RefuseConnection, serverVars, ServerView, TypeOK, LinkTypeOK
  <2> QED
    BY <1>7, <2>1, QuietDelivery, Zenon DEF RefuseConnection
<1>8. CASE Terminate
  BY <1>8, QuietDelivery, Zenon DEF Terminate
<1>9. ASSUME SendAck, ~Terminate
      PROVE  Delivery
  <2>1. ctx.p # None /\ Acknowledge(ctx, "ACKED") /\ UNCHANGED <<conn, peer, objVars>> /\ ctx.at = "method"
    BY <1>9, Zenon DEF SendAck
  <2>2. AckWritten(ctx.p, ctx.k, ctx.h, "ACKED")
    BY <1>0, <2>1, Zenon DEF Acknowledge
  <2>3. ctx \in MethodCall /\ ctx.p \in Conn /\ peer[ctx.p] = "CONNECTED"
    BY <1>0, <2>1 DEF Shaken, CallbackPeers, TypeOK, ServerTypeOK, Context, Loop, MethodCall
  <2>4. AckPacket(ctx.k, "ACKED", ctx.h, ServerView) \in ServerPacket
    BY <1>0, <2>3, PacketType, ViewType, Zenon DEF MethodCall, AckStatus, ServerView, TypeOK, ServerTypeOK
  <2>5. ServerView' = ServerView
    BY <2>1, Zenon DEF ServerView, objVars
  <2> QED
    BY <2>1, <2>2, <2>3, <2>4, <2>5, AckDelivery, Zenon
<1>10. ASSUME SendAckLate, ~Terminate
       PROVE  Delivery
  <2>1. /\ srvcall.p # None /\ AckWritten(srvcall.p, srvcall.k, srvcall.h, "ACKED")
        /\ UNCHANGED <<conn, peer, objVars>> /\ srvcall # NoCall
    BY <1>10, Zenon DEF SendAckLate
  <2>2. srvcall \in MethodCall /\ srvcall.p \in Conn /\ peer[srvcall.p] = "CONNECTED"
    BY <1>0, <2>1, Zenon DEF Shaken, CallbackPeers, TypeOK, ServerTypeOK, MethodCall
  <2>3. AckPacket(srvcall.k, "ACKED", srvcall.h, ServerView) \in ServerPacket
    BY <1>0, <2>2, PacketType, ViewType, Zenon DEF MethodCall, AckStatus, ServerView, TypeOK, ServerTypeOK
  <2>4. ServerView' = ServerView
    BY <2>1, Zenon DEF ServerView, objVars
  <2> QED
    BY <2>1, <2>2, <2>3, <2>4, AckDelivery, Zenon
<1>11. ASSUME NEW h \in Handle PROVE ~RegisterObjectOom(h) /\ ~UnregisterObjectOom(h)
  BY <1>0, Zenon DEF RegisterObjectOom, UnregisterObjectOom
<1> QED
  BY <1>1, <1>2, <1>3, <1>4, <1>5, <1>6, <1>7, <1>8, <1>9, <1>10, <1>11, Zenon DEF ServerApi

LEMMA ServerHandlerDelivery ==
    ASSUME Shaken, oom = 0, oom' = 0, ServerHandler, UNCHANGED clientVars
    PROVE  Delivery
<1> USE DEF clientVars
<1>0. TypeOK /\ ~Oom /\ peer \in [Conn -> PeerState] /\ CallbackPeers
  BY DEF Shaken, TypeInv, Oom, TypeOK, LinkTypeOK
<1>a. ASSUME UNCHANGED objVars PROVE ServerView' = ServerView
  BY <1>a, Zenon DEF objVars, ServerView
<1>b. ASSUME NEW p \in Conn, Received(p, "CALL")
      PROVE  peer[p] = "CONNECTED"
  <2>1. c2s[p] \in Seq(ClientPacket) /\ c2s[p] # <<>> /\ Head(c2s[p]).type = "CALL"
    BY <1>0, <1>b, Zenon DEF Received, TypeOK, LinkTypeOK
  <2>2. 1 \in 1..Len(c2s[p]) /\ c2s[p][1].type = "CALL"
    BY <2>1, TailFacts
  <2> QED
    BY <2>1, <2>2, Zenon DEF Shaken, CallsFromConnectedPeers
<1>1. ASSUME NEW p \in Conn, Accept(p) \/ PeerError(p) \/ ConnectionRequest(p)
      PROVE  Delivery
  <2>1. ServerView' = ServerView
    BY <1>a, <1>1, Zenon DEF Accept, PeerError, ConnectionRequest
  <2>2. UNCHANGED <<conn, s2c, broken>>
    BY <1>1, Zenon DEF Accept, PeerError, ConnectionRequest
  <2>3. \A x \in Conn : peer'[x] = "CONNECTED" => peer[x] = "CONNECTED"
    BY <1>0, <1>1, Zenon DEF Accept, PeerError, ConnectionRequest, DestroyPeer
  <2> QED
    BY <2>1, <2>2, <2>3, QuietDelivery, Zenon
<1>2. ASSUME NEW p \in Conn, ConnectionRequestMismatch(p)
      PROVE  Delivery
  <2>1. ServerView' = ServerView /\ UNCHANGED <<conn, broken>>
    BY <1>a, <1>2, Zenon DEF ConnectionRequestMismatch
  <2>2. CASE DestroyPeer(p) /\ UNCHANGED s2c
    BY <1>0, <2>1, <2>2, QuietDelivery, Zenon DEF DestroyPeer
  <2>3. CASE /\ peer' = [peer EXCEPT ![p] = "REFUSED"]
             /\ s2c' = [s2c EXCEPT ![p] = Written(p, ConRespPacket(FALSE, ServerView))]
    <3>1. Unanswered(p)
      BY <1>2, Zenon DEF ConnectionRequestMismatch, Unanswered
    <3> QED
      BY <2>1, <2>3, <3>1, ResponseDelivery, Zenon
  <2> QED
    BY <1>2, <2>2, <2>3, Zenon DEF ConnectionRequestMismatch
<1>3. ASSUME NEW p \in Conn, CallUndecodable(p) \/ CallRequest(p)
      PROVE  Delivery
  <2>1. ServerView' = ServerView /\ UNCHANGED <<conn, peer, s2c, broken>>
    BY <1>a, <1>3, Zenon DEF CallUndecodable, CallRequest, serverVars, objVars
  <2> QED
    BY <2>1, QuietDelivery, Zenon
<1>4. ASSUME NEW p \in Conn, CallRejected(p)
      PROVE  Delivery
  <2> DEFINE call == Request(p)
  <2>1. call \in MethodCall /\ call.p = p /\ peer[p] = "CONNECTED"
    BY <1>0, <1>b, <1>4, RequestType, Zenon DEF CallRejected
  <2>2. PICK st \in AckStatus : Acknowledge(call, st)
    BY <1>4, Zenon DEF CallRejected, AckStatus
  <2>3. AckPacket(call.k, st, call.h, ServerView) \in ServerPacket
    BY <1>0, <2>1, PacketType, ViewType, Zenon DEF MethodCall, ServerView, TypeOK, ServerTypeOK
  <2>4. AckWritten(p, call.k, call.h, st)
    BY <1>0, <2>1, <2>2, Zenon DEF Acknowledge
  <2>5. ServerView' = ServerView /\ UNCHANGED <<conn, peer>>
    BY <1>a, <1>4, Zenon DEF CallRejected
  <2> HIDE DEF call
  <2> QED
    BY <2>1, <2>3, <2>4, <2>5, AckDelivery, Zenon
<1>5. CASE ConnectionResponse
  <2> DEFINE p == ctx.p
             accepted == peer[p] = "CONNECTING"
  <2>1. p \in Conn /\ Unanswered(p)
    BY <1>0, <1>5, Zenon DEF ConnectionResponse, CallbackPeers, Unanswered
  <2>2. ServerView' = ServerView /\ UNCHANGED <<conn, broken>>
    BY <1>a, <1>5, Zenon DEF ConnectionResponse
  <2>3. /\ peer' = [peer EXCEPT ![p] = IF accepted THEN "CONNECTED" ELSE "REFUSED"]
        /\ s2c' = [s2c EXCEPT ![p] = Written(p, ConRespPacket(accepted, ServerView))]
    BY <1>5, Zenon DEF ConnectionResponse
  <2>4. accepted \in BOOLEAN
    BY Zenon
  <2> HIDE DEF p, accepted
  <2> QED
    BY <2>1, <2>2, <2>3, <2>4, ResponseDelivery, Zenon
<1>6. CASE ConnectionResponseLost
  <2>1. ServerView' = ServerView /\ UNCHANGED <<conn, s2c, broken>> /\ DestroyPeer(ctx.p)
    BY <1>a, <1>6, Zenon DEF ConnectionResponseLost
  <2> QED
    BY <1>0, <2>1, QuietDelivery, Zenon DEF DestroyPeer
<1>7. CASE Terminate
  BY <1>7, QuietDelivery, Zenon DEF Terminate
<1>8. ASSUME ConnectedReturn, ~Terminate
      PROVE  Delivery
  <2>1. ServerView' = ServerView /\ UNCHANGED linkVars
    BY <1>a, <1>8, Zenon DEF ConnectedReturn
  <2> QED
    BY <2>1, QuietDelivery, Zenon DEF linkVars
<1>9. ASSUME MethodReturn, ~Terminate
      PROVE  Delivery
  <2>1. /\ ctx.at = "method" /\ ctx.p # None
        /\ ServerView' = ServerView /\ UNCHANGED <<conn, peer>>
    BY <1>a, <1>9, Zenon DEF MethodReturn
  <2>2. CASE srvcall # ctx
    BY <1>9, <2>1, <2>2, QuietDelivery, Zenon DEF MethodReturn
  <2>3. CASE srvcall = ctx
    <3>1. AckWritten(ctx.p, ctx.k, ctx.h, "REFUSED")
      BY <1>0, <1>9, <2>1, <2>3, ZenonT(40) DEF MethodReturn, Acknowledge
    <3>2. ctx \in MethodCall /\ ctx.p \in Conn /\ peer[ctx.p] = "CONNECTED"
      BY <1>0, <2>1, SMTT(30) DEF CallbackPeers, TypeOK, ServerTypeOK, Context, Loop, MethodCall
    <3>3. AckPacket(ctx.k, "REFUSED", ctx.h, ServerView) \in ServerPacket
      BY <1>0, <3>2, PacketType, ViewType, Zenon DEF MethodCall, AckStatus, ServerView, TypeOK, ServerTypeOK
    <3> QED
      BY <2>1, <3>1, <3>2, <3>3, AckDelivery, Zenon
  <2> QED
    BY <2>2, <2>3, Zenon
<1> QED
  BY <1>1, <1>2, <1>3, <1>4, <1>5, <1>6, <1>7, <1>8, <1>9, ZenonT(40) DEF ServerHandler

-----------------------------------------------------------------------------
(***************************************************************************)
(* The steps of a client: it reads a packet, and gets from what it has to  *)
(* what the server had when it wrote the packet.                           *)
(***************************************************************************)

\* The client reads a packet.
LEMMA FollowsReceive ==
    ASSUME Shaken, NEW c \in Client, NEW type, Receive(c, type), Follows(c),
           UNCHANGED serverVars,
           LET m == Head(Incoming(c))
           IN  IF type = "CONRESP" /\ ~m.accepted
               THEN cstate[c] = "CONNECTING" => replica'[c] = replica[c]
               ELSE replica'[c] = Apply(replica[c], m)
    PROVE  Follows(c)'
<1> DEFINE p == conn[c]
           q == s2c[p]
           r == s2c'[p]
<1>0. /\ p \in Conn /\ q \in Seq(ServerPacket) /\ q # <<>> /\ r = Tail(q) /\ p # None
      /\ Head(q).type = type /\ UNCHANGED <<conn, peer, broken>> /\ ServerView' = ServerView
  BY Zenon DEF Shaken, TypeInv, TypeOK, LinkTypeOK, Receive, Incoming, serverVars, ServerView
<1>1. /\ q[1] = Head(q)
      /\ Len(q) \in Nat \ {0} /\ Len(r) = Len(q) - 1
      /\ \A i \in 1..(Len(q) - 1) : r[i] = q[i + 1]
      /\ r = <<>> <=> Len(r) = 0
  <2> HIDE DEF p, q, r
  <2> QED
    BY <1>0, TailFacts, EmptyFacts, Zenon
<1>2. AnswersTo(c)
  BY <1>0, Zenon DEF Shaken, Answers
<1>3. \A i \in 1..(Len(r) - 1) : Leads(r[i].after, r[i + 1])
  <2> SUFFICES ASSUME NEW i \in 1..(Len(r) - 1) PROVE Leads(r[i].after, r[i + 1])
    BY Zenon
  <2>1. i + 1 \in 1..(Len(q) - 1) /\ r[i] = q[i + 1] /\ r[i + 1] = q[(i + 1) + 1]
    BY <1>1, SMTT(30)
  <2> QED
    BY <2>1, Zenon DEF Follows
<1>4. CASE type = "CONRESP" /\ ~q[1].accepted
  <2>a. 1 \in 1..Len(q)
    BY <1>1
  <2>b. q[1].type = "CONRESP" /\ q # <<>>
    BY <1>0, <1>1, <1>4, Zenon
  <2>c. cstate[c] = "CONNECTING"
    BY <1>2, <2>a, <2>b, Zenon DEF AnswersTo
  <2>d. peer[p] \in {"REFUSED", "closed"} /\ Len(q) = 1
    BY <1>2, <1>4, <2>b, <2>c, Zenon DEF AnswersTo
  <2>1. cstate[c] = "CONNECTING" /\ Len(q) = 1 /\ peer[p] # "CONNECTED"
    BY <2>c, <2>d, Zenon
  <2>2. r = <<>>
    BY <1>1, <2>1, SMTT(30)
  <2>3. p' = p /\ peer'[p] # "CONNECTED"
    BY <1>0, <2>1, Zenon
  <2> HIDE DEF r
  <2> QED
    BY <1>3, <2>2, <2>3, Zenon DEF Follows, r
<1>5. CASE ~(type = "CONRESP" /\ ~q[1].accepted)
  <2>1. Leads(replica[c], q[1])
    BY <1>0, <1>1, <1>5, Zenon DEF Follows
  <2>2. replica'[c] = q[1].after
    BY <1>1, <1>5, <2>1, Zenon DEF Leads, Incoming
  <2>3. r # <<>> => Leads(replica'[c], r[1])
    <3>1. r # <<>> => 1 \in 1..(Len(q) - 1) /\ r[1] = q[1 + 1]
      BY <1>1, SMTT(30)
    <3> QED
      BY <2>2, <3>1, Zenon DEF Follows
  <2>4. r # <<>> => r[Len(r)] = q[Len(q)]
    BY <1>1, SMTT(30)
  <2>5. r = <<>> => Len(q) = 1
    BY <1>1
  <2>6. peer'[p] = "CONNECTED" /\ p \notin broken' =>
          ServerView' = IF r = <<>> THEN replica'[c] ELSE r[Len(r)].after
    BY <1>0, <2>2, <2>4, <2>5, Zenon DEF Follows
  <2>7. p' = p
    BY <1>0, Zenon
  <2> HIDE DEF r
  <2> QED
    BY <1>3, <2>3, <2>6, <2>7, Zenon DEF Follows, r
<1> QED
  BY <1>4, <1>5, Zenon

\* The removals on their way are those that are left, seen from one packet on.
LEMMA AnnouncedReceive ==
    ASSUME Shaken, NEW c \in Client, NEW type, Receive(c, type), AnnouncedTo(c),
           UNCHANGED serverVars, replica'[c] = Head(Incoming(c)).after
    PROVE  AnnouncedTo(c)'
<1> DEFINE q == Incoming(c)
           r == Incoming(c)'
<1>0. /\ q \in Seq(ServerPacket) /\ q # <<>> /\ r = Tail(q) /\ ServerView' = ServerView
  BY Zenon DEF Shaken, TypeInv, TypeOK, LinkTypeOK, Receive, Incoming, serverVars, ServerView
<1>1. /\ q[1] = Head(q)
      /\ Len(q) \in Nat \ {0} /\ Len(r) = Len(q) - 1
      /\ \A i \in 1..(Len(q) - 1) : r[i] = q[i + 1]
  <2> HIDE DEF q, r
  <2> QED
    BY <1>0, TailFacts, Zenon
<1> SUFFICES ASSUME NEW i \in 0..Len(r), NEW h \in Handle, Seen(c, i)'[h] # None,
                    ServerView'[h] = None
             PROVE  \E j \in (i + 1)..Len(r) : Removes(r[j], h)
  BY Zenon DEF AnnouncedTo
<1>2. i + 1 \in 0..Len(q)
  BY <1>1, SMTT(30)
<1>3. Seen(c, i)' = Seen(c, i + 1)
  <2>1. Seen(c, i)' = IF i = 0 THEN q[1].after ELSE r[i].after
    BY <1>1, Zenon DEF Seen
  <2>2. Seen(c, i + 1) = q[i + 1].after
    BY SMTT(30) DEF Seen
  <2> QED
    BY <1>1, <2>1, <2>2, SMTT(30)
<1>4. PICK j \in ((i + 1) + 1)..Len(q) : Removes(q[j], h)
  BY <1>0, <1>2, <1>3, ZenonT(40) DEF AnnouncedTo
<1>5. j - 1 \in (i + 1)..Len(r) /\ r[j - 1] = q[j]
  BY <1>1, <1>4, SMTT(30)
<1> QED
  BY <1>4, <1>5, Zenon

-----------------------------------------------------------------------------
(***************************************************************************)
(* The steps of a client.                                                  *)
(***************************************************************************)

\* A connection response is only read by a client that waits for it.
LEMMA ResponseAwaited ==
    ASSUME Shaken, NEW c \in Client, Receive(c, "CONRESP")
    PROVE  cstate[c] = "CONNECTING"
<1>1. /\ conn[c] # None /\ s2c[conn[c]] \in Seq(ServerPacket) /\ s2c[conn[c]] # <<>>
      /\ Head(s2c[conn[c]]).type = "CONRESP"
  <2>1. TypeOK
    BY Zenon DEF Shaken, TypeInv
  <2> QED
    BY <2>1, Zenon DEF TypeOK, LinkTypeOK, Receive, Incoming
<1>2. 1 \in 1..Len(s2c[conn[c]]) /\ s2c[conn[c]][1].type = "CONRESP"
  BY <1>1, TailFacts
<1> QED
  BY <1>1, <1>2, Zenon DEF Shaken, Answers, AnswersTo

\* A client reads what the server had: its replica changes to the view that
\* the packet records.
LEMMA ReceiveReplica ==
    ASSUME Shaken, Replication, NEW c \in Client, NEW type, Receive(c, type),
           type = "CONRESP" => Head(Incoming(c)).accepted,
           replica'[c] = Apply(replica[c], Head(Incoming(c)))
    PROVE  replica'[c] = Head(Incoming(c)).after
<1>1. /\ conn[c] # None /\ s2c[conn[c]] \in Seq(ServerPacket) /\ s2c[conn[c]] # <<>>
      /\ Head(s2c[conn[c]]).type = type
  BY Zenon DEF Shaken, TypeInv, TypeOK, LinkTypeOK, Receive, Incoming
<1>2. Head(s2c[conn[c]]) = s2c[conn[c]][1] /\ Follows(c)
  BY <1>1, TailFacts, Zenon DEF Replication
<1> QED
  BY <1>1, <1>2, Zenon DEF Follows, Leads, Incoming

\* What a step of a client does to client d: it closes or opens its connection,
\* does nothing to it, or reads a packet from it.
Reads(d) ==
    \/ conn'[d] = None
    \/ peer'[conn'[d]] = "backlog" /\ s2c'[conn'[d]] = <<>>
    \/ /\ conn'[d] = conn[d]
       /\ s2c'[conn[d]] = s2c[conn[d]]
       /\ replica'[d] = replica[d]
       /\ peer'[conn[d]] = peer[conn[d]]
       /\ conn[d] \in broken' <=> conn[d] \in broken
    \/ \E type \in {"CONRESP", "ADD", "EVENT", "REMOVE", "BUS_EVENT", "ACK"} :
          /\ Receive(d, type)
          /\ IF type = "CONRESP" /\ ~Head(Incoming(d)).accepted
             THEN replica'[d] = replica[d]
             ELSE replica'[d] = Apply(replica[d], Head(Incoming(d)))

Reading == \A d \in Client : Reads(d)

LEMMA ReadingFollows ==
    ASSUME Shaken, Replication, Reading, UNCHANGED serverVars
    PROVE  Replication'
<1> SUFFICES ASSUME NEW d \in Client, conn'[d] # None PROVE Follows(d)'
  BY Zenon DEF Replication
<1>1. Reads(d) /\ ServerView' = ServerView
  BY Zenon DEF Reading, ServerView, serverVars
<1>2. CASE peer'[conn'[d]] = "backlog" /\ s2c'[conn'[d]] = <<>>
  <2>1. \A i \in 1..(Len(s2c'[conn'[d]]) - 1) : FALSE
    BY <1>2, SMTT(30)
  <2> QED
    BY <1>2, <2>1, Zenon DEF Follows
<1>3. CASE /\ conn'[d] = conn[d]
           /\ s2c'[conn[d]] = s2c[conn[d]]
           /\ replica'[d] = replica[d]
           /\ peer'[conn[d]] = peer[conn[d]]
           /\ conn[d] \in broken' <=> conn[d] \in broken
  BY <1>1, <1>3, FollowsSame, Zenon DEF Replication
<1>4. ASSUME NEW type, Receive(d, type),
             IF type = "CONRESP" /\ ~Head(Incoming(d)).accepted
             THEN replica'[d] = replica[d]
             ELSE replica'[d] = Apply(replica[d], Head(Incoming(d)))
      PROVE  Follows(d)'
  <2>1. Follows(d)
    BY <1>4, Zenon DEF Receive, Replication
  <2> QED
    BY <1>4, <2>1, FollowsReceive, Zenon
<1> QED
  BY <1>1, <1>2, <1>3, <1>4, Zenon DEF Reads

LEMMA ReadingAnnounced ==
    ASSUME Shaken, Replication, Announced, Reading, UNCHANGED serverVars
    PROVE  Announced'
<1> SUFFICES ASSUME NEW d \in Client, conn'[d] # None, peer'[conn'[d]] = "CONNECTED",
                    conn'[d] \notin broken'
             PROVE  AnnouncedTo(d)'
  BY Zenon DEF Announced
<1>1. Reads(d) /\ ServerView' = ServerView
  BY Zenon DEF Reading, ServerView, serverVars
<1>2. CASE /\ conn'[d] = conn[d]
           /\ s2c'[conn[d]] = s2c[conn[d]]
           /\ replica'[d] = replica[d]
           /\ peer'[conn[d]] = peer[conn[d]]
           /\ conn[d] \in broken' <=> conn[d] \in broken
  BY <1>1, <1>2, AnnouncedSame, Zenon DEF Announced
<1>3. ASSUME NEW type, Receive(d, type),
             IF type = "CONRESP" /\ ~Head(Incoming(d)).accepted
             THEN replica'[d] = replica[d]
             ELSE replica'[d] = Apply(replica[d], Head(Incoming(d)))
      PROVE  AnnouncedTo(d)'
  <2>1. UNCHANGED <<conn, peer, broken>> /\ AnnouncedTo(d)
    BY <1>3, Zenon DEF Receive, Announced
  <2>2. CASE type = "CONRESP" /\ ~Head(Incoming(d)).accepted
    <3>1. /\ cstate[d] = "CONNECTING" /\ conn[d] # None
          /\ s2c[conn[d]] \in Seq(ServerPacket) /\ s2c[conn[d]] # <<>>
      BY <1>3, <2>2, ResponseAwaited, Zenon DEF Shaken, TypeInv, TypeOK, LinkTypeOK, Receive, Incoming
    <3>2. Head(s2c[conn[d]]) = s2c[conn[d]][1]
      BY <3>1, TailFacts, Zenon
    <3> QED
      BY <2>1, <2>2, <3>1, <3>2, ZenonT(40) DEF Shaken, Answers, AnswersTo, Incoming
  <2>3. CASE ~(type = "CONRESP" /\ ~Head(Incoming(d)).accepted)
    <3>1. replica'[d] = Head(Incoming(d)).after
      BY <1>3, <2>3, ReceiveReplica, Zenon
    <3> QED
      BY <1>3, <2>1, <3>1, AnnouncedReceive, Zenon
  <2> QED
    BY <2>2, <2>3, Zenon
<1> QED
  BY <1>1, <1>2, <1>3, Zenon DEF Reads

\* One client reads a packet, the others are left alone.
LEMMA ReceiveReading ==
    ASSUME Shaken, NEW c \in Client,
           NEW type \in {"CONRESP", "ADD", "EVENT", "REMOVE", "BUS_EVENT", "ACK"}, Receive(c, type),
           \A d \in Client : d # c => replica'[d] = replica[d],
           IF type = "CONRESP" /\ ~Head(Incoming(c)).accepted
           THEN replica'[c] = replica[c]
           ELSE replica'[c] = Apply(replica[c], Head(Incoming(c)))
    PROVE  Reading
<1>0. /\ UNCHANGED <<conn, peer, broken>> /\ s2c' = [s2c EXCEPT ![conn[c]] = Tail(@)]
      /\ conn \in [Client -> Conn \cup {None}] /\ s2c \in [Conn -> Seq(ServerPacket)]
  BY Zenon DEF Receive, Shaken, TypeInv, TypeOK, LinkTypeOK
<1> SUFFICES ASSUME NEW d \in Client, conn[d] # None PROVE Reads(d)
  BY <1>0, Zenon DEF Reading, Reads
<1>1. CASE d = c
  BY <1>1, Zenon DEF Reads
<1>2. CASE d # c
  <2>1. conn[d] \in Conn /\ conn[d] # conn[c]
    BY <1>0, <1>2, Zenon DEF Shaken, Links
  <2>2. s2c'[conn[d]] = s2c[conn[d]]
    BY <1>0, <2>1, Zenon
  <2> QED
    BY <1>0, <1>2, <2>2, Zenon DEF Reads
<1> QED
  BY <1>1, <1>2, Zenon

\* One client closes its end.
LEMMA CloseReading ==
    ASSUME Shaken, NEW c \in Client, CloseSocket(c),
           \A d \in Client : d # c => replica'[d] = replica[d]
    PROVE  Reading
<1>0. /\ UNCHANGED <<peer, broken>> /\ conn' = [conn EXCEPT ![c] = None]
      /\ conn \in [Client -> Conn \cup {None}] /\ s2c \in [Conn -> Seq(ServerPacket)]
  BY Zenon DEF CloseSocket, Shaken, TypeInv, TypeOK, LinkTypeOK
<1> SUFFICES ASSUME NEW d \in Client, conn'[d] # None PROVE Reads(d)
  BY Zenon DEF Reading, Reads
<1>1. d # c /\ conn'[d] = conn[d] /\ conn[d] \in Conn /\ conn[d] # conn[c]
  BY <1>0, SMTT(30) DEF Shaken, Links
<1>2. s2c'[conn[d]] = s2c[conn[d]]
  BY <1>0, <1>1, Zenon DEF CloseSocket
<1> QED
  BY <1>0, <1>1, <1>2, Zenon DEF Reads

\* No client reads anything.
LEMMA QuietReading ==
    ASSUME UNCHANGED <<conn, peer, s2c, broken, replica>>
    PROVE  Reading
BY Zenon DEF Reading, Reads

\* obus_client_remove_object never gets a null object.
LEMMA RemovedObjectKnown ==
    ASSUME Shaken, Replication, NEW c \in Client
    PROVE  ~RemoveUnknownObject(c)
<1> SUFFICES ASSUME RemoveUnknownObject(c) PROVE FALSE
  BY Zenon
<1>1. /\ conn[c] # None /\ s2c[conn[c]] \in Seq(ServerPacket) /\ s2c[conn[c]] # <<>>
      /\ Head(s2c[conn[c]]).type = "REMOVE"
      /\ replica[c][Head(s2c[conn[c]]).h] = None
  <2>1. TypeOK
    BY Zenon DEF Shaken, TypeInv
  <2> QED
    BY <2>1, Zenon DEF TypeOK, LinkTypeOK, RemoveUnknownObject, Incoming
<1>2. Head(s2c[conn[c]]) = s2c[conn[c]][1] /\ Follows(c)
  BY <1>1, TailFacts, Zenon DEF Replication
<1> QED
  BY <1>1, <1>2, Zenon DEF Follows, Leads

\* What a step of a client does to the replicas.
LEMMA ClientReplica ==
    ASSUME Shaken, Replication, NEW c \in Client, ClientNext(c, up), UNCHANGED serverVars
    PROVE  /\ Reading
           /\ cstate'[c] # "crashed" \/ cstate'[c] = cstate[c]
           /\ \A d \in Client : d # c => replica'[d] = replica[d] /\ cstate'[d] = cstate[d]
           /\ replica'[c] # replica[c] =>
                \/ replica'[c] = EmptyView /\ conn'[c] = None
                \/ Incoming(c) # <<>> /\ replica'[c] = Head(Incoming(c)).after
<1> DEFINE Goal == /\ Reading
                   /\ cstate'[c] # "crashed" \/ cstate'[c] = cstate[c]
                   /\ \A d \in Client : d # c => replica'[d] = replica[d] /\ cstate'[d] = cstate[d]
                   /\ replica'[c] # replica[c] =>
                        \/ replica'[c] = EmptyView /\ conn'[c] = None
                        \/ Incoming(c) # <<>> /\ replica'[c] = Head(Incoming(c)).after
<1> SUFFICES Goal
  BY Zenon
<1>0. /\ replica \in [Client -> View] /\ cstate \in [Client -> ClientState]
      /\ conn \in [Client -> Conn \cup {None}] /\ peer \in [Conn -> PeerState]
      /\ ServerView' = ServerView
  BY Zenon DEF Shaken, TypeInv, TypeOK, ClientTypeOK, LinkTypeOK, ServerView, serverVars
<1>1. CASE ClientNew(c) \/ ClientStart(c)
  <2>1. UNCHANGED <<conn, peer, broken, s2c, replica>>
    BY <1>1, Zenon DEF ClientNew, ClientStart, linkVars
  <2>2. cstate'[c] # "crashed" /\ \A d \in Client : d # c => cstate'[d] = cstate[d]
    BY <1>0, <1>1, Zenon DEF ClientNew, ClientStart
  <2> QED
    BY <1>0, <2>1, <2>2, QuietReading, Zenon
<1>2. ASSUME NEW p \in Conn, SocketConnected(c, p, up)
      PROVE  Goal
  <2>1. UNCHANGED <<s2c, cstate, replica>>
    BY <1>2, Zenon DEF SocketConnected, clientVars
  <2>2. Reading
    <3> SUFFICES ASSUME NEW d \in Client, conn'[d] # None PROVE Reads(d)
      BY Zenon DEF Reading, Reads
    <3>0. /\ peer[p] = "closed" /\ (\A e \in Client : conn[e] # p) /\ s2c[p] = <<>>
          /\ peer' = [peer EXCEPT ![p] = "backlog"] /\ broken' = broken \ {p}
          /\ conn' = [conn EXCEPT ![c] = p] \/ conn' = conn
      BY <1>2, Zenon DEF SocketConnected, Unused, Open, Shaken, Links
    <3>1. CASE conn'[d] = conn[d]
      <4>1. conn[d] \in Conn /\ conn[d] # p
        BY <1>0, <3>0, <3>1, Zenon
      <4>2. peer'[conn[d]] = peer[conn[d]] /\ (conn[d] \in broken' <=> conn[d] \in broken)
        BY <1>0, <3>0, <4>1, Zenon
      <4> QED
        BY <2>1, <3>1, <4>2, Zenon DEF Reads
    <3>2. CASE conn'[d] # conn[d]
      <4>1. conn'[d] = p /\ peer'[p] = "backlog" /\ s2c'[p] = <<>>
        BY <1>0, <2>1, <3>0, <3>2, Zenon
      <4> QED
        BY <4>1, Zenon DEF Reads
    <3> QED
      BY <3>1, <3>2, Zenon
  <2> QED
    BY <2>1, <2>2, Zenon
<1>3. CASE ClientError(c)
  <2>1. /\ \A d \in Client : d # c => replica'[d] = replica[d] /\ cstate'[d] = cstate[d]
        /\ cstate'[c] = "CONNECTING"
        /\ replica'[c] = EmptyView \/ replica'[c] = replica[c]
        /\ conn'[c] = None
    BY <1>0, <1>3, Zenon DEF ClientError, DisconnectBus, CloseSocket
  <2> QED
    BY <1>3, <2>1, CloseReading, Zenon DEF ClientError
<1>4. CASE ClientDestroy(c)
  <2>1. /\ \A d \in Client : d # c => replica'[d] = replica[d] /\ cstate'[d] = cstate[d]
        /\ cstate'[c] = "none" /\ replica'[c] = EmptyView /\ conn'[c] = None
    BY <1>0, <1>4, Zenon DEF ClientDestroy, CloseSocket
  <2> QED
    BY <1>4, <2>1, CloseReading, Zenon DEF ClientDestroy
<1>5. CASE ConnectionResponseHandler(c)
  <2> DEFINE m == Head(Incoming(c))
  <2>1. Receive(c, "CONRESP") /\ cstate[c] = "CONNECTING" /\ Incoming(c) # <<>>
    BY <1>5, ResponseAwaited, Zenon DEF ConnectionResponseHandler, Receive
  <2>2. /\ \A d \in Client : d # c => replica'[d] = replica[d] /\ cstate'[d] = cstate[d]
        /\ cstate'[c] # "crashed"
        /\ m.accepted => replica'[c] = Apply(replica[c], m)
        /\ ~m.accepted => replica'[c] = replica[c]
    BY <1>0, <1>5, <2>1, Zenon DEF ConnectionResponseHandler
  <2>3. Reading
    BY <2>1, <2>2, ReceiveReading, Zenon
  <2>4. m.accepted => replica'[c] = m.after
    BY <2>1, <2>2, ReceiveReplica, Zenon
  <2> HIDE DEF m
  <2> QED
    BY <2>1, <2>2, <2>3, <2>4, Zenon DEF m
<1>6. ASSUME \/ AddObject(c) \/ ObjectEvent(c) \/ RemoveObject(c) \/ BusEvent(c) \/ CallAck(c)
             \/ \E k \in CallHandle, h \in Handle : RemoveCallback(c, k, h)
      PROVE  Goal
  <2> DEFINE m == Head(Incoming(c))
  <2>1. UNCHANGED cstate /\ \A d \in Client : d # c => replica'[d] = replica[d]
    BY <1>0, <1>6, Zenon DEF AddObject, ObjectEvent, RemoveObject, BusEvent, CallAck, RemoveCallback
  <2>2. PICK type \in {"ADD", "EVENT", "REMOVE", "BUS_EVENT", "ACK"} : Receive(c, type)
    BY <1>6, Zenon DEF AddObject, ObjectEvent, RemoveObject, BusEvent, CallAck, RemoveCallback
  <2>3. replica'[c] = Apply(replica[c], m)
    <3>1. CASE CallAck(c)
      <4>1. m.type = "ACK" /\ replica' = replica
        BY <3>1, Zenon DEF CallAck, Receive
      <4> QED
        BY <4>1, Zenon DEF Apply
    <3>2. CASE ~CallAck(c)
      BY <1>0, <1>6, <3>2, Zenon DEF AddObject, ObjectEvent, RemoveObject, BusEvent, RemoveCallback
    <3> QED
      BY <3>1, <3>2, Zenon
  <2>4. Reading /\ replica'[c] = m.after
    BY <2>1, <2>2, <2>3, ReceiveReplica, ReceiveReading, Zenon
  <2>5. Incoming(c) # <<>>
    BY <2>2, Zenon DEF Receive
  <2> QED
    BY <2>1, <2>4, <2>5, Zenon
<1>7. ASSUME NEW k \in CallHandle, NEW h \in Handle, ClientCall(c, k, h)
      PROVE  Goal
  <2>1. UNCHANGED <<conn, peer, s2c, broken, cstate, replica>>
    BY <1>7, Zenon DEF ClientCall
  <2> QED
    BY <1>0, <2>1, QuietReading, Zenon
<1>8. ~RemoveUnknownObject(c)
  BY RemovedObjectKnown, Zenon
<1> HIDE DEF Goal
<1> QED
  BY <1>1, <1>2, <1>3, <1>4, <1>5, <1>6, <1>7, <1>8, Zenon DEF ClientNext, ClientPackets

=============================================================================
