-------------------------- MODULE ObusBusTheorems ---------------------------
(***************************************************************************)
(* The theorems about ObusBus, for all values of the constants: the server *)
(* counts its connected peers right, the two ends agree on the handshake,  *)
(* the replicas follow the server, and calls are answered.                 *)
(***************************************************************************)
EXTENDS ObusBusLemmas, FiniteSetTheorems

-----------------------------------------------------------------------------
(***************************************************************************)
(* What a step does to the connected peers and to their count.             *)
(***************************************************************************)

PeersStep ==
    \/ Connected' = Connected /\ npeers' = npeers
    \/ Connected' = {} /\ npeers' = 0
    \/ \E p \in Conn :
          /\ Connected' = Connected \ {p}
          /\ npeers' = IF p \in Connected THEN npeers - 1 ELSE npeers
    \/ \E lost \in SUBSET Connected :
          /\ Connected' = Connected \ lost
          /\ npeers' = npeers - Cardinality(lost)
    \/ \E p \in Conn \ Connected :
          /\ Connected' = Connected \cup {p}
          /\ npeers' = npeers + 1

LEMMA SamePeers ==
    ASSUME UNCHANGED npeers, \A p \in Conn : peer'[p] = "CONNECTED" <=> peer[p] = "CONNECTED"
    PROVE  PeersStep
BY Zenon DEF PeersStep, Connected

LEMMA DestroyPeerStep ==
    ASSUME TypeOK, NEW p \in Conn, DestroyPeer(p)
    PROVE  PeersStep
<1>1. Connected' = Connected \ {p}
  BY Zenon DEF DestroyPeer, Connected, TypeOK, LinkTypeOK
<1>2. npeers' = IF p \in Connected THEN npeers - 1 ELSE npeers
  BY Zenon DEF DestroyPeer, Connected
<1> QED
  BY <1>1, <1>2, Zenon DEF PeersStep

LEMMA SendPeersStep ==
    ASSUME NEW m, NEW lost \in SUBSET Connected, SendPeers(m, lost)
    PROVE  PeersStep
<1>1. CASE npeers = 0
  BY <1>1, SamePeers, Zenon DEF SendPeers
<1>2. CASE npeers # 0
  <2>1. Connected' = Connected \ lost /\ npeers' = npeers - Cardinality(lost)
    BY <1>2, Zenon DEF SendPeers, Connected
  <2> QED
    BY <2>1, Zenon DEF PeersStep
<1> QED
  BY <1>1, <1>2, Zenon

LEMMA TerminatePeersStep ==
    ASSUME Terminate
    PROVE  PeersStep
BY Zenon DEF Terminate, PeersStep, Connected

LEMMA ServerPeersStep ==
    ASSUME TypeInv, ServerNext
    PROVE  PeersStep
<1>0. peer \in [Conn -> PeerState] /\ TypeOK
  BY Zenon DEF TypeInv, TypeOK, LinkTypeOK
<1>1. ASSUME NEW h \in Handle, NEW v \in Value, NewObject(h, v)
      PROVE  PeersStep
  BY <1>1, SamePeers, Zenon DEF NewObject, linkVars
<1>2. ASSUME NEW h \in Handle, DestroyObject(h) \/ RegisterObjectOom(h) \/ UnregisterObjectOom(h)
      PROVE  PeersStep
  BY <1>2, SamePeers, Zenon DEF DestroyObject, RegisterObjectOom, UnregisterObjectOom, linkVars
<1>3. ASSUME NEW lost \in SUBSET Connected, NEW h \in Handle,
             \/ RegisterObject(h, lost)
             \/ UnregisterObject(h, lost)
             \/ \E v \in Value : SendEvent(h, v, lost)
      PROVE  PeersStep
  BY <1>3, SendPeersStep, Zenon DEF RegisterObject, UnregisterObject, SendEvent
<1>4. ASSUME NEW lost \in SUBSET Connected, NEW add \in SUBSET Handle, NEW rem \in SUBSET Handle,
             NEW ev \in View, SendBusEvent(add, rem, ev, lost)
      PROVE  PeersStep
  BY <1>4, SendPeersStep, Zenon DEF SendBusEvent
<1>5. CASE RefuseConnection
  <2>1. ctx.p \in Conn
    BY <1>5, Zenon DEF RefuseConnection, TypeInv, ConnectingPeer
  <2> QED
    BY <1>0, <1>5, <2>1, SamePeers, Zenon DEF RefuseConnection, serverVars
<1>6. CASE SendAck
  BY <1>6, SamePeers, TerminatePeersStep, Zenon DEF SendAck
<1>7. CASE SendAckLate
  BY <1>7, SamePeers, TerminatePeersStep, Zenon DEF SendAckLate
<1>8. ASSUME NEW p \in Conn, Accept(p)
      PROVE  PeersStep
  BY <1>0, <1>8, SamePeers, DestroyPeerStep DEF Accept
<1>9. ASSUME NEW p \in Conn, PeerError(p)
      PROVE  PeersStep
  BY <1>0, <1>9, DestroyPeerStep, Zenon DEF PeerError
<1>10. ASSUME NEW p \in Conn, ConnectionRequest(p)
       PROVE  PeersStep
  BY <1>0, <1>10, SamePeers DEF ConnectionRequest
<1>11. ASSUME NEW p \in Conn, ConnectionRequestMismatch(p)
       PROVE  PeersStep
  BY <1>0, <1>11, SamePeers, DestroyPeerStep, ZenonT(30) DEF ConnectionRequestMismatch
<1>12. ASSUME NEW p \in Conn, CallUndecodable(p) \/ CallRejected(p) \/ CallRequest(p)
       PROVE  PeersStep
  BY <1>12, SamePeers DEF CallUndecodable, CallRejected, CallRequest, serverVars
<1>13. CASE ConnectionResponse
  <2>1. ctx.p \in Conn /\ peer[ctx.p] \in {"CONNECTING", "REFUSED"}
    BY <1>13, Zenon DEF ConnectionResponse, TypeInv, ConnectingPeer
  <2>2. CASE peer[ctx.p] = "CONNECTING"
    <3>1. ctx.p \in Conn \ Connected
      BY <2>1, Zenon DEF Connected
    <3>2. Connected' = Connected \cup {ctx.p} /\ npeers' = npeers + 1
      BY <1>0, <1>13, <2>1, <2>2, SMTT(30) DEF ConnectionResponse, Connected
    <3> QED
      BY <3>1, <3>2, Zenon DEF PeersStep
  <2>3. CASE peer[ctx.p] # "CONNECTING"
    BY <1>0, <1>13, <2>1, <2>3, SamePeers, Zenon DEF ConnectionResponse
  <2> QED
    BY <2>2, <2>3
<1>14. CASE ConnectionResponseLost
  <2>1. ctx.p \in Conn /\ DestroyPeer(ctx.p)
    BY <1>14, Zenon DEF ConnectionResponseLost, TypeInv, ConnectingPeer
  <2> QED
    BY <1>0, <2>1, DestroyPeerStep, SMTT(30)
<1>15. CASE ConnectedReturn \/ MethodReturn
  BY <1>15, SamePeers, TerminatePeersStep, Zenon DEF ConnectedReturn, MethodReturn, linkVars
<1>16. CASE ServerStart \/ ServerStop
  BY <1>16, SamePeers, TerminatePeersStep, SMTT(30) DEF ServerStart, ServerStop, linkVars
<1>17. CASE ServerApi
  BY <1>1, <1>2, <1>3, <1>4, <1>5, <1>6, <1>7, <1>17, SMTT(30) DEF ServerApi
<1>18. CASE ServerHandler
  BY <1>8, <1>9, <1>10, <1>11, <1>12, <1>13, <1>14, <1>15, <1>18, SMTT(30) DEF ServerHandler
<1> QED
  BY <1>16, <1>17, <1>18 DEF ServerNext

LEMMA PeersStepAlways ==
    ASSUME TypeInv, [Next]_vars
    PROVE  PeersStep
<1>1. CASE UNCHANGED vars
  BY <1>1, SamePeers, Zenon DEF vars, linkVars, serverVars
<1>2. ASSUME NEW c \in Client, ClientNext(c, up), UNCHANGED serverVars
      PROVE  PeersStep
  <2>1. peer' = peer \/ \E p \in Conn : peer[p] = "closed" /\ peer' = [peer EXCEPT ![p] = "backlog"]
    BY <1>2, ZenonT(30) DEF ClientNext, ClientPackets, ClientNew, ClientStart, SocketConnected, Unused, ClientError,
                ClientDestroy, ClientCall, CloseSocket, ConnectionResponseHandler, AddObject, ObjectEvent,
                RemoveObject, RemoveCallback, RemoveUnknownObject, BusEvent, CallAck, Receive, linkVars
  <2>2. \A p \in Conn : peer'[p] = "CONNECTED" <=> peer[p] = "CONNECTED"
    BY <2>1, Zenon DEF TypeInv, TypeOK, LinkTypeOK
  <2> QED
    BY <1>2, <2>2, SamePeers, ZenonT(30) DEF serverVars
<1> QED
  BY <1>1, <1>2, ServerPeersStep, Zenon DEF Next

-----------------------------------------------------------------------------
(***************************************************************************)
(* The count of the peers, and the types.                                  *)
(***************************************************************************)

\* The connected peers are finitely many, so that npeers is a number that is
\* zero only when there are none.
LEMMA ConnectedFinite ==
    /\ IsFiniteSet(Connected)
    /\ Cardinality(Connected) \in Nat
    /\ Cardinality(Connected) = 0 <=> Connected = {}
<1>1. IsFiniteSet(Connected)
  BY LinkAssumption, FS_Subset, Zenon DEF LinkAssumption, Connected
<1> QED
  BY <1>1, FS_CardinalityType, FS_EmptySet, Zenon

LEMMA PeerCountStep ==
    ASSUME PeerCount, PeersStep
    PROVE  PeerCount'
<1>1. CASE Connected' = Connected /\ npeers' = npeers
  BY <1>1, Zenon DEF PeerCount
<1>2. CASE Connected' = {} /\ npeers' = 0
  BY <1>2, FS_EmptySet, Zenon DEF PeerCount
<1>3. ASSUME NEW p \in Conn, Connected' = Connected \ {p},
             npeers' = IF p \in Connected THEN npeers - 1 ELSE npeers
      PROVE  PeerCount'
  <2>1. Cardinality(Connected') = IF p \in Connected THEN Cardinality(Connected) - 1
                                                     ELSE Cardinality(Connected)
    BY <1>3, ConnectedFinite, FS_RemoveElement, Zenon
  <2> QED
    BY <1>3, <2>1, Zenon DEF PeerCount
<1>4. ASSUME NEW lost \in SUBSET Connected, Connected' = Connected \ lost,
             npeers' = npeers - Cardinality(lost)
      PROVE  PeerCount'
  <2>1. Connected \cap lost = lost
    BY Zenon
  <2>2. Cardinality(Connected') = Cardinality(Connected) - Cardinality(lost)
    BY <1>4, <2>1, ConnectedFinite, FS_Difference, Zenon
  <2> QED
    BY <1>4, <2>2, Zenon DEF PeerCount
<1>5. ASSUME NEW p \in Conn \ Connected, Connected' = Connected \cup {p}, npeers' = npeers + 1
      PROVE  PeerCount'
  <2>1. Cardinality(Connected') = Cardinality(Connected) + 1
    BY <1>5, ConnectedFinite, FS_AddElement, Zenon
  <2> QED
    BY <1>5, <2>1, Zenon DEF PeerCount
<1> QED
  BY <1>1, <1>2, <1>3, <1>4, <1>5, Zenon DEF PeersStep

LEMMA TypesInit == Init => TypeInv /\ PeerCount
<1>1. Init => Connected = {} /\ npeers = 0
  BY Zenon DEF Init, LinkInit, ServerInit, Connected
<1> QED
  BY <1>1, TypeInit, FS_EmptySet, Zenon DEF PeerCount

LEMMA TypesStep == TypeInv /\ PeerCount /\ [Next]_vars => TypeInv' /\ PeerCount'
<1> SUFFICES ASSUME TypeInv, PeerCount, [Next]_vars PROVE TypeInv' /\ PeerCount'
  BY Zenon
<1>1. PeerCount'
  BY PeersStepAlways, PeerCountStep, Zenon
<1>2. npeers' \in Nat /\ Counted'
  <2>1. IsFiniteSet(Connected')
    BY LinkAssumption, FS_Subset, Zenon DEF LinkAssumption, Connected
  <2> QED
    BY <1>1, <2>1, FS_CardinalityType, FS_EmptySet, SMTT(30) DEF PeerCount, Counted
<1> QED
  BY <1>1, <1>2, TypeStep, Zenon

\* Every variable keeps its type: no handler or callback, in whatever order
\* they run, leaves the server, a client or a channel in a state that the code
\* does not provide for; an object has an info exactly while it is in the bus.
THEOREM TypeCorrect == Spec => []TypeOK
<1>1. TypeInv => TypeOK
  BY Zenon DEF TypeInv
<1> QED
  BY <1>1, TypesInit, TypesStep, PTL DEF Spec

\* srv->n_peers_connected is the number of connected peers for any number of
\* connections, whichever writes fail: a broadcast is never skipped while
\* somebody listens, and the counter never wraps below zero.
THEOREM PeerCountCorrect == Spec => []PeerCount
BY TypesInit, TypesStep, PTL DEF Spec

-----------------------------------------------------------------------------
(***************************************************************************)
(* The handshake.                                                          *)
(***************************************************************************)

LEMMA ShakenInit == Init => Shaken
<1> SUFFICES ASSUME Init PROVE Shaken
  BY Zenon
<1> USE DEF Init, LinkInit, ServerInit, ClientInit
<1>1. TypeInv
  BY TypeInit, Zenon
<1>2. CallbackPeers
  BY Zenon DEF CallbackPeers, Loop, NoCall
<1>3. Links
  BY Zenon DEF Links
<1>4. Answers
  BY Zenon DEF Answers
<1>5. CallsFromConnectedPeers
  BY DEF CallsFromConnectedPeers
<1> QED
  BY <1>1, <1>2, <1>3, <1>4, <1>5, SMTT(30) DEF Shaken

LEMMA ShakenStep == Shaken /\ PeerCount /\ [Next]_vars => Shaken' /\ PeerCount'
<1> SUFFICES ASSUME Shaken, PeerCount, [Next]_vars PROVE Shaken' /\ PeerCount'
  BY Zenon
<1>1. TypeInv' /\ PeerCount'
  BY TypesStep, Zenon DEF Shaken
<1>2. CASE UNCHANGED vars
  BY <1>1, <1>2, QuietStep, SMTT(30) DEF vars, linkVars, serverVars, clientVars
<1>3. CASE (ServerApi \/ ServerHandler) /\ UNCHANGED clientVars
  BY <1>1, <1>3, ServerApiShaken, ServerHandlerShaken, SMTT(30)
<1>4. CASE ServerStart /\ UNCHANGED clientVars
  BY <1>1, <1>4, QuietStep, SMTT(30) DEF ServerStart, clientVars
<1>5. CASE ServerStop /\ UNCHANGED clientVars
  BY <1>1, <1>5, TerminateStep, SMTT(30) DEF ServerStop
<1>6. ASSUME NEW c \in Client, ClientNext(c, up), UNCHANGED serverVars
      PROVE  Shaken'
  BY <1>1, <1>6, ClientNextShaken, SMTT(30)
<1> QED
  BY <1>1, <1>2, <1>3, <1>4, <1>5, <1>6, SMTT(30) DEF Next, ServerNext

\* The handshake, whatever fails and whatever user code does in its callbacks:
\* obus_client_connection_response never leaves a client that believes itself
\* connected (or refused) with a server end in another state, and nothing
\* overtakes the connection response.
THEOREM HandshakeCorrect == Spec => []HandshakeAgrees
<1>1. Shaken => HandshakeAgrees
  <2> SUFFICES ASSUME Shaken, NEW c \in Client, conn[c] # None
               PROVE  /\ cstate[c] = "CONNECTED" => peer[conn[c]] \in {"CONNECTED", "closed"}
                      /\ cstate[c] = "REFUSED" => peer[conn[c]] \in {"REFUSED", "closed"}
                      /\ cstate[c] = "CONNECTING" /\ Incoming(c) # <<>> =>
                           Head(Incoming(c)).type = "CONRESP"
    BY Zenon DEF HandshakeAgrees
  <2>1. AnswersTo(c) /\ s2c[conn[c]] \in Seq(ServerPacket)
    BY Zenon DEF Shaken, Answers, TypeInv, TypeOK, LinkTypeOK
  <2>2. s2c[conn[c]] # <<>> => Head(s2c[conn[c]]) = s2c[conn[c]][1]
    BY <2>1, TailFacts, SMTT(30)
  <2> QED
    BY <2>1, <2>2, SMTT(30) DEF AnswersTo, Incoming
<1> QED
  BY <1>1, ShakenInit, ShakenStep, TypesInit, PTL DEF Spec

\* obus_peer_call_request looks at no peer state: it need not, since no client
\* has a call on its way to a peer that is not connected.
THEOREM CallsFromConnectedPeersCorrect == Spec => []CallsFromConnectedPeers
<1>1. Shaken => CallsFromConnectedPeers
  BY Zenon DEF Shaken
<1> QED
  BY <1>1, ShakenInit, ShakenStep, TypesInit, PTL DEF Spec

-----------------------------------------------------------------------------
(***************************************************************************)
(* The replicas.                                                           *)
(***************************************************************************)

\* Failed allocations are counted, never forgotten.
LEMMA OomStep ==
    ASSUME Shaken, [Next]_vars, oom' = 0
    PROVE  oom = 0
<1>1. oom \in Nat
  BY OomAssumption, SMTT(30) DEF OomAssumption, Shaken, TypeInv, TypeOK, ServerTypeOK
<1>2. oom' = oom \/ oom' = oom + 1
  BY ZenonT(30) DEF Next, vars, serverVars, ServerNext, ServerApi, ServerHandler, ServerStart, ServerStop,
         Terminate, NewObject, DestroyObject, RegisterObject, UnregisterObject, RegisterObjectOom,
         UnregisterObjectOom, SendEvent, SendBusEvent, RefuseConnection, SendAck, SendAckLate,
         Accept, PeerError, ConnectionRequest, ConnectionRequestMismatch, CallUndecodable,
         CallRejected, CallRequest, ConnectionResponse, ConnectionResponseLost, ConnectedReturn,
         MethodReturn, Acknowledge, Oom
<1> QED
  BY <1>1, <1>2, SMTT(30)

\* The server never touches the client end of a connection, nor repairs one.
LEMMA ServerKeepsConn ==
    ASSUME ServerNext
    PROVE  conn' = conn /\ broken \subseteq broken'
BY ZenonT(60) DEF ServerNext, ServerApi, ServerHandler, ServerStart, ServerStop, Terminate, linkVars,
     NewObject, DestroyObject, RegisterObject, UnregisterObject, RegisterObjectOom,
     UnregisterObjectOom, SendEvent, SendBusEvent, RefuseConnection, SendAck, SendAckLate,
     Accept, PeerError, ConnectionRequest, ConnectionRequestMismatch, CallUndecodable,
     CallRejected, CallRequest, ConnectionResponse, ConnectionResponseLost, ConnectedReturn,
     MethodReturn, Acknowledge, AckWritten

LEMMA ReplicationStep ==
    ASSUME Shaken, oom = 0, oom' = 0, Replication, Announced, NoClientCrash, [Next]_vars
    PROVE  /\ Replication' /\ Announced' /\ NoClientCrash'
           /\ \A c \in Client : replica'[c] # replica[c] =>
                \/ replica'[c] = EmptyView /\ conn'[c] = None
                \/ Incoming(c) # <<>> /\ replica'[c] = Head(Incoming(c)).after
<1>1. ASSUME Delivery, UNCHANGED <<conn, replica, cstate>>
      PROVE  Replication' /\ Announced' /\ NoClientCrash'
  BY <1>1, DeliveryFollows, DeliveryAnnounced, SMTT(30) DEF NoClientCrash
<1>2. CASE UNCHANGED vars
  <2>1. UNCHANGED <<conn, peer, s2c, broken, cstate, replica>> /\ ServerView' = ServerView
    BY <1>2, Zenon DEF vars, linkVars, serverVars, clientVars, ServerView
  <2> QED
    BY <1>1, <2>1, QuietDelivery, SMTT(30)
<1>3. CASE ServerNext /\ UNCHANGED clientVars
  <2>1. UNCHANGED <<conn, cstate, replica>>
    BY <1>3, ServerKeepsConn, Zenon DEF clientVars
  <2>2. CASE ServerApi \/ ServerHandler
    BY <1>3, <2>2, <1>1, <2>1, ServerApiDelivery, ServerHandlerDelivery, ZenonT(30)
  <2>3. CASE ServerStart
    <3>1. UNCHANGED <<conn, peer, s2c, broken>> /\ ServerView' = ServerView
      BY <2>3, Zenon DEF ServerStart, linkVars, objVars, ServerView
    <3> QED
      BY <1>1, <2>1, <3>1, QuietDelivery, SMTT(30)
  <2>4. CASE ServerStop
    BY <1>1, <2>1, <2>4, QuietDelivery, ZenonT(40) DEF ServerStop, Terminate
  <2> QED
    BY <1>3, <2>1, <2>2, <2>3, <2>4, SMTT(30) DEF ServerNext
<1>4. ASSUME NEW c \in Client, ClientNext(c, up), UNCHANGED serverVars
      PROVE  /\ Replication' /\ Announced' /\ NoClientCrash'
             /\ \A d \in Client : replica'[d] # replica[d] =>
                  \/ replica'[d] = EmptyView /\ conn'[d] = None
                  \/ Incoming(d) # <<>> /\ replica'[d] = Head(Incoming(d)).after
  <2>1. Replication' /\ Announced'
    BY <1>4, ClientReplica, ReadingFollows, ReadingAnnounced, SMTT(30)
  <2> QED
    BY <1>4, <2>1, ClientReplica, ZenonT(40) DEF NoClientCrash
<1> QED
  BY <1>2, <1>3, <1>4, SMTT(30) DEF Next, vars, clientVars

Replicated ==
    Shaken /\ PeerCount /\ (oom = 0 => Replication /\ Announced /\ NoClientCrash)

LEMMA ReplicatedInit == Init => Replicated
<1>1. Init => Replication /\ Announced /\ NoClientCrash
  BY DEF Init, LinkInit, ClientInit, Replication, Announced, NoClientCrash
<1> QED
  BY <1>1, ShakenInit, TypesInit, SMTT(30) DEF Replicated

LEMMA ReplicatedStep == Replicated /\ [Next]_vars => Replicated'
<1> SUFFICES ASSUME Replicated, [Next]_vars PROVE Replicated'
  BY Zenon
<1>1. Shaken /\ Shaken' /\ PeerCount'
  BY ShakenStep, SMTT(30) DEF Replicated
<1>2. ASSUME oom' = 0 PROVE Replication' /\ Announced' /\ NoClientCrash'
  <2>1. oom = 0
    BY <1>1, <1>2, OomStep, SMTT(30)
  <2> QED
    BY <1>1, <1>2, <2>1, ReplicationStep, SMTT(30) DEF Replicated
<1> QED
  BY <1>1, <1>2, Zenon DEF Replicated

LEMMA ReplicatedAlways == Spec => []Replicated
BY ReplicatedInit, ReplicatedStep, PTL DEF Spec

\* The handshake and the replication rest on this invariant, which every step of
\* the server and of its clients preserves: callbacks are about live peers,
\* channels hold what the handshake allows, and the packets on their way to a
\* client lead it to the server's view, each removal included.
THEOREM InductiveCorrect == Spec => []Inductive
<1>1. Replicated => Inductive
  BY Zenon DEF Replicated, Inductive, Shaken, TypeInv
<1> QED
  BY <1>1, ReplicatedAlways, PTL

\* Replication: while no allocation has failed in the server, a client that has
\* read all that its peer wrote has exactly the objects that the server has
\* registered, with their current info, whatever connections were lost before
\* and whatever user code did in the callbacks.
THEOREM ConvergedCorrect == Spec => [](oom = 0 => Converged)
<1>1. Replicated => (oom = 0 => Converged)
  <2> SUFFICES ASSUME Replicated, oom = 0, NEW c \in Client,
                      cstate[c] = "CONNECTED", peer[conn[c]] = "CONNECTED",
                      conn[c] \notin broken, Incoming(c) = <<>>
               PROVE  replica[c] = ServerView
    BY Zenon DEF Converged
  <2>1. conn[c] # None
    BY SMTT(30) DEF Replicated, Shaken, Links
  <2> QED
    BY <2>1, Zenon DEF Replicated, Replication, Follows, Incoming
<1> QED
  BY <1>1, ReplicatedAlways, PTL

\* While no allocation has failed in the server, no client is told to remove an
\* object it does not have: obus_client_remove_object is never given a null
\* object.
THEOREM NoClientCrashCorrect == Spec => [](oom = 0 => NoClientCrash)
<1>1. Replicated => (oom = 0 => NoClientCrash)
  BY Zenon DEF Replicated
<1> QED
  BY <1>1, ReplicatedAlways, PTL

\* When no allocation can fail, every change of a client's objects takes them to
\* what the server had when it sent the packet, or to nothing when the client
\* disconnects: no client ever shows a bus that never was.
THEOREM ReplicaFollowsServerCorrect ==
    ASSUME MaxOom = 0
    PROVE  Spec => ReplicaFollowsServer
<1>1. Replicated => oom = 0
  BY DEF Replicated, Shaken, TypeInv, TypeOK, ServerTypeOK
<1>2. Replicated /\ Replicated' /\ [Next]_vars =>
        [\A c \in Client : replica'[c] # replica[c] =>
            \/ replica'[c] = EmptyView /\ conn'[c] = None
            \/ Incoming(c) # <<>> /\ replica'[c] = Head(Incoming(c)).after]_vars
  <2>1. Replicated' => oom' = 0
    BY SMTT(30) DEF Replicated, Shaken, TypeInv, TypeOK, ServerTypeOK
  <2> QED
    BY <1>1, <2>1, ReplicationStep, ZenonT(40) DEF Replicated
<1> QED
  BY <1>2, ReplicatedAlways, PTL DEF Spec, ReplicaFollowsServer

-----------------------------------------------------------------------------
(***************************************************************************)
(* Calls: a client only waits for calls on objects it has, and as long as  *)
(* no allocation fails in the server every call a client waits for is in   *)
(* somebody's hands.  Both rest on user code that does not call an object  *)
(* from its own remove callback.                                           *)
(***************************************************************************)

-----------------------------------------------------------------------------
(***************************************************************************)
(* The objects of the pending calls.                                       *)
(***************************************************************************)

\* A client step only changes what its own client knows.
LEMMA OthersKnow ==
    ASSUME Shaken, NEW c \in Client, ClientNext(c, up), NEW d \in Client, d # c
    PROVE  cstate'[d] = cstate[d] /\ replica'[d] = replica[d] /\ pending'[d] = pending[d]
<1>0. ClientTypeOK
  BY Zenon DEF Shaken, TypeInv, TypeOK
<1>1. CASE ClientNew(c) \/ ClientStart(c) \/ ClientDestroy(c) \/ ClientError(c)
  BY <1>0, <1>1, ZenonT(40) DEF ClientTypeOK, ClientNew, ClientStart, ClientDestroy, ClientError, DisconnectBus
<1>2. CASE \E p \in Conn : SocketConnected(c, p, up)
  BY <1>2, Zenon DEF SocketConnected, clientVars
<1>3. CASE ConnectionResponseHandler(c) \/ AddObject(c) \/ ObjectEvent(c) \/ CallAck(c)
  BY <1>0, <1>3, Zenon DEF ClientTypeOK, ConnectionResponseHandler, AddObject, ObjectEvent, CallAck
<1>4. CASE RemoveObject(c) \/ RemoveUnknownObject(c) \/ BusEvent(c)
  BY <1>0, <1>4, Zenon DEF ClientTypeOK, RemoveObject, RemoveUnknownObject, BusEvent
<1>5. CASE \E k \in CallHandle, h \in Handle : RemoveCallback(c, k, h) \/ ClientCall(c, k, h)
  BY <1>0, <1>5, ZenonT(40) DEF ClientTypeOK, RemoveCallback, ClientCall
<1> QED
  BY <1>1, <1>2, <1>3, <1>4, <1>5, SMTT(30) DEF ClientNext, ClientPackets

\* The packet that a client reads.
LEMMA PacketRead ==
    ASSUME Shaken, NEW c \in Client, NEW type, Receive(c, type)
    PROVE  /\ Head(Incoming(c)) \in ServerPacket /\ Head(Incoming(c)).type = type
           /\ Head(Incoming(c)) = Incoming(c)[1]
           /\ Incoming(c) \in Seq(ServerPacket) /\ Incoming(c) # <<>>
           /\ conn[c] \in Conn /\ conn' = conn /\ Incoming(c)' = Tail(Incoming(c))
<1>1. /\ conn[c] \in Conn /\ s2c \in [Conn -> Seq(ServerPacket)]
      /\ s2c' = [s2c EXCEPT ![conn[c]] = Tail(@)] /\ conn' = conn
      /\ s2c[conn[c]] # <<>> /\ Head(s2c[conn[c]]).type = type
  BY Zenon DEF Receive, Incoming, Shaken, TypeInv, TypeOK, LinkTypeOK
<1>2. s2c'[conn[c]] = Tail(s2c[conn[c]]) /\ s2c[conn[c]] \in Seq(ServerPacket)
  BY <1>1, Zenon
<1>3. Head(s2c[conn[c]]) = s2c[conn[c]][1] /\ 1 \in 1..Len(s2c[conn[c]])
  BY <1>1, <1>2, TailFacts, SMTT(30)
<1>4. Head(s2c[conn[c]]) \in ServerPacket
  BY <1>2, <1>3, SMTT(30)
<1> QED
  BY <1>1, <1>2, <1>3, <1>4, SMTT(30) DEF Incoming

LEMMA PendingClient ==
    ASSUME Shaken, PendingCallsHaveObjects, ~CallsInRemove, NEW c \in Client, ClientNext(c, up)
    PROVE  PendingCallsHaveObjects'
<1> SUFFICES ASSUME NEW d \in Client, NEW k \in CallHandle, pending'[d][k] # None
             PROVE  cstate'[d] = "CONNECTED" /\ replica'[d][pending'[d][k]] # None
  BY Zenon DEF PendingCallsHaveObjects
<1>0. /\ cstate \in [Client -> ClientState] /\ replica \in [Client -> View]
      /\ pending \in [Client -> [CallHandle -> Handle \cup {None}]]
  BY Zenon DEF Shaken, TypeInv, TypeOK, ClientTypeOK
<1>a. /\ pending[d] \in [CallHandle -> Handle \cup {None}] /\ replica[d] \in View
      /\ pending[d][k] # None => /\ cstate[d] = "CONNECTED" /\ pending[d][k] \in Handle
                                 /\ replica[d][pending[d][k]] # None
  BY <1>0, SMTT(30) DEF PendingCallsHaveObjects
<1>1. CASE d # c
  BY <1>1, <1>a, OthersKnow, ZenonT(40)
<1>2. ASSUME d = c, ClientNew(c) \/ ClientStart(c) \/ ClientDestroy(c) \/ RemoveUnknownObject(c)
      PROVE  FALSE
  BY <1>0, <1>a, <1>2, SMTT(30) DEF ClientNew, ClientStart, ClientDestroy, RemoveUnknownObject, NoCalls
<1>3. ASSUME d = c, ClientError(c)
      PROVE  FALSE
  <2>1. CASE cstate[c] # "CONNECTED"
    BY <1>a, <1>3, <2>1, ZenonT(40) DEF ClientError
  <2>2. CASE cstate[c] = "CONNECTED"
    <3>1. pending'[c] = Aborted(pending[c], {h \in Handle : replica[c][h] # None})
      BY <1>0, <1>3, <2>2, ZenonT(40) DEF ClientError, DisconnectBus
    <3> QED
      BY <1>a, <1>3, <3>1, ZenonT(40) DEF Aborted
  <2> QED
    BY <2>1, <2>2, ZenonT(40)
<1>4. ASSUME NEW p \in Conn, SocketConnected(c, p, up)
      PROVE  cstate'[d] = "CONNECTED" /\ replica'[d][pending'[d][k]] # None
  BY <1>a, <1>4, ZenonT(40) DEF SocketConnected, clientVars
<1>5. ASSUME d = c, ConnectionResponseHandler(c)
      PROVE  FALSE
  <2>1. cstate[c] = "CONNECTING" /\ pending' = pending
    BY <1>5, ResponseAwaited, Zenon DEF ConnectionResponseHandler
  <2> QED
    BY <1>a, <1>5, <2>1, ZenonT(40)
<1> DEFINE m == Head(Incoming(c))
<1>6. ASSUME d = c, AddObject(c) \/ ObjectEvent(c)
      PROVE  cstate'[d] = "CONNECTED" /\ replica'[d][pending'[d][k]] # None
  <2>1. /\ m \in ServerPacket /\ m.type \in {"ADD", "EVENT"} /\ pending' = pending /\ cstate' = cstate
        /\ replica'[c] = Apply(replica[c], m)
    BY <1>0, <1>6, PacketRead, ZenonT(40) DEF AddObject, ObjectEvent
  <2> QED
    BY <1>a, <1>6, <2>1, ApplyRemoves, ZenonT(40) DEF Removes
<1>7. ASSUME d = c, RemoveObject(c)
      PROVE  cstate'[d] = "CONNECTED" /\ replica'[d][pending'[d][k]] # None
  <2>1. /\ m \in ServerPacket /\ m.type = "REMOVE" /\ cstate' = cstate
        /\ replica'[c] = Apply(replica[c], m)
        /\ pending'[c] = Aborted(pending[c], {m.h})
    BY <1>0, <1>7, PacketRead, ZenonT(40) DEF RemoveObject
  <2>2. pending'[c][k] = pending[c][k] /\ pending[c][k] # m.h
    BY <1>7, <2>1, ZenonT(40) DEF Aborted
  <2> QED
    BY <1>a, <1>7, <2>1, <2>2, ApplyRemoves, ZenonT(40) DEF Removes
<1>8. ASSUME d = c, BusEvent(c)
      PROVE  cstate'[d] = "CONNECTED" /\ replica'[d][pending'[d][k]] # None
  <2>1. /\ m \in ServerPacket /\ m.type = "BUS_EVENT" /\ cstate' = cstate
        /\ replica'[c] = Apply(replica[c], m)
        /\ pending'[c] = Aborted(pending[c], Known(replica[c], m.rem))
    BY <1>0, <1>8, PacketRead, Zenon DEF BusEvent
  <2>2. pending'[c][k] = pending[c][k] /\ pending[c][k] \notin Known(replica[c], m.rem)
    BY <1>8, <2>1, Zenon DEF Aborted
  <2>3. pending[c][k] \notin m.rem
    BY <1>a, <1>8, <2>2, ZenonT(40) DEF Known
  <2> QED
    BY <1>a, <1>8, <2>1, <2>2, <2>3, ApplyRemoves, SMTT(30) DEF Removes
<1>9. ASSUME d = c, CallAck(c)
      PROVE  cstate'[d] = "CONNECTED" /\ replica'[d][pending'[d][k]] # None
  <2>1. cstate' = cstate /\ replica' = replica /\ pending' = [pending EXCEPT ![c][m.k] = None]
    BY <1>9, Zenon DEF CallAck
  <2>2. pending'[c][k] = pending[c][k]
    BY <1>0, <1>9, <2>1, ZenonT(40)
  <2> QED
    BY <1>a, <1>9, <2>1, <2>2, SMTT(30)
<1>10. ASSUME d = c, NEW j \in CallHandle, NEW h \in Handle, ClientCall(c, j, h)
       PROVE  cstate'[d] = "CONNECTED" /\ replica'[d][pending'[d][k]] # None
  <2>1. /\ cstate[c] = "CONNECTED" /\ replica[c][h] # None /\ cstate' = cstate /\ replica' = replica
        /\ pending' = [pending EXCEPT ![c][j] = h]
    BY <1>10, LinkAssumption, Zenon DEF ClientCall, LinkAssumption
  <2>2. pending'[c][k] = IF k = j THEN h ELSE pending[c][k]
    BY <1>0, <2>1, Zenon
  <2> QED
    BY <1>a, <1>10, <2>1, <2>2, SMTT(30)
<1>11. \A j \in CallHandle, h \in Handle : ~RemoveCallback(c, j, h)
  BY Zenon DEF RemoveCallback
<1> QED
  BY <1>1, <1>2, <1>3, <1>4, <1>5, <1>6, <1>7, <1>8, <1>9, <1>10, <1>11, SMTT(30) DEF ClientNext, ClientPackets

-----------------------------------------------------------------------------
(***************************************************************************)
(* The calls in the hands of the server.                                   *)
(***************************************************************************)

InHand(p, k, h) ==
    \/ \E i \in 1..Len(c2s[p]) : c2s[p][i] = CallPacket(k, h)
    \/ ctx = Method(p, k, h) /\ srvcall = ctx
    \/ \E i \in 1..Len(s2c[p]) : Completes(s2c[p][i], k, h)

\* A channel that loses its head keeps every other packet.
LEMMA TailKeeps ==
    ASSUME NEW S, NEW q \in Seq(S), q # <<>>, NEW i \in 1..Len(q), q[i] # Head(q)
    PROVE  \E j \in 1..Len(Tail(q)) : Tail(q)[j] = q[i]
<1>1. i # 1 /\ Len(q) \in Nat \ {0} /\ Len(Tail(q)) = Len(q) - 1
  BY TailFacts, Zenon
<1>2. i - 1 \in 1..Len(Tail(q)) /\ i - 1 \in 1..(Len(q) - 1)
  BY <1>1
<1>3. Tail(q)[i - 1] = q[(i - 1) + 1]
  BY <1>2, TailFacts, Zenon
<1>4. (i - 1) + 1 = i
  OBVIOUS
<1> QED
  BY <1>2, <1>3, <1>4, ZenonT(40)

LEMMA AppendKeeps ==
    ASSUME NEW S, NEW q \in Seq(S), NEW e \in S
    PROVE  /\ \A i \in 1..Len(q) : \E j \in 1..Len(Append(q, e)) : Append(q, e)[j] = q[i]
           /\ \E j \in 1..Len(Append(q, e)) : Append(q, e)[j] = e
<1>1. /\ Len(q) \in Nat /\ Len(Append(q, e)) = Len(q) + 1
      /\ \A i \in 1..Len(q) : Append(q, e)[i] = q[i]
      /\ Append(q, e)[Len(q) + 1] = e
  BY AppendFacts, SMTT(30)
<1>2. \A i \in 1..Len(q) : i \in 1..Len(Append(q, e))
  BY <1>1
<1>3. Len(q) + 1 \in 1..Len(Append(q, e))
  BY <1>1, SMTT(30)
<1> QED
  BY <1>1, <1>2, <1>3, ZenonT(40)

\* Sequence t is q with another packet, of set S, behind.
Longer(t, q, S) == q \in Seq(S) /\ \E e \in S : t = Append(q, e)

\* What is in q is in t.
Kept(t, q) == \A i \in 1..Len(q) : \E j \in 1..Len(t) : t[j] = q[i]

LEMMA LongerKeeps ==
    ASSUME NEW S, NEW q, NEW t, Longer(t, q, S)
    PROVE  Kept(t, q)
<1>1. PICK e \in S : t = Append(q, e)
  BY Zenon DEF Longer
<1>2. \A i \in 1..Len(q) : \E j \in 1..Len(Append(q, e)) : Append(q, e)[j] = q[i]
  BY AppendKeeps, SMTT(30) DEF Longer
<1> QED
  BY <1>1, <1>2, ZenonT(40) DEF Kept

\* What a server step does to the channel of a client that waits for a call.
LEMMA WaitingChannel ==
    ASSUME Shaken, Shaken', Delivery, NEW c \in Client, cstate[c] = "CONNECTED",
           UNCHANGED clientVars, conn' = conn, broken \subseteq broken',
           peer'[conn[c]] # "closed", conn[c] \notin broken'
    PROVE  /\ conn[c] \in Conn /\ peer[conn[c]] = "CONNECTED" /\ conn[c] \notin broken
           /\ \/ s2c'[conn[c]] = s2c[conn[c]]
              \/ \E m \in ServerPacket : s2c'[conn[c]] = Append(s2c[conn[c]], m)
<1> DEFINE p == conn[c]
<1>1. p # None /\ p \in Conn /\ AnswersTo(c) /\ p \notin broken /\ Open(p)
  BY SMTT(30) DEF Shaken, Links, Answers, TypeInv, TypeOK, LinkTypeOK, Open
<1>2. peer'[p] = "CONNECTED"
  <2>1. cstate'[c] = "CONNECTED" /\ conn'[c] = p
    BY Zenon DEF clientVars
  <2>2. AnswersTo(c)'
    BY <1>1, <2>1, ZenonT(40) DEF Shaken, Answers
  <2> QED
    BY <2>1, <2>2, Zenon DEF AnswersTo
<1>3. Delivers(p)
  BY <1>1, Zenon DEF Delivery
<1>4. ~Unanswered(p)
  BY <1>1, Zenon DEF AnswersTo
<1> HIDE DEF p
<1> QED
  BY <1>1, <1>2, <1>3, <1>4, SMTT(30) DEF Delivers, Written, p

\* An acknowledgement that reaches the channel completes its call.
LEMMA AckInHand ==
    ASSUME TypeOK, NEW p \in Conn, NEW k \in CallHandle, NEW h \in Handle, NEW st \in AckStatus,
           Open(p), p \notin broken, p \notin broken', AckWritten(p, k, h, st)
    PROVE  InHand(p, k, h)'
<1> DEFINE m == AckPacket(k, st, h, ServerView)
<1>1. m \in ServerPacket /\ s2c \in [Conn -> Seq(ServerPacket)]
  BY PacketType, ViewType, Zenon DEF ServerView, TypeOK, ServerTypeOK, LinkTypeOK
<1>2. Completes(m, k, h)
  BY Zenon DEF Completes, AckPacket
<1>3. s2c'[p] = Append(s2c[p], m)
  BY <1>1, ZenonT(40) DEF AckWritten, Written
<1> HIDE DEF m
<1>4. \E j \in 1..Len(s2c'[p]) : s2c'[p][j] = m
  BY <1>1, <1>3, AppendKeeps, SMTT(30)
<1> QED
  BY <1>2, <1>4, Zenon DEF InHand

\* The server reads a packet of p: it answers the call, or the call is not the
\* one that it reads.
LEMMA CallTaken ==
    ASSUME TypeOK, NEW p \in Conn, NEW k \in CallHandle, NEW h \in Handle,
           \E i \in 1..Len(c2s[p]) : c2s[p][i] = CallPacket(k, h),
           c2s' = [c2s EXCEPT ![p] = Tail(@)], Head(c2s[p]) # CallPacket(k, h)
    PROVE  InHand(p, k, h)'
<1>1. c2s \in [Conn -> Seq(ClientPacket)] /\ c2s[p] # <<>>
  BY DEF TypeOK, LinkTypeOK
<1>2. c2s[p] \in Seq(ClientPacket) /\ c2s'[p] = Tail(c2s[p])
  BY <1>1, Zenon
<1>3. \E j \in 1..Len(Tail(c2s[p])) : Tail(c2s[p])[j] = CallPacket(k, h)
  BY <1>1, <1>2, TailKeeps, SMTT(30)
<1> QED
  BY <1>2, <1>3, Zenon DEF InHand

LEMMA SendPeersKeepsCall ==
    ASSUME TypeOK, NEW m, NEW lost \in SUBSET Connected, SendPeers(m, lost),
           NEW p \in Conn, peer'[p] # "closed"
    PROVE  /\ c2s'[p] = c2s[p]
           /\ ctx.p = p => ctx' = ctx
           /\ srvcall.p = p => srvcall' = srvcall
<1>1. CASE npeers = 0
  BY <1>1, Zenon DEF SendPeers
<1>2. CASE npeers # 0
  BY <1>2 DEF SendPeers, Without, TypeOK, LinkTypeOK
<1> QED
  BY <1>1, <1>2, Zenon

\* The steps of the server, for a call that has no completing packet on its way:
\* c is the client that waits, on connection p.
LEMMA ServerApiInHand ==
    ASSUME Shaken, oom = 0, oom' = 0, ServerApi, NEW p \in Conn, Open(p), p \notin broken,
           p \notin broken', peer'[p] # "closed", NEW k \in CallHandle, NEW h \in Handle,
           \/ \E i \in 1..Len(c2s[p]) : c2s[p][i] = CallPacket(k, h)
           \/ ctx = Method(p, k, h) /\ srvcall = ctx
    PROVE  InHand(p, k, h)'
<1>0. TypeOK /\ ~Oom
  BY SMTT(30) DEF Shaken, TypeInv, Oom
<1>a. ASSUME c2s'[p] = c2s[p], ctx.p = p /\ srvcall.p = p => ctx' = ctx /\ srvcall' = srvcall
      PROVE  InHand(p, k, h)'
  <2>1. ctx = Method(p, k, h) /\ srvcall = ctx => ctx.p = p /\ srvcall.p = p
    BY DEF Method
  <2> QED
    BY <1>a, <2>1, ZenonT(40) DEF InHand
<1>1. ASSUME NEW x \in Handle, NEW v \in Value, NewObject(x, v)
      PROVE  InHand(p, k, h)'
  BY <1>a, <1>1, ZenonT(40) DEF NewObject, linkVars
<1>2. ASSUME NEW x \in Handle, DestroyObject(x)
      PROVE  InHand(p, k, h)'
  BY <1>a, <1>2, ZenonT(40) DEF DestroyObject, linkVars
<1>3. ASSUME NEW lost \in SUBSET Connected, NEW x \in Handle,
             \/ RegisterObject(x, lost)
             \/ UnregisterObject(x, lost)
             \/ \E v \in Value : SendEvent(x, v, lost)
      PROVE  InHand(p, k, h)'
  <2>1. PICK m : SendPeers(m, lost)
    BY <1>3, Zenon DEF RegisterObject, UnregisterObject, SendEvent
  <2> QED
    BY <1>0, <1>a, <2>1, SendPeersKeepsCall, ZenonT(40)
<1>4. ASSUME NEW lost \in SUBSET Connected, NEW add \in SUBSET Handle, NEW rem \in SUBSET Handle,
             NEW ev \in View, SendBusEvent(add, rem, ev, lost)
      PROVE  InHand(p, k, h)'
  <2>1. PICK m : SendPeers(m, lost)
    BY <1>4, Zenon DEF SendBusEvent
  <2> QED
    BY <1>0, <1>a, <2>1, SendPeersKeepsCall, ZenonT(40)
<1>5. CASE RefuseConnection
  BY <1>a, <1>5, Zenon DEF RefuseConnection, serverVars
<1>6. ~Terminate
  BY Zenon DEF Terminate
<1>7. CASE SendAck
  <2>1. Acknowledge(ctx, "ACKED") /\ c2s' = c2s
    BY <1>6, <1>7, Zenon DEF SendAck
  <2>2. AckWritten(ctx.p, ctx.k, ctx.h, "ACKED")
    BY <1>0, <2>1, ZenonT(40) DEF Acknowledge
  <2>3. CASE ctx = Method(p, k, h)
    <3>1. ctx.p = p /\ ctx.k = k /\ ctx.h = h
      BY <2>3, Zenon DEF Method
    <3> QED
      BY <1>0, <2>2, <3>1, AckInHand, SMTT(30) DEF AckStatus
  <2>4. CASE ctx # Method(p, k, h)
    BY <2>1, <2>4, ZenonT(40) DEF InHand
  <2> QED
    BY <2>3, <2>4, Zenon
<1>8. CASE SendAckLate
  <2>1. srvcall # ctx /\ c2s' = c2s
    BY <1>6, <1>8, SMTT(30) DEF SendAckLate
  <2> QED
    BY <2>1, ZenonT(40) DEF InHand
<1>9. ASSUME NEW x \in Handle PROVE ~RegisterObjectOom(x) /\ ~UnregisterObjectOom(x)
  BY <1>0, Zenon DEF RegisterObjectOom, UnregisterObjectOom
<1> QED
  BY <1>1, <1>2, <1>3, <1>4, <1>5, <1>7, <1>8, <1>9, ZenonT(40) DEF ServerApi

LEMMA ServerHandlerInHand ==
    ASSUME Shaken, oom = 0, oom' = 0, ServerHandler, NEW p \in Conn, Open(p), p \notin broken,
           p \notin broken', peer[p] = "CONNECTED", peer'[p] # "closed",
           NEW k \in CallHandle, NEW h \in Handle,
           ServerView[h] = None => \E i \in 1..Len(s2c[p]) : Removes(s2c[p][i], h),
           \/ \E i \in 1..Len(c2s[p]) : c2s[p][i] = CallPacket(k, h)
           \/ ctx = Method(p, k, h) /\ srvcall = ctx
    PROVE  InHand(p, k, h)'
<1>0. /\ TypeOK /\ ~Oom /\ ~Terminate
      /\ peer \in [Conn -> PeerState] /\ c2s \in [Conn -> Seq(ClientPacket)]
  BY SMTT(30) DEF Shaken, TypeInv, Oom, TypeOK, LinkTypeOK, Terminate
<1>a. CallPacket(k, h).type = "CALL" /\ CallPacket(k, h).k = k /\ CallPacket(k, h).h = h
  BY ZenonT(40) DEF CallPacket
<1>b. ASSUME ctx.at # "method" PROVE \E i \in 1..Len(c2s[p]) : c2s[p][i] = CallPacket(k, h)
  BY <1>b, SMTT(30) DEF Method
<1>c. ASSUME ctx.at # "method", c2s'[p] = c2s[p] PROVE InHand(p, k, h)'
  BY <1>b, <1>c, Zenon DEF InHand
<1>d. Loop.at # "method"
  BY Zenon DEF Loop
<1>1. ASSUME NEW x \in Conn, Accept(x) \/ PeerError(x) \/ ConnectionRequestMismatch(x)
      PROVE  InHand(p, k, h)'
  <2>1. ctx = Loop /\ x # p
    BY <1>0, <1>1, ZenonT(40) DEF Accept, PeerError, ConnectionRequestMismatch, DestroyPeer, Received
  <2>2. c2s'[p] = c2s[p]
    BY <1>0, <1>1, <2>1, ZenonT(40) DEF Accept, PeerError, ConnectionRequestMismatch, DestroyPeer
  <2> QED
    BY <1>c, <1>d, <2>1, <2>2, ZenonT(30)
<1>2. ASSUME NEW x \in Conn, ConnectionRequest(x)
      PROVE  InHand(p, k, h)'
  <2>1. ctx = Loop /\ Head(c2s[x]).type = "CONREQ" /\ c2s' = [c2s EXCEPT ![x] = Tail(@)]
    BY <1>2, Zenon DEF ConnectionRequest, Received
  <2>2. CASE x = p
    BY <1>0, <1>a, <1>b, <1>d, <2>1, <2>2, CallTaken, ZenonT(30)
  <2>3. CASE x # p
    BY <1>0, <1>c, <1>d, <2>1, <2>3, SMTT(30)
  <2> QED
    BY <2>2, <2>3, ZenonT(40)
<1>3. ASSUME NEW x \in Conn, x # p, CallUndecodable(x) \/ CallRejected(x) \/ CallRequest(x)
      PROVE  InHand(p, k, h)'
  <2>1. ctx = Loop /\ c2s' = [c2s EXCEPT ![x] = Tail(@)]
    BY <1>3, Zenon DEF CallUndecodable, CallRejected, CallRequest, Received
  <2> QED
    BY <1>0, <1>3, <1>c, <1>d, <2>1, SMTT(30)
<1>4. CASE CallUndecodable(p) \/ CallRejected(p) \/ CallRequest(p)
  <2>1. ctx = Loop /\ Received(p, "CALL") /\ c2s' = [c2s EXCEPT ![p] = Tail(@)]
    BY <1>4, ZenonT(40) DEF CallUndecodable, CallRejected, CallRequest, Received
  <2>2. CASE Head(c2s[p]) # CallPacket(k, h)
    BY <1>0, <1>b, <1>d, <2>1, <2>2, CallTaken, ZenonT(30)
  <2>3. CASE Head(c2s[p]) = CallPacket(k, h)
    <3>1. Request(p) = Method(p, k, h) /\ Method(p, k, h).h = h
      BY <1>a, <2>3, Zenon DEF Request, Method
    <3>2. CASE CallUndecodable(p)
      <4>1. ServerView[h] = None /\ s2c' = s2c
        BY <3>1, <3>2, ZenonT(40) DEF CallUndecodable, ServerView, ViewOf
      <4> QED
        BY <4>1, Zenon DEF InHand, Completes
    <3>3. CASE CallRejected(p)
      <4>1. PICK st \in AckStatus : Acknowledge(Method(p, k, h), st)
        BY <3>1, <3>3, Zenon DEF CallRejected, AckStatus
      <4>2. AckWritten(p, k, h, st)
        BY <1>0, <4>1, Zenon DEF Acknowledge, Method
      <4> QED
        BY <1>0, <4>2, AckInHand, ZenonT(40)
    <3>4. CASE CallRequest(p)
      BY <3>1, <3>4, Zenon DEF CallRequest, InHand
    <3> QED
      BY <1>4, <3>2, <3>3, <3>4, ZenonT(40)
  <2> QED
    BY <2>2, <2>3, ZenonT(30)
<1>5. CASE ConnectionResponse
  BY <1>5, <1>c, Zenon DEF ConnectionResponse
<1>6. CASE ConnectionResponseLost
  <2>1. ctx.at = "connecting" /\ ctx.p \in Conn /\ ctx.p # p /\ DestroyPeer(ctx.p)
    BY <1>0, <1>6, ZenonT(40) DEF ConnectionResponseLost, Shaken, CallbackPeers
  <2> QED
    BY <1>0, <1>c, <2>1, ZenonT(40) DEF DestroyPeer
<1>7. CASE ConnectedReturn
  BY <1>0, <1>7, <1>c, ZenonT(40) DEF ConnectedReturn, linkVars
<1>8. CASE MethodReturn
  <2>1. c2s' = c2s /\ (srvcall = ctx => Acknowledge(ctx, "REFUSED"))
    BY <1>0, <1>8, ZenonT(40) DEF MethodReturn
  <2>2. CASE ctx = Method(p, k, h) /\ srvcall = ctx
    <3>1. ctx.p = p /\ ctx.k = k /\ ctx.h = h
      BY <2>2, Zenon DEF Method
    <3>2. AckWritten(p, k, h, "REFUSED")
      BY <1>0, <2>1, <2>2, <3>1, ZenonT(40) DEF Acknowledge
    <3> QED
      BY <1>0, <3>2, AckInHand, ZenonT(40) DEF AckStatus
  <2>3. CASE ~(ctx = Method(p, k, h) /\ srvcall = ctx)
    BY <2>1, <2>3, ZenonT(40) DEF InHand
  <2> QED
    BY <2>2, <2>3, ZenonT(40)
<1> QED
  BY <1>1, <1>2, <1>3, <1>4, <1>5, <1>6, <1>7, <1>8, ZenonT(30) DEF ServerHandler

LEMMA NoOrphanServer ==
    ASSUME Shaken, Shaken', Announced, PendingCallsHaveObjects, NoOrphanCall, oom = 0, oom' = 0,
           ServerNext, UNCHANGED clientVars
    PROVE  NoOrphanCall'
<1> SUFFICES ASSUME NEW c \in Client, NEW k \in CallHandle, pending'[c][k] # None,
                    peer'[conn'[c]] # "closed", conn'[c] \notin broken'
             PROVE  InHand(conn[c], k, pending[c][k])'
  BY Zenon DEF NoOrphanCall, InHand
<1>0. TypeOK /\ conn' = conn /\ broken \subseteq broken' /\ UNCHANGED <<cstate, replica, pending>>
  BY ServerKeepsConn, Zenon DEF Shaken, TypeInv, clientVars
<1> SUFFICES ASSUME NEW p, p = conn[c], NEW h, h = pending[c][k]
             PROVE  InHand(p, k, h)'
  BY <1>0, ZenonT(40)
<1>1. h \in Handle /\ cstate[c] = "CONNECTED" /\ replica[c][h] # None
  BY <1>0, SMTT(30) DEF PendingCallsHaveObjects, TypeOK, ClientTypeOK
<1>2. Delivery \/ ServerStart \/ ServerStop
  BY ServerApiDelivery, ServerHandlerDelivery, ZenonT(40) DEF ServerNext
<1>3. CASE ServerStop
  <2>1. p # None /\ conn \in [Client -> Conn \cup {None}]
    BY <1>0, <1>1, ZenonT(30) DEF TypeOK, LinkTypeOK, Shaken, Links
  <2>2. p \in Conn /\ peer' = [x \in Conn |-> "closed"]
    BY <1>3, <2>1, ZenonT(40) DEF ServerStop, Terminate
  <2> QED
    BY <1>0, <2>2, ZenonT(40)
<1>4. CASE ServerStart
  <2>1. InHand(p, k, h) /\ UNCHANGED <<c2s, s2c, ctx, srvcall>>
    BY <1>0, <1>4, Zenon DEF ServerStart, linkVars, NoOrphanCall, InHand
  <2> QED
    BY <2>1, Zenon DEF InHand
<1>5. ASSUME Delivery, ServerApi \/ ServerHandler
      PROVE  InHand(p, k, h)'
  <2>1. /\ p \in Conn /\ peer[p] = "CONNECTED" /\ p \notin broken /\ Open(p) /\ p # None
        /\ \/ s2c'[p] = s2c[p]
           \/ \E m \in ServerPacket : s2c'[p] = Append(s2c[p], m)
    BY <1>0, <1>1, <1>5, WaitingChannel, LinkAssumption, ZenonT(30) DEF Open, LinkAssumption
  <2>2. InHand(p, k, h)
    BY <1>0, <2>1, ZenonT(40) DEF NoOrphanCall, InHand
  <2>3. CASE \E i \in 1..Len(s2c[p]) : Completes(s2c[p][i], k, h)
    <3>1. s2c[p] \in Seq(ServerPacket)
      BY <1>0, <2>1, ZenonT(40) DEF TypeOK, LinkTypeOK
    <3>2. PICK i \in 1..Len(s2c[p]) : Completes(s2c[p][i], k, h)
      BY <2>3, Zenon
    <3>3. \E j \in 1..Len(s2c'[p]) : s2c'[p][j] = s2c[p][i]
      <4>1. CASE s2c'[p] = s2c[p]
        BY <4>1, Zenon
      <4>2. ASSUME NEW m \in ServerPacket, s2c'[p] = Append(s2c[p], m)
            PROVE  \E j \in 1..Len(s2c'[p]) : s2c'[p][j] = s2c[p][i]
        <5>1. PICK q : q = s2c[p]
          BY Zenon
        <5>2. q \in Seq(ServerPacket) /\ i \in 1..Len(q)
          BY <3>1, <5>1, Zenon
        <5>3. PICK t : t = s2c'[p]
          BY Zenon
        <5>4. Longer(t, q, ServerPacket)
          BY <4>2, <5>1, <5>2, <5>3, ZenonT(40) DEF Longer
        <5>5. Kept(t, q)
          BY <5>4, LongerKeeps, Zenon
        <5>6. \E j \in 1..Len(t) : t[j] = q[i]
          BY <5>2, <5>5, Zenon DEF Kept
        <5> QED
          BY <5>1, <5>3, <5>6, ZenonT(40)
      <4> QED
        BY <2>1, <4>1, <4>2, ZenonT(40)
    <3> QED
      BY <3>2, <3>3, ZenonT(40) DEF InHand
  <2>4. CASE \/ \E i \in 1..Len(c2s[p]) : c2s[p][i] = CallPacket(k, h)
             \/ ctx = Method(p, k, h) /\ srvcall = ctx
    <3>1. ServerView[h] = None => \E i \in 1..Len(s2c[p]) : Removes(s2c[p][i], h)
      <4>1. AnnouncedTo(c)
        BY <1>0, <2>1, ZenonT(40) DEF Announced
      <4>a. s2c \in [Conn -> Seq(ServerPacket)]
        BY <1>0, Zenon DEF TypeOK, LinkTypeOK
      <4>b. s2c[p] \in Seq(ServerPacket)
        BY <2>1, <4>a, ZenonT(40)
      <4>c. Len(s2c[p]) \in Nat
        BY <4>b, EmptyFacts, ZenonT(40)
      <4>2. 0 \in 0..Len(s2c[p]) /\ Seen(c, 0) = replica[c]
        BY <4>c, SMTT(30) DEF Seen
      <4>3. ServerView[h] = None => \E i \in (0 + 1)..Len(s2c[p]) : Removes(s2c[p][i], h)
        BY <1>1, <4>1, <4>2, ZenonT(40) DEF AnnouncedTo, Incoming
      <4> QED
        BY <4>3, SMTT(30)
    <3>2. peer'[p] # "closed" /\ p \notin broken'
      BY <1>0, ZenonT(40)
    <3> QED
      BY <1>1, <1>5, <2>1, <2>4, <3>1, <3>2, ServerApiInHand, ServerHandlerInHand, ZenonT(30)
  <2> QED
    BY <2>2, <2>3, <2>4, ZenonT(30) DEF InHand
<1> QED
  BY <1>2, <1>3, <1>4, <1>5, SMTT(30) DEF ServerNext

-----------------------------------------------------------------------------
(***************************************************************************)
(* The calls in the hands of the clients.                                  *)
(***************************************************************************)

\* A client step leaves the connections of the other clients alone.
LEMMA OthersLinked ==
    ASSUME Shaken, NEW c \in Client, ClientNext(c, up), NEW d \in Client, d # c, conn[d] # None
    PROVE  /\ conn'[d] = conn[d]
           /\ s2c'[conn[d]] = s2c[conn[d]] /\ c2s'[conn[d]] = c2s[conn[d]]
           /\ peer'[conn[d]] = peer[conn[d]]
           /\ conn[d] \in broken' <=> conn[d] \in broken
<1>0. /\ conn \in [Client -> Conn \cup {None}] /\ peer \in [Conn -> PeerState]
      /\ c2s \in [Conn -> Seq(ClientPacket)] /\ s2c \in [Conn -> Seq(ServerPacket)]
      /\ conn[d] # conn[c]
  BY Zenon DEF Shaken, TypeInv, TypeOK, LinkTypeOK, Links
<1>1. CASE ClientNew(c) \/ ClientStart(c)
  BY <1>1, Zenon DEF ClientNew, ClientStart, linkVars
<1>2. ASSUME NEW p \in Conn, SocketConnected(c, p, up)
      PROVE  /\ conn'[d] = conn[d]
             /\ s2c'[conn[d]] = s2c[conn[d]] /\ c2s'[conn[d]] = c2s[conn[d]]
             /\ peer'[conn[d]] = peer[conn[d]]
             /\ conn[d] \in broken' <=> conn[d] \in broken
  <2>1. p # conn[d]
    BY <1>2, Zenon DEF SocketConnected, Unused, Open
  <2> QED
    BY <1>0, <1>2, <2>1, ZenonT(40) DEF SocketConnected
<1>3. ASSUME CloseSocket(c), UNCHANGED c2s
      PROVE  /\ conn'[d] = conn[d]
             /\ s2c'[conn[d]] = s2c[conn[d]] /\ c2s'[conn[d]] = c2s[conn[d]]
             /\ peer'[conn[d]] = peer[conn[d]]
             /\ conn[d] \in broken' <=> conn[d] \in broken
  BY <1>0, <1>3, ZenonT(40) DEF CloseSocket
<1>4. CASE ClientError(c) \/ ClientDestroy(c) \/ RemoveUnknownObject(c)
  BY <1>3, <1>4, ZenonT(40) DEF ClientError, ClientDestroy, RemoveUnknownObject
<1>5. ASSUME NEW type, Receive(c, type)
      PROVE  /\ conn'[d] = conn[d]
             /\ s2c'[conn[d]] = s2c[conn[d]]
             /\ peer'[conn[d]] = peer[conn[d]]
             /\ conn[d] \in broken' <=> conn[d] \in broken
  BY <1>0, <1>5, ZenonT(40) DEF Receive
<1>6. ASSUME NEW m, Send(conn[c], m)
      PROVE  c2s'[conn[d]] = c2s[conn[d]]
  BY <1>0, <1>6, Zenon DEF Send
<1>7. CASE \/ ConnectionResponseHandler(c) \/ AddObject(c) \/ ObjectEvent(c) \/ RemoveObject(c)
           \/ BusEvent(c) \/ CallAck(c)
  BY <1>5, <1>7, ZenonT(40) DEF ConnectionResponseHandler, AddObject, ObjectEvent, RemoveObject, BusEvent, CallAck
<1>8. CASE \E k \in CallHandle, h \in Handle : RemoveCallback(c, k, h)
  BY <1>5, <1>6, <1>8, ZenonT(40) DEF RemoveCallback
<1>9. CASE \E k \in CallHandle, h \in Handle : ClientCall(c, k, h)
  BY <1>6, <1>9, ZenonT(40) DEF ClientCall
<1> QED
  BY <1>1, <1>2, <1>4, <1>7, <1>8, <1>9, ZenonT(30) DEF ClientNext, ClientPackets

\* A client that reads a packet loses no packet that completes another call.
LEMMA ReceiveInHand ==
    ASSUME Shaken, NEW c \in Client, NEW type, Receive(c, type), UNCHANGED <<c2s, serverVars>>,
           NEW k, NEW h, InHand(conn[c], k, h), ~Completes(Head(Incoming(c)), k, h)
    PROVE  InHand(conn[c], k, h)'
<1> SUFFICES ASSUME NEW p, p = conn[c] PROVE InHand(p, k, h)'
  BY Zenon DEF Receive
<1>1. /\ s2c[p] \in Seq(ServerPacket) /\ s2c[p] # <<>> /\ s2c'[p] = Tail(s2c[p])
      /\ ~Completes(Head(s2c[p]), k, h)
  BY PacketRead, Zenon DEF Incoming
<1>2. CASE \E i \in 1..Len(s2c[p]) : Completes(s2c[p][i], k, h)
  <2>1. PICK i \in 1..Len(s2c[p]) : Completes(s2c[p][i], k, h)
    BY <1>2, Zenon
  <2>2. \E j \in 1..Len(s2c'[p]) : s2c'[p][j] = s2c[p][i]
    <3>1. s2c[p][i] # Head(s2c[p])
      BY <1>1, <2>1, ZenonT(40)
    <3>2. \E j \in 1..Len(Tail(s2c[p])) : Tail(s2c[p])[j] = s2c[p][i]
      BY <1>1, <2>1, <3>1, TailKeeps, ZenonT(30)
    <3> QED
      BY <1>1, <3>2, Zenon
  <2> QED
    BY <2>1, <2>2, ZenonT(40) DEF InHand
<1>3. CASE ~\E i \in 1..Len(s2c[p]) : Completes(s2c[p][i], k, h)
  BY <1>3, Zenon DEF InHand, serverVars
<1> QED
  BY <1>2, <1>3, Zenon

LEMMA NoOrphanClient ==
    ASSUME Shaken, PendingCallsHaveObjects, PendingCallsHaveObjects', NoOrphanCall, ~CallsInRemove,
           NEW c \in Client, ClientNext(c, up), UNCHANGED serverVars
    PROVE  NoOrphanCall'
<1> SUFFICES ASSUME NEW d \in Client, NEW k \in CallHandle, NEW p, p = conn'[d],
                    NEW h, h = pending'[d][k], h # None, peer'[p] # "closed", p \notin broken'
             PROVE  InHand(p, k, h)'
  BY Zenon DEF NoOrphanCall, InHand
<1>0. /\ pending \in [Client -> [CallHandle -> Handle \cup {None}]]
      /\ conn \in [Client -> Conn \cup {None}] /\ c2s \in [Conn -> Seq(ClientPacket)]
      /\ replica \in [Client -> View] /\ cstate \in [Client -> ClientState]
  BY Zenon DEF Shaken, TypeInv, TypeOK, ClientTypeOK, LinkTypeOK
<1>a. ASSUME NEW x \in Client, cstate[x] = "CONNECTED"
      PROVE  conn[x] # None /\ conn[x] \in Conn
  BY <1>0, <1>a, ZenonT(30) DEF Shaken, Links
<1>1. /\ pending[d][k] # None => conn[d] # None /\ conn[d] \in Conn /\ cstate[d] = "CONNECTED"
      /\ cstate'[d] = "CONNECTED"
  <2>1. cstate'[d] = "CONNECTED"
    BY Zenon DEF PendingCallsHaveObjects
  <2>2. ASSUME pending[d][k] # None PROVE cstate[d] = "CONNECTED"
    BY <2>2, Zenon DEF PendingCallsHaveObjects
  <2>3. ASSUME cstate[d] = "CONNECTED" PROVE conn[d] # None /\ conn[d] \in Conn
    BY <1>a, <2>3, ZenonT(40)
  <2> QED
    BY <2>1, <2>2, <2>3, ZenonT(40)
<1>2. CASE d # c
  <2>1. pending[d][k] = h /\ conn[d] # None
    BY <1>1, <1>2, OthersKnow, ZenonT(40)
  <2>2. /\ p = conn[d] /\ s2c'[p] = s2c[p] /\ c2s'[p] = c2s[p] /\ peer'[p] = peer[p]
        /\ p \in broken' <=> p \in broken
    BY <1>2, <2>1, OthersLinked, ZenonT(40)
  <2>3. InHand(p, k, h)
    BY <2>1, <2>2, ZenonT(40) DEF NoOrphanCall, InHand
  <2> QED
    BY <2>2, <2>3, ZenonT(40) DEF InHand, serverVars
<1>3. ASSUME d = c, \/ ClientNew(c) \/ ClientStart(c) \/ ClientError(c) \/ ClientDestroy(c)
                    \/ RemoveUnknownObject(c) \/ \E x \in Conn : SocketConnected(c, x, up)
      PROVE  FALSE
  <2>1. cstate'[c] # "CONNECTED"
    BY <1>0, <1>3, ZenonT(40) DEF ClientNew, ClientStart, ClientError, ClientDestroy, RemoveUnknownObject,
                      SocketConnected, clientVars
  <2> QED
    BY <1>1, <1>3, <2>1, ZenonT(40)
<1>4. ASSUME d = c, ConnectionResponseHandler(c)
      PROVE  FALSE
  <2>1. cstate[c] = "CONNECTING" /\ pending' = pending
    BY <1>4, ResponseAwaited, ZenonT(40) DEF ConnectionResponseHandler
  <2> QED
    BY <1>1, <1>4, <2>1, ZenonT(30)
<1> DEFINE m == Head(Incoming(c))
<1>5. ASSUME d = c, NEW type, Receive(c, type), c2s' = c2s, pending[c][k] = h,
             ~Completes(m, k, h)
      PROVE  InHand(p, k, h)'
  <2>1. p = conn[c] /\ peer[p] # "closed" /\ p \notin broken /\ conn' = conn
    BY <1>5, Zenon DEF Receive
  <2>2. InHand(conn[c], k, h)
    BY <1>5, <2>1, ZenonT(40) DEF NoOrphanCall, InHand
  <2>3. InHand(conn[c], k, h)'
    BY <1>5, <2>2, ReceiveInHand, ZenonT(40)
  <2> QED
    BY <2>1, <2>3, ZenonT(40)
<1>6. ASSUME d = c, AddObject(c) \/ ObjectEvent(c)
      PROVE  InHand(p, k, h)'
  <2>1. PICK type \in {"ADD", "EVENT"} : Receive(c, type)
    BY <1>6, Zenon DEF AddObject, ObjectEvent
  <2>2. c2s' = c2s /\ pending[c][k] = h
    BY <1>6, ZenonT(40) DEF AddObject, ObjectEvent
  <2>3. ~Completes(m, k, h)
    BY <2>1, Zenon DEF Receive, Completes, Removes
  <2> QED
    BY <1>5, <1>6, <2>1, <2>2, <2>3, ZenonT(30)
<1>7. ASSUME d = c, RemoveObject(c)
      PROVE  InHand(p, k, h)'
  <2>1. Receive(c, "REMOVE") /\ c2s' = c2s /\ pending'[c] = Aborted(pending[c], {m.h})
    BY <1>0, <1>7, ZenonT(40) DEF RemoveObject
  <2>2. pending[c][k] = h /\ h # m.h
    BY <1>7, <2>1, ZenonT(40) DEF Aborted
  <2>3. ~Completes(m, k, h)
    BY <2>1, <2>2, ZenonT(40) DEF Receive, Completes, Removes
  <2> QED
    BY <1>5, <1>7, <2>1, <2>2, <2>3, ZenonT(30)
<1>8. ASSUME d = c, BusEvent(c)
      PROVE  InHand(p, k, h)'
  <2>1. /\ Receive(c, "BUS_EVENT") /\ c2s' = c2s
        /\ pending'[c] = Aborted(pending[c], Known(replica[c], m.rem))
    BY <1>0, <1>8, ZenonT(40) DEF BusEvent
  <2>2. pending[c][k] = h /\ h \notin Known(replica[c], m.rem)
    BY <1>8, <2>1, ZenonT(40) DEF Aborted
  <2>3. h \notin m.rem
    BY <1>0, <2>2, ZenonT(40) DEF Known, PendingCallsHaveObjects
  <2>4. ~Completes(m, k, h)
    BY <2>1, <2>3, ZenonT(40) DEF Receive, Completes, Removes
  <2> QED
    BY <1>5, <1>8, <2>1, <2>2, <2>4, ZenonT(30)
<1>9. ASSUME d = c, CallAck(c)
      PROVE  InHand(p, k, h)'
  <2>1. Receive(c, "ACK") /\ c2s' = c2s /\ pending' = [pending EXCEPT ![c][m.k] = None]
    BY <1>9, Zenon DEF CallAck
  <2>2. pending[c][k] = h /\ k # m.k
    BY <1>0, <1>9, <2>1, ZenonT(40)
  <2>3. ~Completes(m, k, h)
    <3>1. m.type = "ACK"
      BY <2>1, ZenonT(40) DEF Receive
    <3> HIDE DEF m
    <3> QED
      BY <2>2, <3>1, ZenonT(40) DEF Completes, Removes
  <2> QED
    BY <1>5, <1>9, <2>1, <2>2, <2>3, ZenonT(30)
<1>10. ASSUME d = c, NEW j \in CallHandle, NEW x \in Handle, ClientCall(c, j, x)
       PROVE  InHand(p, k, h)'
  <2>1. /\ pending' = [pending EXCEPT ![c][j] = x] /\ p = conn[c] /\ cstate[c] = "CONNECTED"
        /\ peer[p] # "closed" /\ p \notin broken /\ UNCHANGED s2c /\ Send(p, CallPacket(j, x))
    BY <1>10, Zenon DEF ClientCall
  <2>a. p # None /\ p \in Conn
    BY <1>a, <2>1, ZenonT(40)
  <2>b. c2s[p] \in Seq(ClientPacket)
    BY <1>0, <2>a, ZenonT(40)
  <2>2. p \in Conn /\ c2s'[p] = Append(c2s[p], CallPacket(j, x)) /\ c2s[p] \in Seq(ClientPacket)
    BY <1>0, <2>1, <2>a, <2>b, ZenonT(40) DEF Send
  <2>3. CallPacket(j, x) \in ClientPacket
    BY <1>10, ZenonT(40) DEF CallPacket, ClientPacket
  <2>4. CASE k = j
    <3>1. h = x
      BY <1>0, <1>10, <2>1, <2>4, ZenonT(30)
    <3>2. \E i \in 1..Len(c2s'[p]) : c2s'[p][i] = CallPacket(j, x)
      BY <2>2, <2>3, AppendKeeps, SMTT(30)
    <3> QED
      BY <2>4, <3>1, <3>2, SMTT(30) DEF InHand
  <2>5. CASE k # j
    <3>1. pending[c][k] = h
      BY <1>0, <1>10, <2>1, <2>5, ZenonT(40)
    <3>2. InHand(p, k, h)
      BY <2>1, <3>1, ZenonT(40) DEF NoOrphanCall, InHand
    <3>3. CASE \E i \in 1..Len(c2s[p]) : c2s[p][i] = CallPacket(k, h)
      <4>1. \E i \in 1..Len(c2s'[p]) : c2s'[p][i] = CallPacket(k, h)
        BY <2>2, <2>3, <3>3, AppendKeeps, SMTT(30)
      <4> QED
        BY <4>1, ZenonT(40) DEF InHand
    <3>4. CASE ~\E i \in 1..Len(c2s[p]) : c2s[p][i] = CallPacket(k, h)
      BY <2>1, <3>2, <3>4, ZenonT(40) DEF InHand, serverVars
    <3> QED
      BY <3>3, <3>4, ZenonT(40)
  <2> QED
    BY <2>4, <2>5, ZenonT(40)
<1>11. \A j \in CallHandle, x \in Handle : ~RemoveCallback(c, j, x)
  BY Zenon DEF RemoveCallback
<1> QED
  BY <1>2, <1>3, <1>4, <1>6, <1>7, <1>8, <1>9, <1>10, <1>11, ZenonT(30) DEF ClientNext, ClientPackets

-----------------------------------------------------------------------------
(***************************************************************************)
(* The theorems.                                                           *)
(***************************************************************************)

Called == Replicated /\ PendingCallsHaveObjects /\ (oom = 0 => NoOrphanCall)

LEMMA CalledInit == Init => Called
<1>1. ASSUME Init PROVE PendingCallsHaveObjects /\ NoOrphanCall
  <2>1. \A c \in Client, k \in CallHandle : pending[c][k] = None
    BY <1>1, Zenon DEF Init, ClientInit, NoCalls
  <2> QED
    BY <2>1, Zenon DEF PendingCallsHaveObjects, NoOrphanCall
<1> QED
  BY <1>1, ReplicatedInit, Zenon DEF Called

LEMMA CalledStep ==
    ASSUME ~CallsInRemove
    PROVE  Called /\ [Next]_vars => Called'
<1> SUFFICES ASSUME Called, [Next]_vars PROVE Called'
  BY Zenon
<1>1. Replicated /\ Replicated' /\ Shaken /\ Shaken' /\ PendingCallsHaveObjects
  BY ReplicatedStep, Zenon DEF Called, Replicated
<1>2. PendingCallsHaveObjects'
  <2>1. CASE \E c \in Client : ClientNext(c, up)
    BY <1>1, <2>1, PendingClient, SMTT(30)
  <2>2. CASE UNCHANGED clientVars
    BY <1>1, <2>2, SMTT(30) DEF clientVars, PendingCallsHaveObjects
  <2> QED
    BY <2>1, <2>2, Zenon DEF Next, vars
<1>3. ASSUME oom' = 0 PROVE NoOrphanCall'
  <2>1. oom = 0 /\ NoOrphanCall /\ Announced
    BY <1>1, <1>3, OomStep, SMTT(30) DEF Called, Replicated
  <2>2. CASE UNCHANGED vars
    BY <2>1, <2>2, ZenonT(30) DEF vars, linkVars, serverVars, clientVars, NoOrphanCall
  <2>3. CASE ServerNext /\ UNCHANGED clientVars
    BY <1>1, <1>3, <2>1, <2>3, NoOrphanServer, SMTT(30)
  <2>4. CASE \E c \in Client : ClientNext(c, up) /\ UNCHANGED serverVars
    BY <1>1, <1>2, <2>1, <2>4, NoOrphanClient, SMTT(30)
  <2> QED
    BY <2>2, <2>3, <2>4, SMTT(30) DEF Next
<1> QED
  BY <1>1, <1>2, <1>3, ZenonT(40) DEF Called

\* A client only waits for calls on objects that it has, and only while it is
\* connected, whatever fails: so the removal of an object and the loss of the
\* connection, which abort the calls of objects, leave no call behind.  It takes
\* user code that does not call an object from its own remove callback.
THEOREM PendingCallsHaveObjectsCorrect ==
    ASSUME ~CallsInRemove
    PROVE  Spec => []PendingCallsHaveObjects
<1>1. Called => PendingCallsHaveObjects
  BY Zenon DEF Called
<1> QED
  BY <1>1, CalledInit, CalledStep, PTL DEF Spec

\* While no allocation has failed in the server, every call that a client waits
\* for is still to be read by the server, being handled and not yet answered, or
\* about to be completed by a packet on its way, for any number of clients,
\* connections, objects and calls: even the call on an object that leaves the
\* bus before obus_call_decode looks for it, which the server drops in silence,
\* is completed by the removal that was announced before.
THEOREM NoOrphanCallCorrect ==
    ASSUME ~CallsInRemove
    PROVE  Spec => [](oom = 0 => NoOrphanCall)
<1>1. Called => (oom = 0 => NoOrphanCall)
  BY Zenon DEF Called
<1> QED
  BY <1>1, CalledInit, CalledStep, PTL DEF Spec

=============================================================================
