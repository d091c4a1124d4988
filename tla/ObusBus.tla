------------------------------ MODULE ObusBus -------------------------------
(***************************************************************************)
(* An obus server and its clients: the composition of ObusServer and       *)
(* ObusClient over the connections of ObusLink, and what makes a bus       *)
(* correct.                                                                *)
(***************************************************************************)
EXTENDS ObusServer, ObusClient

vars == <<linkVars, serverVars, clientVars>>

Init == LinkInit /\ ServerInit /\ ClientInit

Next ==
    \/ ServerNext /\ UNCHANGED clientVars
    \/ \E c \in Client : ClientNext(c, up) /\ UNCHANGED serverVars

Spec == Init /\ [][Next]_vars

(***************************************************************************)
(* Fairness.  The event loop of the server polls all its descriptors in    *)
(* each round, so that what one peer has to say is not postponed for ever  *)
(* by the callbacks of the others; callbacks return.  A client reads what  *)
(* arrives, sees the end of a dead connection and retries to connect every *)
(* half second.  Somebody restarts a server that stops.  User code need    *)
(* not do anything.                                                        *)
(***************************************************************************)
PeerProgress(p) ==
    \/ Accept(p)
    \/ ConnectionRequest(p) \/ ConnectionRequestMismatch(p)
    \/ CallUndecodable(p) \/ CallRejected(p) \/ CallRequest(p)
    \/ c2s[p] = <<>> /\ (~Open(p) \/ p \in broken) /\ PeerError(p)

CallbackReturns ==
    ConnectionResponse \/ ConnectionResponseLost \/ ConnectedReturn \/ MethodReturn

ClientProgress(c) ==
    \/ ClientPackets(c)
    \/ conn[c] # None /\ Incoming(c) = <<>>
       /\ (peer[conn[c]] = "closed" \/ conn[c] \in broken)
       /\ ClientError(c)

Connects(c) == \E p \in Conn : SocketConnected(c, p, up) /\ conn'[c] = p

Fairness ==
    /\ WF_vars(ServerStart /\ UNCHANGED clientVars)
    /\ WF_vars(CallbackReturns /\ UNCHANGED clientVars)
    /\ \A p \in Conn : SF_vars(PeerProgress(p) /\ UNCHANGED clientVars)
    /\ \A c \in Client : /\ WF_vars(ClientProgress(c) /\ UNCHANGED serverVars)
                         /\ SF_vars(Connects(c) /\ UNCHANGED serverVars)

FairSpec == Spec /\ Fairness

TypeOK == LinkTypeOK /\ ServerTypeOK /\ ClientTypeOK

-----------------------------------------------------------------------------
(***************************************************************************)
(* Safety.                                                                 *)
(***************************************************************************)

\* srv->n_peers_connected counts the connected peers: obus_server_*_object and
\* obus_server_send_event skip the broadcast when it is zero.
PeerCount == npeers = Cardinality(Connected)

\* A client that has read everything its peer has written has the server's
\* objects, with the server's info.
Converged ==
    \A c \in Client :
        /\ cstate[c] = "CONNECTED"
        /\ peer[conn[c]] = "CONNECTED"
        /\ conn[c] \notin broken
        /\ Incoming(c) = <<>>
        => replica[c] = ServerView

\* The two ends of a connection agree on how the handshake ended, and a client
\* that waits for its answer will find it at the head of its channel.
HandshakeAgrees ==
    \A c \in Client : conn[c] # None =>
        /\ cstate[c] = "CONNECTED" => peer[conn[c]] \in {"CONNECTED", "closed"}
        /\ cstate[c] = "REFUSED" => peer[conn[c]] \in {"REFUSED", "closed"}
        /\ cstate[c] = "CONNECTING" /\ Incoming(c) # <<>> => Head(Incoming(c)).type = "CONRESP"

\* The server runs methods and acknowledges calls without looking at the state
\* of the peer: only connected peers can have a call on its way.
CallsFromConnectedPeers ==
    \A p \in Conn : \A i \in 1..Len(c2s[p]) :
        c2s[p][i].type = "CALL" => peer[p] = "CONNECTED"

\* A client only waits for calls on objects it has, and only while connected:
\* removing the objects is what aborts the calls.
PendingCallsHaveObjects ==
    \A c \in Client, k \in CallHandle : pending[c][k] # None =>
        /\ cstate[c] = "CONNECTED"
        /\ replica[c][pending[c][k]] # None

\* Packet m takes h from the objects of a client.
Removes(m, h) ==
    \/ m.type = "REMOVE" /\ m.h = h
    \/ m.type = "BUS_EVENT" /\ h \in m.rem

\* Packets on the way to c that complete its call k on h.
Completes(m, k, h) == (m.type = "ACK" /\ m.k = k) \/ Removes(m, h)

\* No call is orphaned: the server has still to read it, is handling it and
\* has not answered it, or has sent the packet that will complete it.
NoOrphanCall ==
    \A c \in Client, k \in CallHandle :
        LET p == conn[c]
            h == pending[c][k]
        IN  /\ h # None
            /\ peer[p] # "closed"
            /\ p \notin broken
            => \/ \E i \in 1..Len(c2s[p]) : c2s[p][i] = CallPacket(k, h)
               \/ ctx = Method(p, k, h) /\ srvcall = ctx
               \/ \E i \in 1..Len(s2c[p]) : Completes(s2c[p][i], k, h)

\* No client is sent a REMOVE for an object it does not have.
NoClientCrash == \A c \in Client : cstate[c] # "crashed"

\* A client's objects only change to what the server had when it sent the
\* packet, all at once, or to nothing when the client disconnects.
ReplicaFollowsServer ==
    [][\A c \in Client : replica'[c] # replica[c] =>
          \/ replica'[c] = EmptyView /\ conn'[c] = None
          \/ Incoming(c) # <<>> /\ replica'[c] = Head(Incoming(c)).after]_vars

\* obus_server_get_call_peer promises that the peer of a call can be used in
\* the method handler.
CallPeerUsable == ctx.at = "method" => ctx.p # None

-----------------------------------------------------------------------------
(***************************************************************************)
(* What the safety properties rest on: together with TypeOK and PeerCount, *)
(* an inductive invariant.                                                 *)
(***************************************************************************)

\* A callback is about a live peer, in the state its handler left it in.
CallbackPeers ==
    /\ ctx.at = "connecting" => ctx.p \in Conn /\ peer[ctx.p] \in {"CONNECTING", "REFUSED"}
    /\ ctx.at # "connecting" /\ ctx.p # None => peer[ctx.p] = "CONNECTED"
    /\ srvcall.p # None => peer[srvcall.p] = "CONNECTED"

\* A connection has one client, and what a client knows lasts as long as its
\* connection; closed ends have nothing to read.
Links ==
    /\ \A c, d \in Client : conn[c] # None /\ conn[c] = conn[d] => c = d
    /\ \A c \in Client : conn[c] # None => cstate[c] \in {"CONNECTING", "CONNECTED", "REFUSED"}
    /\ \A c \in Client : cstate[c] \in {"CONNECTED", "REFUSED"} => conn[c] # None
    /\ \A c \in Client : cstate[c] # "CONNECTED" => replica[c] = EmptyView
    /\ \A p \in Conn : peer[p] = "closed" => c2s[p] = <<>>
    /\ \A p \in Conn : ~Open(p) => s2c[p] = <<>>
    /\ \A p \in broken : peer[p] \in {"CONNECTED", "closed"}

\* The server has not answered the connection request of p yet.
Unanswered(p) ==
    \/ peer[p] \in {"backlog", "IDLE", "CONNECTING"}
    \/ ctx.at = "connecting" /\ ctx.p = p

\* What is on its way to a client, in each state of the handshake.
AnswersTo(c) ==
    LET p == conn[c]
        q == s2c[p]
    IN  /\ \A i \in 1..Len(q) : q[i].type = "CONRESP" => i = 1 /\ cstate[c] = "CONNECTING"
        /\ Unanswered(p) => q = <<>> /\ cstate[c] = "CONNECTING"
        /\ cstate[c] = "CONNECTED" => peer[p] \in {"CONNECTED", "closed"}
        /\ cstate[c] = "REFUSED" => peer[p] \in {"REFUSED", "closed"} /\ q = <<>>
        /\ cstate[c] = "CONNECTING" =>
             /\ peer[p] = "CONNECTED" => q # <<>>
             /\ q # <<>> =>
                  /\ q[1].type = "CONRESP"
                  /\ q[1].accepted => peer[p] \in {"CONNECTED", "closed"}
                  /\ ~q[1].accepted => peer[p] \in {"REFUSED", "closed"} /\ Len(q) = 1

Answers == \A c \in Client : conn[c] # None => AnswersTo(c)

\* Packet m takes a client from view to what the server had when it sent m.
Leads(view, m) ==
    /\ Apply(view, m) = m.after
    /\ m.type = "REMOVE" => view[m.h] # None

\* The packets on their way to a client lead it, one by one, to the server's
\* view of the bus.
Follows(c) ==
    LET p == conn[c]
        q == s2c[p]
    IN  /\ q # <<>> /\ (q[1].type = "CONRESP" => q[1].accepted) => Leads(replica[c], q[1])
        /\ \A i \in 1..(Len(q) - 1) : Leads(q[i].after, q[i + 1])
        /\ peer[p] = "CONNECTED" /\ p \notin broken =>
             ServerView = IF q = <<>> THEN replica[c] ELSE q[Len(q)].after

Replication == \A c \in Client : conn[c] # None => Follows(c)

\* What a client has before it reads anything more, and after i packets.
Seen(c, i) == IF i = 0 THEN replica[c] ELSE Incoming(c)[i].after

\* An object that c has, or will have on its way to the server's view, and
\* that the server has unregistered: its removal is on its way too.
AnnouncedTo(c) ==
    \A i \in 0..Len(Incoming(c)), h \in Handle :
        Seen(c, i)[h] # None /\ ServerView[h] = None =>
            \E j \in (i + 1)..Len(Incoming(c)) : Removes(Incoming(c)[j], h)

Announced ==
    \A c \in Client :
        conn[c] # None /\ peer[conn[c]] = "CONNECTED" /\ conn[c] \notin broken => AnnouncedTo(c)

\* The handshake is right whatever fails; the replicas are, as long as no
\* allocation fails in the server.
Inductive ==
    /\ TypeOK /\ PeerCount /\ CallbackPeers /\ Links
    /\ Answers /\ CallsFromConnectedPeers
    /\ oom = 0 => Replication /\ Announced /\ NoClientCrash

-----------------------------------------------------------------------------
(***************************************************************************)
(* Liveness.                                                               *)
(***************************************************************************)

\* Every call ends: its status callback is called, with the answer of the
\* server or because the object or the connection has gone.
CallsEnd ==
    \A c \in Client, k \in CallHandle : pending[c][k] # None ~> pending[c][k] = None

\* An end is closed while the other one is still there.
Fault ==
    \/ \E p \in Conn : peer[p] # "closed" /\ peer'[p] = "closed" /\ Open(p)
    \/ \E c \in Client : conn[c] # None /\ conn'[c] = None /\ peer[conn[c]] # "closed"
    \/ broken' # broken
    \/ \E p \in Conn : peer[p] = "closed" /\ peer'[p] = "backlog" /\ UNCHANGED conn

\* Once connections stop failing, a client that wants to connect is connected
\* or refused, however many connections it lost before.
ClientsConnect ==
    <>[][~Fault]_vars =>
        \A c \in Client : cstate[c] = "CONNECTING" ~> cstate[c] # "CONNECTING"

-----------------------------------------------------------------------------
(***************************************************************************)
(* What the code does not do, although its comments suggest it: TLC finds  *)
(* a counterexample to each of these (see the README).                     *)
(***************************************************************************)

\* OBUS_CALL_ACKED promises that the server has parsed the arguments of the
\* call: an acknowledgement on its way answers the call that waits for it.
AckAnswersCall ==
    \A c \in Client : conn[c] # None =>
        \A i \in 1..Len(Incoming(c)) :
            LET m == Incoming(c)[i]
            IN  m.type = "ACK" /\ m.st = "ACKED" => pending[c][m.k] \in {None, m.h}

=============================================================================
