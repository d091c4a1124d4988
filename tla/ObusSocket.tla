------------------------------ MODULE ObusSocket ----------------------------
(***************************************************************************)
(* Sockets (obus_socket.c): a client that connects and reconnects, and     *)
(* servers that bind one address, listen and accept, each in a process of  *)
(* its own with its event loop.  Two servers are the old and the new       *)
(* process when a service is restarted.                                    *)
(*                                                                         *)
(* The kernel is modelled as the code uses it: the descriptors of the      *)
(* client, the state of each socket, the name under which a server is      *)
(* found.  What is on a connection is the matter of ObusLink.              *)
(***************************************************************************)
EXTENDS Integers

CONSTANTS
    Servers,     \* server processes
    NONE,        \* no server
    Family,      \* "unix", a file, or "inet"
    Addresses,   \* addresses a client may be given: records of what is right in them
    MaxFd,       \* descriptors of the client
    Backlog,     \* connections that wait to be accepted (10 in the code)
    MaxPeers,    \* bound: accepted connections of a server
    MaxReconnects, \* bound: connections that the client gives up
    MaxStarts,   \* bound: starts of servers
    MaxFails     \* bound: system calls that fail

SocketAssumption ==
    /\ Family \in {"unix", "inet"}
    /\ Addresses \subseteq [family : BOOLEAN, colon : BOOLEAN, port : BOOLEAN, host : BOOLEAN]
    /\ {MaxFd, Backlog, MaxPeers} \subseteq Nat \ {0}
    /\ {MaxReconnects, MaxStarts, MaxFails} \subseteq Nat
    /\ MaxFd > MaxReconnects + 1

VARIABLES
    cl,      \* struct obus_socket_client: exists, addr, timer (set or not), fd
             \* (0 for -1), ofd (the descriptor in the loop, or 0), and up: the
             \* user was told that it is connected
    fds,     \* the state of each descriptor of the client
    sv,      \* struct obus_socket_server of each process: exists, timer, fd
             \* ("closed", "open", "listening"), ofd (in the loop), queue
             \* (connections to accept), peers, open (descriptors in use)
    name,    \* the server that the address leads to
    avail,   \* is the address that of an interface
    n        \* counters: reconnects, starts, fails

vars == <<cl, fds, sv, name, avail, n>>

Fds == 1..MaxFd
NoClient == [exists |-> FALSE, addr |-> NONE, timer |-> FALSE,
             fd |-> 0, ofd |-> 0, up |-> FALSE]
NoServer == [exists |-> FALSE, timer |-> FALSE, fd |-> "closed", ofd |-> FALSE,
             queue |-> 0, peers |-> 0, open |-> 0]

Init ==
    /\ cl = NoClient
    /\ fds = [f \in Fds |-> "closed"]
    /\ sv = [s \in Servers |-> NoServer]
    /\ name = NONE
    /\ avail \in {TRUE, Family = "unix"}
    /\ n = [reconnects |-> 0, starts |-> 0, fails |-> 0]

MayFail == n.fails < MaxFails
Failing == [n EXCEPT !.fails = @ + 1]

-----------------------------------------------------------------------------
(***************************************************************************)
(* The client.                                                             *)
(***************************************************************************)

Right(a) == a.family /\ a.colon /\ a.port /\ a.host

\* obus_socket_addr_init_from_string: without a known family, or without a
\* colon before the port, it fails; a port or a host that is wrong is logged,
\* and the result is 0 as well.
Parsed(a) == a.family /\ a.colon

\* obus_socket_client_new: the first attempt comes with the timer.
ClientNew(a) ==
    /\ ~cl.exists
    /\ Parsed(a)
    /\ cl' = [NoClient EXCEPT !.exists = TRUE, !.addr = a, !.timer = TRUE]
    /\ UNCHANGED <<fds, sv, name, avail, n>>

\* The kernel gives the lowest descriptor that is not in use.
LowestOf(d) ==
    CHOOSE f \in Fds : d[f] = "closed" /\ \A g \in Fds : d[g] = "closed" => f <= g
Lowest == LowestOf(fds)

\* Can a connection be queued at the server the address leads to?
Reachable ==
    /\ Right(cl.addr) /\ name # NONE
    /\ sv[name].fd = "listening" /\ sv[name].queue < Backlog
Queued == [sv EXCEPT ![name].queue = @ + 1]

\* obus_socket_client_connected: the user gets the descriptor.
Connected(c) == [c EXCEPT !.up = TRUE]

\* Mutant: the timer is not set.
RetryOnce(c) == [c EXCEPT !.fd = 0, !.ofd = 0]

\* A failed attempt: the timer is set again.
Retry(c) == [c EXCEPT !.fd = 0, !.ofd = 0, !.timer = TRUE]

\* obus_socket_connect_timer_cb and obus_socket_client_do_connect: connect may
\* succeed, go on or fail.  A socket the client already has is forgotten.
ConnectTimer ==
    /\ cl.timer
    /\ LET c == [cl EXCEPT !.timer = FALSE, !.fd = Lowest] IN
        \/ /\ Reachable
           /\ cl' = Connected(c) /\ sv' = Queued
           /\ fds' = [fds EXCEPT ![Lowest] = "connected"]
        \/ /\ cl' = [c EXCEPT !.ofd = Lowest]
           /\ fds' = [fds EXCEPT ![Lowest] = "progress"]
           /\ UNCHANGED sv
        \/ /\ ~Reachable
           /\ cl' = Retry(c)
           /\ UNCHANGED <<fds, sv>>
    /\ UNCHANGED <<name, avail, n>>

\* obus_socket_base_open fails: the timer is not set again.
ConnectTimerOpenFails ==
    /\ cl.timer /\ MayFail
    /\ cl' = [cl EXCEPT !.timer = FALSE]
    /\ n' = Failing
    /\ UNCHANGED <<fds, sv, name, avail>>

\* The connection is in progress but its socket cannot be added to the loop, which
\* is not looked at: nobody hears of its end.
ConnectTimerAddFails ==
    /\ cl.timer /\ MayFail
    /\ cl' = [cl EXCEPT !.timer = FALSE, !.fd = Lowest]
    /\ fds' = [fds EXCEPT ![Lowest] = "progress"]
    /\ n' = Failing
    /\ UNCHANGED <<sv, name, avail>>

\* The kernel ends a connection attempt.
Established(f) ==
    /\ fds[f] = "progress"
    /\ \/ /\ Reachable
          /\ fds' = [fds EXCEPT ![f] = "connected"] /\ sv' = Queued
          /\ UNCHANGED n
       \/ /\ ~Reachable \/ MayFail
          /\ fds' = [fds EXCEPT ![f] = "failed"]
          /\ n' = IF Reachable THEN Failing ELSE n
          /\ UNCHANGED sv
    /\ UNCHANGED <<cl, name, avail>>

\* obus_socket_client_events
ClientEvents ==
    /\ cl.ofd # 0 /\ fds[cl.ofd] \in {"connected", "failed"}
    /\ \/ /\ fds[cl.ofd] = "connected"
          /\ cl' = Connected([cl EXCEPT !.ofd = 0])
          /\ UNCHANGED fds
       \/ /\ fds[cl.ofd] = "failed"
          /\ fds' = [fds EXCEPT ![cl.fd] = "closed"]
          /\ cl' = Retry(cl)
    /\ UNCHANGED <<sv, name, avail, n>>

\* obus_socket_base_close
Closed(c, d) == IF c.fd = 0 THEN d ELSE [d EXCEPT ![c.fd] = "closed"]

\* obus_socket_client_reconnect, which the user of the socket calls when it is
\* connected and wants or needs another connection.  It opens a socket.
Reconnect ==
    /\ cl.up /\ n.reconnects < MaxReconnects
    /\ LET d == Closed(cl, fds)
       IN  /\ fds' = [d EXCEPT ![LowestOf(d)] = "idle"]
           /\ cl' = [cl EXCEPT !.up = FALSE, !.ofd = 0, !.fd = LowestOf(d), !.timer = TRUE]
    /\ n' = [n EXCEPT !.reconnects = @ + 1]
    /\ UNCHANGED <<sv, name, avail>>

\* It cannot open a socket, and returns.
ReconnectOpenFails ==
    /\ cl.up /\ n.reconnects < MaxReconnects /\ MayFail
    /\ fds' = Closed(cl, fds)
    /\ cl' = [cl EXCEPT !.up = FALSE, !.ofd = 0, !.fd = 0, !.timer = FALSE]
    /\ n' = [Failing EXCEPT !.reconnects = @ + 1]
    /\ UNCHANGED <<sv, name, avail>>

\* obus_socket_client_destroy
ClientDestroy ==
    /\ cl.exists
    /\ fds' = Closed(cl, fds)
    /\ cl' = NoClient
    /\ UNCHANGED <<sv, name, avail, n>>

-----------------------------------------------------------------------------
(***************************************************************************)
(* The servers.                                                            *)
(***************************************************************************)

Bound(s) == [sv EXCEPT ![s].exists = TRUE, ![s].timer = FALSE,
                       ![s].fd = "listening", ![s].ofd = TRUE, ![s].open = @ + 1]

\* bind fails with EADDRINUSE: not for a file, which was unlinked before.
InUse ==
    /\ Family = "inet" /\ avail
    /\ \E t \in Servers : sv[t].fd = "listening"

\* obus_socket_server_bind, from obus_socket_server_new or from the timer: the
\* address is bound.
BindListens(s) ==
    /\ avail /\ ~InUse
    /\ sv' = Bound(s)
    /\ name' = s
\* Mutant: the timer is not set again.
BindRetriesOnce(s) ==
    /\ ~avail
    /\ sv' = [sv EXCEPT ![s].exists = TRUE, ![s].timer = ~sv[s].exists]
    /\ UNCHANGED name

\* There is no interface with the address: the timer tries again.
BindRetries(s) ==
    /\ ~avail
    /\ sv' = [sv EXCEPT ![s].exists = TRUE, ![s].timer = TRUE]
    /\ UNCHANGED name

ServerNew(s) ==
    /\ ~sv[s].exists /\ n.starts < MaxStarts
    /\ BindListens(s) \/ BindRetries(s)
    /\ n' = [n EXCEPT !.starts = @ + 1]
    /\ UNCHANGED <<cl, fds, avail>>

\* A socket, a bind or the loop fails: there is no server, but for a file the one
\* that was there may be gone.
ServerNewFails(s) ==
    /\ ~sv[s].exists /\ n.starts < MaxStarts /\ (InUse \/ MayFail)
    /\ name' \in {name} \cup (IF Family = "unix" THEN {NONE} ELSE {})
    /\ n' = [(IF InUse THEN n ELSE Failing) EXCEPT !.starts = @ + 1]
    /\ UNCHANGED <<cl, fds, sv, avail>>

\* obus_socket_bind_timer_cb
BindTimer(s) ==
    /\ sv[s].timer
    /\ BindListens(s) \/ BindRetries(s)
    /\ UNCHANGED <<cl, fds, avail, n>>

\* The bind of the timer fails otherwise: nobody hears of it.
BindTimerFails(s) ==
    /\ sv[s].timer /\ (InUse \/ MayFail)
    /\ sv' = [sv EXCEPT ![s].timer = FALSE]
    /\ n' = IF InUse THEN n ELSE Failing
    /\ UNCHANGED <<cl, fds, name, avail>>

\* obus_socket_server_events: a connection is accepted.  If accept fails it waits on,
\* and if a call or an allocation fails later it is closed.
Accept(s) ==
    /\ sv[s].ofd /\ sv[s].queue > 0 /\ sv[s].peers < MaxPeers
    /\ \/ /\ sv' = [sv EXCEPT ![s].queue = @ - 1, ![s].peers = @ + 1, ![s].open = @ + 1]
          /\ UNCHANGED n
       \/ /\ MayFail /\ n' = Failing
          /\ \E left \in {sv[s].queue - 1, sv[s].queue} : sv' = [sv EXCEPT ![s].queue = left]
    /\ UNCHANGED <<cl, fds, name, avail>>

\* An error on the listening socket: it leaves the loop.
ListenError(s) ==
    /\ sv[s].ofd /\ MayFail
    /\ sv' = [sv EXCEPT ![s].ofd = FALSE]
    /\ n' = Failing
    /\ UNCHANGED <<cl, fds, name, avail>>

\* obus_socket_peer_disconnect
PeerDisconnect(s) ==
    /\ sv[s].peers > 0
    /\ sv' = [sv EXCEPT ![s].peers = @ - 1, ![s].open = @ - 1]
    /\ UNCHANGED <<cl, fds, name, avail, n>>

\* obus_socket_server_destroy: refused while there are peers.  The file is
\* unlinked, whosever it is.
ServerDestroy(s) ==
    /\ sv[s].exists /\ sv[s].peers = 0
    /\ sv' = [sv EXCEPT ![s] = [NoServer EXCEPT !.open =
                sv[s].open - (IF sv[s].fd = "listening" THEN 1 ELSE 0)]]
    /\ name' = IF Family = "unix" \/ name = s THEN NONE ELSE name
    /\ UNCHANGED <<cl, fds, avail, n>>

\* The process of a server ends without it: the file stays.
ServerCrash(s) ==
    /\ sv[s].exists /\ MayFail
    /\ sv' = [sv EXCEPT ![s] = NoServer]
    /\ n' = Failing
    /\ UNCHANGED <<cl, fds, name, avail>>

\* The address becomes that of an interface.
InterfaceUp ==
    /\ ~avail
    /\ avail' = TRUE
    /\ UNCHANGED <<cl, fds, sv, name, n>>

Next ==
    \/ \E a \in Addresses : ClientNew(a)
    \/ ConnectTimer \/ ConnectTimerOpenFails \/ ConnectTimerAddFails
    \/ \E f \in Fds : Established(f)
    \/ ClientEvents \/ Reconnect \/ ReconnectOpenFails \/ ClientDestroy
    \/ \E s \in Servers :
          \/ ServerNew(s) \/ ServerNewFails(s) \/ BindTimer(s) \/ BindTimerFails(s) \/ Accept(s)
          \/ ListenError(s) \/ PeerDisconnect(s) \/ ServerDestroy(s) \/ ServerCrash(s)
    \/ InterfaceUp

Spec == Init /\ [][Next]_vars

\* The loops run, the timers expire, the kernel answers, the interface comes up.
Fairness ==
    /\ WF_vars(ConnectTimer) /\ WF_vars(ClientEvents) /\ WF_vars(InterfaceUp)
    /\ \A f \in Fds : WF_vars(Established(f))
    /\ \A s \in Servers : WF_vars(BindTimer(s)) /\ WF_vars(Accept(s)) /\ WF_vars(PeerDisconnect(s))

FairSpec == Spec /\ Fairness

-----------------------------------------------------------------------------
(***************************************************************************)
(* Properties.                                                             *)
(***************************************************************************)

\* What brings the client to a connection, or is one.
Attempts == {x \in {"timer", "loop", "up"} :
               \/ x = "timer" /\ cl.timer
               \/ x = "loop" /\ cl.ofd # 0
               \/ x = "up" /\ cl.up}

\* A client that is not connected has one attempt ahead of it or under way: the
\* timer is set, or its socket is in the loop, and never both.  It may cease to
\* have any only after a system call has failed.
OneAttempt ==
    cl.exists =>
        /\ \A x, y \in Attempts : x = y
        /\ n.fails = 0 => Attempts # {}

\* A server has a descriptor for its address and one for each peer, whatever
\* fails while connections are accepted.
ServerDescriptors ==
    \A s \in Servers :
        sv[s].open = sv[s].peers + (IF sv[s].fd = "listening" THEN 1 ELSE 0)

\* The descriptor in the loop is open and the client's own: none is closed, or
\* forgotten for another one, while the loop watches it.
WatchedOpen ==
    /\ cl.ofd # 0 => cl.ofd = cl.fd /\ fds[cl.ofd] \in {"progress", "connected", "failed"}
    /\ cl.up => cl.fd # 0 /\ fds[cl.fd] = "connected"

\* A client keeps trying until it is connected, as long as a server is there
\* (obus_socket_client_reconnect: "disconnect & try to reconnect").
ClientConnects ==
    (<>[](\E s \in Servers : name = s /\ sv[s].fd = "listening" /\ sv[s].ofd) /\ <>[](cl.exists))
        => []<>(cl.up)

\* A server whose address is not there yet binds it once it is, if no other has
\* done so.
ServerListens ==
    \A s \in Servers : sv[s].timer ~> (sv[s].fd = "listening" \/ ~sv[s].exists)

-----------------------------------------------------------------------------
(***************************************************************************)
(* What the code does not do, although its comments suggest it: TLC finds  *)
(* a counterexample to each of these (see the README).                     *)
(***************************************************************************)

\* obus_socket_client_new accepts an address only if it could parse it.
AddressParsed == cl.exists => Right(cl.addr)

\* The only open socket of a client is the one it holds.
OneSocket == \A f \in Fds : fds[f] # "closed" => f = cl.fd

\* A server that listens and has the newest claim to the address is found there.
Found ==
    (\E s \in Servers : sv[s].fd = "listening") =>
        name # NONE /\ sv[name].fd = "listening"

=============================================================================
