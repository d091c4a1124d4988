--------------------------- MODULE MCObusPlatform ---------------------------
(***************************************************************************)
(* What the library builds on, the decoder of packets with its buffers,    *)
(* sockets, the loop and timers, and the two applications that are built   *)
(* on it, for TLC.  They do not share state; in a behaviour one of them    *)
(* runs, the others stay as they begin.                                    *)
(***************************************************************************)
EXTENDS Integers, Sequences

CONSTANTS
    Parts,                                     \* the components that may run
    short, long, alien, Bad, BufSize,          \* of ObusDecoder
    Servers, NONE, MaxFd, MaxReconnects, MaxStarts, MaxFails,  \* of ObusSocket
    MaxConns,                                  \* of ObusLoop
    Timers,                                    \* of ObusTimer
    eth, Names, Iface, Cmd, MaxNetChanges,     \* of ObusNet
    Pids, ClockSteps, MaxPsChanges, Failures, MaxPsFails  \* of ObusPs

VARIABLES
    part,                                                       \* the component that runs
    up, dconns, sent, wire, eof, rx, hdr, more, ctl, got, free, calls,  \* ObusDecoder
    cl, fds, sv, name, avail, n,                                \* ObusSocket
    posix, conns, table, ready, hup, batch, i, j, ret, pc, cur, changes,  \* ObusLoop
    timerfd, armed, signal, count, event, calling, sets, wanted,  \* ObusTimer
    sys, netChanges, netObjs, born, netPc, listed, netTodo, asked, netStale, queue, call,
    netCl,                                                      \* ObusNet
    procs, used, psChanges, mode, rate, timer, summary, objs, psPc, todo, hist, seen, et, evt,
    stale, fails, psCalls                                       \* ObusPs

decoderVars == <<up, dconns, sent, wire, eof, rx, hdr, more, ctl, got, free, calls>>
socketVars == <<cl, fds, sv, name, avail, n>>
loopVars == <<posix, conns, table, ready, hup, batch, i, j, ret, pc, cur, changes>>
timerVars == <<timerfd, armed, signal, count, event, calling, sets, wanted>>
netVars == <<sys, netChanges, netObjs, born, netPc, listed, netTodo, asked, netStale, queue,
             call, netCl>>
psVars == <<procs, used, psChanges, mode, rate, timer, summary, objs, psPc, todo, hist, seen,
            et, evt, stale, fails, psCalls>>
vars == <<part, decoderVars, socketVars, loopVars, timerVars, netVars, psVars>>

-----------------------------------------------------------------------------
Size == [k \in {short, long, alien} \cup Bad |-> IF k = long THEN 7 ELSE 4]

\* Many packets on a connection, and connections that follow one another.
Stream == INSTANCE ObusDecoder
    WITH Good <- {short, long}, Alien <- {alien}, HdrSize <- 3,
         MaxPackets <- 3, MaxConns <- 1, MaxCalls <- 0, conns <- dconns
Reconnect == INSTANCE ObusDecoder
    WITH Good <- {short, long}, Alien <- {alien}, HdrSize <- 3, BufSize <- 4,
         MaxPackets <- 2, MaxConns <- 3, MaxCalls <- 1, conns <- dconns

Sockets == INSTANCE ObusSocket
    WITH Family <- "inet", Backlog <- 2, MaxPeers <- 2,
         Addresses <- {[family |-> TRUE, colon |-> TRUE, port |-> TRUE, host |-> TRUE]}

EventLoop == INSTANCE ObusLoop WITH Addr <- {1, 2}, MaxChanges <- 2

Clock == INSTANCE ObusTimer WITH MaxSets <- 2

Net == INSTANCE ObusNet
    WITH Fields <- {"ip", "netmask"}, MaxChanges <- MaxNetChanges, MaxDrops <- 1,
         changes <- netChanges, objs <- netObjs, pc <- netPc, todo <- netTodo,
         stale <- netStale, cl <- netCl

\* Processes whose numbers are used again, with the failures of the run; and others
\* for whose ticks a lost event makes no difference.
Ps == INSTANCE ObusPs
    WITH Cpus <- 2, Wrap <- 8, MaxTics <- 2, MaxCalls <- 2, Reuse <- TRUE,
         MaxChanges <- MaxPsChanges, MaxFails <- MaxPsFails,
         changes <- psChanges, pc <- psPc, calls <- psCalls
Tics == INSTANCE ObusPs
    WITH Cpus <- 2, Wrap <- 8, MaxTics <- 2, MaxCalls <- 2, Reuse <- FALSE, ClockSteps <- FALSE,
         MaxChanges <- 4, Failures <- {"bus event"}, MaxFails <- 1,
         changes <- psChanges, pc <- psPc, calls <- psCalls

ASSUME /\ Stream!DecoderAssumption /\ Reconnect!DecoderAssumption
       /\ Sockets!SocketAssumption /\ EventLoop!LoopAssumption /\ Clock!TimerAssumption
       /\ Net!NetAssumption /\ Ps!PsAssumption /\ Tics!PsAssumption

-----------------------------------------------------------------------------
Init ==
    /\ part \in Parts
    /\ IF part = "reconnect" THEN Reconnect!Init ELSE Stream!Init
    /\ Sockets!Init /\ EventLoop!Init /\ Clock!Init /\ Net!Init /\ Ps!Init
    /\ part # "sockets" => avail
    /\ part # "loop" => posix
    /\ part # "timers" => timerfd
    /\ part # "net" => \A x \in Names : ~sys[x].here

Next ==
    \/ /\ part = "stream" /\ Stream!Next
       /\ UNCHANGED <<part, socketVars, loopVars, timerVars, netVars, psVars>>
    \/ /\ part = "reconnect" /\ Reconnect!Next
       /\ UNCHANGED <<part, socketVars, loopVars, timerVars, netVars, psVars>>
    \/ /\ part = "sockets" /\ Sockets!Next
       /\ UNCHANGED <<part, decoderVars, loopVars, timerVars, netVars, psVars>>
    \/ /\ part = "loop" /\ EventLoop!Next
       /\ UNCHANGED <<part, decoderVars, socketVars, timerVars, netVars, psVars>>
    \/ /\ part = "timers" /\ Clock!Next
       /\ UNCHANGED <<part, decoderVars, socketVars, loopVars, netVars, psVars>>
    \/ /\ part = "net" /\ Net!Next
       /\ UNCHANGED <<part, decoderVars, socketVars, loopVars, timerVars, psVars>>
    \/ /\ part = "ps" /\ Ps!Next
       /\ UNCHANGED <<part, decoderVars, socketVars, loopVars, timerVars, netVars>>
    \/ /\ part = "tics" /\ Tics!Next
       /\ UNCHANGED <<part, decoderVars, socketVars, loopVars, timerVars, netVars>>

Spec == Init /\ [][Next]_vars

\* The fairness of the components; one that does not run has nothing to do.
FairPlatform ==
    Spec /\ Stream!Fairness /\ Sockets!Fairness /\ EventLoop!Fairness /\ Clock!Fairness

\* The applications always have something to do: the fairness is that of the one
\* that runs.
FairExamples ==
    /\ Spec
    /\ WF_netVars(part = "net" /\ Net!Server) /\ SF_netVars(part = "net" /\ Net!ScanNetwork)
    /\ SF_netVars(part = "net" /\ Net!CallOfClient)
    /\ WF_netVars(part = "net" /\ Net!Receive) /\ SF_netVars(part = "net" /\ Net!Connect)
    /\ WF_psVars(part = "ps" /\ Ps!Scan)

-----------------------------------------------------------------------------
(***************************************************************************)
(* The properties of the components.                                       *)
(***************************************************************************)

\* The header that obus_packet_decoder_read remembers is that of the packet at the
\* start of the buffer, and the packets are returned in the order in which they were
\* sent, none twice, also over several connections.
InOrder == Stream!HeaderAtStart /\ Stream!InOrder

\* The first connection of a process passes over no packet that can be decoded,
\* whatever the pieces in which it arrives and whatever precedes it.
NothingSkipped == part = "stream" => Stream!NothingSkipped

\* A client has at most one attempt to connect under way, and one as long as it is
\* not connected and nothing has failed; its descriptor in the loop is open and its
\* own.  A server has a descriptor for its address and one for each peer, whatever
\* fails (obus_socket.c).
OneAttempt == Sockets!OneAttempt /\ Sockets!WatchedOpen /\ Sockets!ServerDescriptors

\* A handler is called only for what is in the table of the loop at that moment, where
\* each obus_fd has a descriptor of its own (obus_loop.c, obus_loop_posix.c).
CalledInTable == EventLoop!CalledInTable /\ EventLoop!Descriptors

\* The walk over the events stays inside the array that the kernel has filled.
WalkInArray == EventLoop!WalkInArray

\* With a timerfd, a callback runs only for a timer that is set.
NoLateCallback == Clock!NoLateCallback

\* After a quiet scan of netd.c the interfaces that are published are those there
\* are, and the method that a client may call changes the state it sees.
Published == part = "net" => Net!Published /\ Net!MethodsFollowState

\* After a quiet scan of psd.c that was sent the objects are the processes there are,
\* and the summary counts them; while every event of the summary can be allocated it
\* shows the mode and the rate in force.
ProcessesPublished ==
    /\ part \in {"ps", "tics"} => Ps!ProcessesPublished
    /\ part = "tics" => Tics!SummaryTrue

\* The share of a process is that of the ticks since it was read before, also when
\* a scan in between could not be sent.
TicsOfProcess == [][part = "tics" => Tics!TicsSinceRead]_vars

\* A packet that has arrived is returned, even if nothing arrives after it.
Delivered == Stream!Delivered

\* A client keeps trying until it is connected, as long as a server is there.
ClientConnects == Sockets!ClientConnects

\* A server whose address is not there yet listens once it is.
ServerListens == Sockets!ServerListens

\* An obus_fd that is ready gets its turn.
Served == EventLoop!Served

\* A timer that is set is called back, unless it is cleared or set for ever, with a
\* timerfd and with signals.
Fires == Clock!Fires

\* Once the kernel is quiet a monitor shows the interfaces there are, for good, unless
\* one went between netif_scan and create_interface: printing that one ends the
\* monitor (netclient.c:232).
MonitorFollows == part = "net" => Net!MonitorFollows

\* Once processes are quiet the objects follow for good.
ProcessesFollow == part = "ps" => Ps!ProcessesFollow

=============================================================================
