------------------------------- MODULE ObusNet ------------------------------
(***************************************************************************)
(* The network example: netd.c publishes the interfaces of its host as     *)
(* objects and sets them up or down when called, netclient.c shows them or *)
(* calls them.  The kernel changes interfaces at any moment, also between  *)
(* two steps of a scan.                                                    *)
(*                                                                         *)
(* The bus is a queue from the server to the client that begins with the   *)
(* objects there are when the client connects; ObusBus shows that the      *)
(* library provides this.                                                  *)
(***************************************************************************)
EXTENDS Naturals, Sequences

CONSTANTS
    Names,       \* of interfaces
    Iface,       \* the interface that the client calls
    Fields,      \* of "ip", "hw", "broadcast" and "netmask"
    Cmd,         \* the command of the client: "list", "monitor", "up" or "down"
    MaxChanges,  \* bound: changes that the kernel makes
    MaxDrops     \* bound: connections that are lost

NetAssumption ==
    /\ Iface \in Names /\ Fields \subseteq {"ip", "hw", "broadcast", "netmask"}
    /\ Cmd \in {"list", "monitor", "up", "down"} /\ MaxChanges \in Nat /\ MaxDrops \in Nat

VARIABLES
    sys,      \* the interfaces: here, up, addr (0 for none), traffic <<sent, received>>
    changes,  \* how often the kernel has changed them
    objs,     \* the registered object of each name, or Absent
    born,     \* objects created so far
    pc,       \* of the server: "boot", "poll", "scan", "sweep", "traffic", "update"
    listed,   \* the names that netif_scan has found
    todo,     \* the names that a loop has to visit
    asked,    \* the arguments of the call that is being handled
    stale,    \* has the kernel changed something since the scan began
    queue,    \* what the client has not read
    call,     \* the object the client calls, on its way to the server, or 0
    cl        \* the client

srvVars == <<objs, born, pc, listed, todo, asked, stale>>
vars == <<sys, changes, srvVars, queue, call, cl>>

Absent == [id |-> 0]
Off == [n \in Names |-> Absent]

Init ==
    /\ sys \in [Names -> [here : BOOLEAN, up : {FALSE}, addr : {[f \in Fields |-> 0]},
                          traffic : {<<0, 0>>}]]
    /\ objs = Off /\ born = 0 /\ changes = 0
    /\ pc = "boot" /\ listed = {} /\ todo = {} /\ asked = {} /\ stale = TRUE
    /\ queue = <<>> /\ call = 0
    /\ cl = [conn |-> FALSE, drops |-> 0, view |-> Off, handle |-> 0, status |-> "INVALID",
             stopped |-> FALSE, crashed |-> FALSE, printed |-> <<0, 0>>]

-----------------------------------------------------------------------------
(***************************************************************************)
(* The kernel.                                                             *)
(***************************************************************************)

Change(n, s) ==
    /\ changes < MaxChanges /\ s # sys[n]
    /\ changes' = changes + 1
    /\ sys' = [sys EXCEPT ![n] = s] /\ stale' = TRUE
    /\ UNCHANGED <<objs, born, pc, listed, todo, asked, queue, call, cl>>

Plug(n) == Change(n, [sys[n] EXCEPT !.here = ~@, !.up = FALSE])
Switch(n) == sys[n].here /\ Change(n, [sys[n] EXCEPT !.up = ~@])
Configure(n, f) == sys[n].here /\ Change(n, [sys[n] EXCEPT !.addr[f] = 1 - @])
Traffic(n, k) == sys[n].here /\ Change(n, [sys[n] EXCEPT !.traffic[k] = 1])

-----------------------------------------------------------------------------
(***************************************************************************)
(* The server.                                                             *)
(***************************************************************************)

\* What netif_is_up and the readers of addresses give: nothing once the interface
\* has gone.
Addresses(n) == IF sys[n].here THEN sys[n].addr ELSE [f \in Fields |-> 0]
IsUp(n) == sys[n].here /\ sys[n].up
ReadTraffic(n) == IF sys[n].here THEN sys[n].traffic ELSE <<>>

Methods(up) == IF up THEN {"down"} ELSE {"up"}

\* create_interface
Created(n) == [id |-> born + 1, up |-> IsUp(n), methods |-> Methods(IsUp(n)),
               addr |-> Addresses(n), bytes |-> ReadTraffic(n)]

\* An event: what it sets.
Nothing == [addr |-> <<>>, up |-> {}, bytes |-> <<>>]

\* The object after it: every field that the server sets is one that the
\* description of the event lets it update.
Merge(o, d) == [o EXCEPT !.addr = [f \in Fields |-> IF f \in DOMAIN d.addr THEN d.addr[f] ELSE @[f]],
                         !.up = IF d.up = {} THEN @ ELSE TRUE \in d.up,
                         !.methods = IF d.up = {} THEN @ ELSE Methods(TRUE \in d.up),
                         !.bytes = IF d.bytes = <<>> THEN @ ELSE d.bytes]

Sent(msgs) == queue' = IF cl.conn THEN queue \o msgs ELSE queue
SendEvent(n, type, d) ==
    /\ objs' = [objs EXCEPT ![n] = Merge(@, d)]
    /\ Sent(<<[t |-> "event", n |-> n, type |-> type, set |-> d]>>)

\* update_interface
Changed(n) == {f \in Fields : Addresses(n)[f] # objs[n].addr[f]}
EventType(n) ==
    CASE IsUp(n) /\ ~objs[n].up -> "UP"
      [] ~IsUp(n) /\ objs[n].up -> "DOWN"
      [] OTHER -> IF Changed(n) \cap {"ip", "hw"} # {} THEN "CONFIGURED" ELSE "NONE"

\* Mutant: an address that has gone is taken for one that could not be read.
UpdateInterfaceKeeps(n) ==
    LET gone == {f \in Changed(n) : Addresses(n)[f] = 0}
    IN  IF EventType(n) = "NONE" THEN UNCHANGED <<objs, queue>>
        ELSE SendEvent(n, EventType(n),
                 [Nothing EXCEPT !.addr = [f \in Changed(n) \ gone |-> Addresses(n)[f]],
                                 !.up = IF EventType(n) = "CONFIGURED" THEN {} ELSE {IsUp(n)}])

UpdateInterface(n) ==
    IF EventType(n) = "NONE" THEN UNCHANGED <<objs, queue>>
    ELSE SendEvent(n, EventType(n),
             [Nothing EXCEPT !.addr = [f \in Changed(n) |-> Addresses(n)[f]],
                             !.up = IF EventType(n) = "CONFIGURED" THEN {} ELSE {IsUp(n)}])

\* scan_network, once before the server starts and then every 500 ms: netif_scan,
\* here; the kernel may change interfaces before each of the following steps, but
\* not between the system calls that read one interface.
ScanNetwork ==
    /\ pc \in {"boot", "poll"} /\ pc' = "scan"
    /\ listed' = {n \in Names : sys[n].here} /\ todo' = listed' /\ stale' = FALSE
    /\ UNCHANGED <<sys, changes, objs, born, asked, queue, call, cl>>

\* the loop that creates and updates objects,
ScanOne(n) ==
    /\ pc = "scan" /\ n \in todo /\ todo' = todo \ {n}
    /\ IF objs[n] = Absent
       THEN /\ objs' = [objs EXCEPT ![n] = Created(n)] /\ born' = born + 1
            /\ Sent(<<[t |-> "add", n |-> n, obj |-> Created(n)]>>)
       ELSE UpdateInterface(n) /\ UNCHANGED born
    /\ UNCHANGED <<sys, changes, pc, listed, asked, stale, call, cl>>

SweepBegins ==
    /\ pc = "scan" /\ todo = {} /\ pc' = "sweep"
    /\ todo' = {n \in Names : objs[n] # Absent}
    /\ UNCHANGED <<sys, changes, objs, born, listed, asked, stale, queue, call, cl>>

\* and the loop that removes those that are not listed.
SweepOne(n) ==
    /\ pc = "sweep" /\ n \in todo /\ todo' = todo \ {n}
    /\ IF n \in listed THEN UNCHANGED <<objs, queue>>
       ELSE objs' = [objs EXCEPT ![n] = Absent] /\ Sent(<<[t |-> "remove", n |-> n]>>)
    /\ UNCHANGED <<sys, changes, born, pc, listed, asked, stale, call, cl>>

\* update_network_traffic, every 10 s, with update_traffic.
UpdateNetworkTraffic ==
    /\ pc = "poll" /\ pc' = "traffic" /\ todo' = {n \in Names : objs[n] # Absent}
    /\ UNCHANGED <<sys, changes, objs, born, listed, asked, stale, queue, call, cl>>
UpdateTraffic(n) ==
    /\ pc = "traffic" /\ n \in todo /\ todo' = todo \ {n}
    /\ IF ReadTraffic(n) \in {<<>>, objs[n].bytes} THEN UNCHANGED <<objs, queue>>
       ELSE SendEvent(n, "TRAFFIC", [Nothing EXCEPT !.bytes = ReadTraffic(n)])
    /\ UNCHANGED <<sys, changes, born, pc, listed, asked, stale, call, cl>>

LoopEnds ==
    /\ pc \in {"sweep", "traffic"} /\ todo = {} /\ pc' = "poll"
    /\ UNCHANGED <<sys, changes, objs, born, listed, todo, asked, stale, queue, call, cl>>

\* obus_server_send_ack, for a call of the client.
Ack(mine, status) == IF mine THEN <<[t |-> "ack", status |-> status]>> ELSE <<>>

\* netif_set_up or netif_set_down, and with an address also netif_set_ip_address
\* and netif_set_netmask, of which those in done succeed.
SetUp(n, method, args, done) ==
    [sys[n] EXCEPT !.up = method = "up",
                   !.addr = IF "ip" \notin args THEN @
                            ELSE [f \in Fields |-> IF f \notin done THEN @[f]
                                                   ELSE IF f \in args THEN 1 ELSE 0]]

\* Why a call is refused: any argument may be no address.
Refusals(n, method, args) ==
    IF method \notin objs[n].methods THEN {"METHOD_DISABLED"}
    ELSE IF args = {} THEN {} ELSE {"INVALID_ARGUMENTS"}

\* netif_call_up and netif_call_down: the acknowledgement, the system calls, and
\* then update_interface.
Handle(n, method, args, mine) ==
    \/ /\ \E status \in Refusals(n, method, args) : Sent(Ack(mine, status))
       /\ UNCHANGED <<sys, objs, pc, todo, asked>>
    \/ /\ method \in objs[n].methods
       /\ Sent(Ack(mine, "ACKED") \o
               <<[t |-> "event", n |-> n, type |-> "FAILED", set |-> Nothing]>>)
       /\ UNCHANGED <<sys, objs, pc, todo, asked>>
    \/ /\ method \in objs[n].methods /\ sys[n].here
       /\ Sent(Ack(mine, "ACKED"))
       /\ \E done \in SUBSET ({"ip", "netmask"} \cap Fields) :
             sys' = [sys EXCEPT ![n] = SetUp(n, method, args, done)]
       /\ pc' = "update" /\ todo' = {n} /\ asked' = args
       /\ UNCHANGED objs

CallOfClient ==
    /\ pc = "poll" /\ call # 0 /\ call' = 0
    /\ \/ objs[Iface].id = call /\ Handle(Iface, Cmd, {}, TRUE)
       \/ objs[Iface].id # call /\ UNCHANGED <<sys, objs, pc, todo, asked, queue>>
    /\ UNCHANGED <<changes, born, listed, stale, cl>>

\* Another client, with other arguments.
CallOfOther(n, method, args) ==
    /\ pc = "poll" /\ objs[n] # Absent /\ changes < MaxChanges
    /\ changes' = changes + 1
    /\ Handle(n, method, args, FALSE)
    /\ UNCHANGED <<born, listed, stale, call, cl>>

Update(n) ==
    /\ pc = "update" /\ n \in todo /\ todo' = {} /\ pc' = "poll" /\ asked' = {}
    /\ UpdateInterface(n)
    /\ UNCHANGED <<sys, changes, born, listed, stale, call, cl>>

-----------------------------------------------------------------------------
(***************************************************************************)
(* The client.                                                             *)
(***************************************************************************)

\* stop_client: the main loop ends and the client is destroyed.  What it still reads
\* before it comes to the pipe again is left out.
Stopped(c) == [c EXCEPT !.stopped = TRUE, !.conn = FALSE, !.view = Off]

\* print_interface of the interfaces in a set.
Printed(c, set) ==
    IF \E o \in set : o.bytes = <<>> THEN [Stopped(c) EXCEPT !.crashed = TRUE]
    ELSE [c EXCEPT !.printed = IF set = {} THEN @ ELSE (CHOOSE o \in set : TRUE).bytes]

\* execute_command
ExecuteCommand(c) ==
    LET all == {c.view[n] : n \in Names} \ {Absent}
        itf == c.view[Iface]
    IN  CASE Cmd = "monitor" -> Printed(c, all)
          [] Cmd = "list" -> Stopped(Printed(c, all))
          [] c.handle # 0 -> c
          [] OTHER -> IF itf = Absent \/ Cmd \notin itf.methods THEN Stopped(c)
                      ELSE [c EXCEPT !.handle = itf.id]

\* net_interface_event: the event is committed, and may be the one waited for.
Event(c, m) ==
    LET d == [c EXCEPT !.view[m.n] = Merge(@, m.set)]
    IN  CASE Cmd = "monitor" -> Printed(d, {d.view[m.n]})
          [] Cmd \in {"up", "down"} /\ c.status = "ACKED" /\ m.n = Iface
                /\ m.type \in {"UP", "DOWN", "FAILED"} -> Stopped(d)
          [] OTHER -> d

\* method_status_cb
MethodStatus(c, status) ==
    IF status = "ACKED" THEN [c EXCEPT !.status = status]
    ELSE Stopped([c EXCEPT !.status = status])

Pending(c) == c.handle # 0 /\ c.status = "INVALID"

\* netclient_event and the callbacks of the provider.
Read(c, m) ==
    CASE m.t = "connected" -> ExecuteCommand([c EXCEPT !.view = m.objs])
      [] m.t = "add" -> LET d == [c EXCEPT !.view[m.n] = m.obj]
                        IN  IF Cmd = "monitor" THEN Printed(d, {m.obj}) ELSE d
      [] m.t = "remove" -> LET d == [c EXCEPT !.view[m.n] = Absent]
                           IN  IF m.n = Iface /\ Pending(c) THEN MethodStatus(d, "ABORTED") ELSE d
      [] m.t = "event" -> Event(c, m)
      [] m.t = "ack" -> MethodStatus(c, m.status)

Receive ==
    /\ cl.conn /\ queue # <<>>
    /\ LET c == Read(cl, Head(queue)) IN
        /\ cl' = c
        /\ queue' = IF c.conn THEN Tail(queue) ELSE <<>>
        /\ call' = IF cl.handle = 0 THEN c.handle ELSE call
    /\ UNCHANGED <<sys, changes, srvVars>>

\* The server, which has started after its first scan, accepts the client.
Connect ==
    /\ ~cl.conn /\ ~cl.stopped /\ pc = "poll"
    /\ cl' = [cl EXCEPT !.conn = TRUE]
    /\ queue' = <<[t |-> "connected", objs |-> objs]>>
    /\ UNCHANGED <<sys, changes, srvVars, call>>

\* The connection is lost: the pending call is aborted, the objects are gone.
Disconnect ==
    /\ cl.conn /\ cl.drops < MaxDrops /\ pc = "poll"
    /\ LET d == [cl EXCEPT !.conn = FALSE, !.drops = @ + 1, !.view = Off]
       IN  cl' = IF Pending(cl) THEN MethodStatus(d, "ABORTED") ELSE d
    /\ queue' = <<>> /\ call' = 0
    /\ UNCHANGED <<sys, changes, srvVars>>

-----------------------------------------------------------------------------
Server ==
    \/ ScanNetwork \/ SweepBegins \/ UpdateNetworkTraffic \/ LoopEnds \/ CallOfClient
    \/ \E n \in Names : ScanOne(n) \/ SweepOne(n) \/ UpdateTraffic(n) \/ Update(n)

Kernel ==
    \E n \in Names : \/ Plug(n) \/ Switch(n)
                     \/ \E f \in Fields : Configure(n, f)
                     \/ \E k \in 1..2 : Traffic(n, k)

Next ==
    \/ Server \/ Kernel \/ Receive \/ Connect \/ Disconnect
    \/ \E n \in Names, m \in {"up", "down"}, a \in SUBSET ({"ip", "netmask"} \cap Fields) :
          (m = "down" => a = {}) /\ CallOfOther(n, m, a)

Spec == Init /\ [][Next]_vars

\* The main loop of the server looks at each of its descriptors in turn, and that
\* of the client at its only one.
Fairness ==
    /\ WF_vars(Server) /\ SF_vars(ScanNetwork) /\ SF_vars(CallOfClient)
    /\ WF_vars(Receive) /\ SF_vars(Connect)

FairSpec == Spec /\ Fairness

-----------------------------------------------------------------------------
(***************************************************************************)
(* Properties.                                                             *)
(***************************************************************************)

Agrees(n, o, fields) ==
    IF sys[n].here
    THEN /\ o # Absent
         /\ o.up = sys[n].up
         /\ \A f \in fields \cap Fields : o.addr[f] = sys[n].addr[f]
    ELSE o = Absent

Scanned == pc = "poll" /\ ~stale

\* When a scan is over during which the kernel has changed nothing, the server
\* publishes exactly the interfaces there are, with their state and addresses,
\* whatever the scans before it have met half-way.
Published == Scanned => \A n \in Names : Agrees(n, objs[n], {"ip", "hw"})

\* The method that a client may call is the one that changes the state it sees, in
\* the server and in the client at every moment.
MethodsFollowState ==
    \A n \in Names : \A o \in {objs[n], cl.view[n]} :
        o # Absent => o.methods = IF o.up THEN {"down"} ELSE {"up"}

\* An object without byte counts: its interface went after netif_scan had found it
\* and before create_interface read it.  A monitor that prints it reads through a
\* null pointer (netclient.c:232).
Blank(n) == objs[n] # Absent /\ objs[n].bytes = <<>>

\* Once the kernel is quiet a monitor shows what there is, for good, although
\* connections are lost and interfaces are configured, come and go during scans:
\* provided that none ever goes between being found and being created, which is
\* the end of the monitor.
MonitorFollows ==
    [](\A n \in Names : ~Blank(n)) =>
        <>[](\A n \in Names : Agrees(n, cl.view[n], {"ip", "hw"}))

-----------------------------------------------------------------------------
(***************************************************************************)
(* What the code does not do, although its comments suggest it: TLC finds  *)
(* a counterexample to each of these (see the README).                     *)
(***************************************************************************)

\* After a quiet scan the broadcast address and the netmask are published, too
\* (update_interface, "nothing has changed !").
PublishedAll == Scanned => \A n \in Names : Agrees(n, objs[n], Fields)

\* A client with a command ends.
ClientEnds == <>cl.stopped

\* A netmask that is passed to the method up without an address is set ("set netmask
\* address").
NetmaskSet == [][pc = "poll" /\ pc' = "update" /\ asked' = {"netmask"}
                    => \E n \in todo' : sys'[n].addr["netmask"] = 1]_vars

\* A client prints interfaces only with their two byte counts.
NoNullBytes == ~cl.crashed

\* What a client prints as received has been received: it prints the first count
\* as the received bytes and the second as the sent ones.
PrintedTraffic == \E n \in Names : /\ cl.printed[1] <= sys[n].traffic[2]
                                   /\ cl.printed[2] <= sys[n].traffic[1]

=============================================================================
