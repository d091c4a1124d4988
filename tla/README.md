# A TLA+ verification of obus

obus replicates a set of *objects* from a server process to client processes
over stream sockets. This directory models the C library
(`src/libobus`) and two of the programs that use it in TLA+, checks it with TLC on small instances and proves the
most important facts with TLAPS for all instances.

## The system

**Server** (`obus_server.c`). One thread, one event loop. It owns objects, each
with an *info* structure; an object is first created (it then has a handle and is
in the bus's hash table), later registered, updated by events, unregistered and
destroyed. Every change of a registered object is broadcast to the connected
*peers*: `ADD`, `REMOVE`, `EVENT`, or `BUS_EVENT`, which changes several objects
at once. A peer is accepted (`IDLE`), sends `CONREQ`, is presented to user code in
a callback that may refuse it (`CONNECTING`), gets `CONRESP` with the registered
objects and is `CONNECTED` or `REFUSED`. A connected peer may send `CALL`: user
code runs the method and acknowledges it (`ACK`), or the library does it.

**Client** (`obus_client.c`). Connects, keeps a replica of the server's registered
objects, tells user code about each change, keeps a table of its pending calls.
It reconnects whenever its connection breaks.

**Below them**: the bus registry (`obus_bus.c`), objects, events, calls, packets
and their decoder, the asynchronous write queue (`obus_io.c`), reference-counted
buffers (`obus_buffer.h`), sockets with reconnection and bind timers
(`obus_socket.c`), the event loop and timers (epoll and posix versions), a hash
table, the coding of fields and structures. **Beside them**: a generator of
bindings (`obusgen`), a python and a java implementation of the client, a python
viewer, examples.

What is hard here:

- user code runs inside handlers (peer callbacks, method handlers, object
  callbacks) and may call the library back;
- the two ends of a connection close independently: the server may still serve
  a client that is already back on another connection;
- any write may fail, any allocation may fail, and the two are handled in
  different ways at each place;
- a call crosses the removal of its object, an acknowledgement crosses the
  reuse of its handle;
- the broadcast is skipped on the word of a counter that other functions keep;
- bytes arrive and leave in pieces of any size, in buffers that connections share
  and hand on;
- handlers change the tables and lists from which they are called;
- the ends of an exchange may be built from different descriptions;
- the kernel changes what the example servers publish while they look at it.

`PROJECT.json` lists each of these hazards at the line where it bites.

## Modules

| module | models |
|---|---|
| `ObusLink` | the connections and the packets: state shared by the two sides |
| `ObusServer` | `obus_server.c` and the server's use of the bus registry |
| `ObusClient` | `obus_client.c` and the client's use of the bus registry |
| `ObusBus` | one server and its clients; their properties, the inductive invariant |
| `ObusPeers` | the walk of `obus_server_send_peers`, step by step |
| `ObusRegistry` | the life of objects and bus events: `obus_bus.c`, `obus_object.c`, `obus_bus_event.c` |
| `ObusHash` | `obus_hash.c`; `ObusMap` is the ordered map it implements |
| `ObusStruct` | who owns the strings of a structure: merging in `obus_struct.c`, `obus_field.c` |
| `ObusCodec` | the coding of fields, structures and objects, down to `obus_buffer.h` |
| `ObusDecoder` | the packet decoder of `obus_packet.c` over `obus_buffer.h` and `obus_io_read` |
| `ObusIo` | `obus_io.c`: the asynchronous writes; `ObusChannel` is the channel it implements |
| `ObusSocket` | `obus_socket.c`: a client that reconnects, servers that bind and accept |
| `ObusLoop` | `obus_loop.c` (epoll) and `obus_loop_posix.c` (poll) |
| `ObusTimer` | `obus_timer.c` (timerfd) and `obus_timer_posix.c` (signals and pipes) |
| `ObusNet` | the network example: `netd.c`, `netif.c`, `netclient.c` |
| `ObusPs` | the process example: `psd.c` |
| `MCObusBus`, `MCObusIo` | the symmetry TLC uses |
| `MCObusObjects` | the bench of registry, hash table, walk, structures and coding |
| `MCObusPlatform` | the bench of decoder, sockets, loop, timers and examples |
| `ObusBusLemmas` | lemmas: every step of `ObusBus` keeps the invariants of the handshake and of the replicas |
| `ObusBusTheorems` | the count of peers and the calls; the theorems about `ObusBus` |
| `ObusIoTheorems`, `ObusIoChannel` | the theorems about the write queue; that it implements the channel |
| `ObusDecoderTheorems` | the theorems about the packet decoder |
| `ObusLoopTheorems` | the theorems about the event loop |
| `ObusComponentTheorems` | the theorems about registry, timers, sockets, hash table and the walk over the peers |
| `ObusExampleTheorems` | the theorems about the two example servers |

Definitions that begin with *Mutant* in their comment are plausible errors in the code.
Each property has one that breaks it; no specification uses them.

The components below the protocol share no state in the models. A *bench* is a module
that instantiates several of them; its variable `part` says which one runs in a
behaviour, the others stay in one of their initial states. A property of a bench is
that of its component, sometimes the conjunction of those that belong together.
A component whose sizes matter in more than one way has two instances: many packets on one connection or few on several
(`Stream`, `Reconnect`); structures that share strings, or arrays and failed
allocations (`Merge`, `MergeFaulty`); reused process numbers, or shares of processes
over lost events (`Ps`, `Tics`).

### The protocol: `ObusBus`

`conn[c]` is the connection whose client end `c` holds; `peer[p]` the state of the
server end. `c2s[p]`, `s2c[p]` are the packets on their way. A connection in
`broken` carries nothing more although no end has closed yet (a write failed and
the failure was ignored). The server has `sobj` and `info` (its objects),
`npeers` (`n_peers_connected`), `ctx` (the user callback being run, if any),
`srvcall` (`srv->call`). A client has `cstate`, `replica`, `pending`.

Handlers are atomic except where they call user code: `ctx` then says where the
handler will resume, and any operation of the API may run before. `ctx.p` becomes
`None` when the peer is freed meanwhile. A handler that resumes on a freed peer
reads a decoder without a buffer (`obus_packet_decoder_destroy` has cleared it):
the server process dies, which is the action `Terminate`.

An object has one info field and one method. The method is enabled in the info
values of `Enabled`. Names, versions and crcs are one bit of the connection request.

Two fields of packets are history: `after` (the server's view of the bus when
the sending operation ended) and `h` of an `ACK`. No action reads them; they let
the properties say which state of the server a packet stands for.

### The write queue: `ObusIo`

`ObusIo` is one layer below: the ios of one process, which share a pool of
buffers. `queue[i]` is `io->write_buffers`, `written[i]` is `io->nbr_written`,
`wfd` and `timer` say whether the loop watches the socket and whether the write
timer runs. `refcnt` and `free` are the buffers' counts and the pool, `content`
the packet encoded in a buffer, `rx` the buffer of each decoder. `out[i]` is what
the socket has taken: packets, the last maybe in part; bytes appended to another
packet than the one begun make packet `0`, which nobody wrote.

`Send` and `SendPeers` stand for the writers of the server and the client: encode,
`obus_io_write`, and give the reference back or leave it to the queue.
`obus_server_send_peers` and `obus_io_write_events` are loops whose iterations are
steps (`ctx` says which loop runs). When a completion callback destroys its io,
`obus_io_write_events` goes on with freed memory: `WriteError` then returns or
ends the process.

`ObusChannel` is the abstract channel. `ObusIo` implements it (`ChannelSpec`) with
the packets that have wholly left as its wire and the contents of the queued buffers
as the waiting packets. It is the part of `ObusLink` that concerns writes: in
`ObusBus` a packet that was queued is in the channel.

### Objects, structures, fields

`ObusRegistry` follows each object through the table of handles (`hash`), the list of
registered objects (`listed`, `registered`), the two lists of a bus event (`node`) and
the application's hands (`held`). `live` says what is allocated; taking a node out of a
list it is not in, or that is gone, sets `bad`. `fails` counts the bus events that could
not be allocated. `careless` records what the code does not forgive the application: it
has unregistered an object whose event waits in a bus event, or ended the server before
it had destroyed the objects that are its own and the bus event whose removed objects go
with it (`Unfinished`). The server may be ended at any time; `obus_bus_clear` then
unlinks every object of the table, also one that was never registered.

`ObusPeers` breaks the broadcast, which is one step in `ObusServer`, into the
iterations of the list macro: `walks` is the stack of walks, each with the peer it
visits and the one it has saved as the next.

`ObusHash` has the chains and the list of entries, for every hash function; with
`entries` read as a sequence of keys and data it implements `ObusMap`.

`ObusStruct` has an explicit memory: strings and arrays at addresses that are given out
again, a structure with a string and an array of strings, and an application that builds
events from new strings and from those it was shown, for the same field or, with
`Across`, for the other one. `ObusCodec` encodes structures to
bytes (of `Radix` values, in the widths of the code) and decodes them field by field
with another description of the structure.

### Packets, sockets, loop, timers

In `ObusDecoder` a byte knows its packet and its place in it, so that a header found in
the wrong place, a packet that is cut or one that is passed over can be told. A step is
one iteration of `obus_packet_decoder_read`, with the early returns and the variable
`read_more` of the code; a read takes any number of bytes. Buffers come from a pool with
the read position they were given back with.

`ObusSocket` has the descriptors and the timer of a client, those of the servers, and
the name by which the kernel finds a server. An address that cannot be bound, a
descriptor that the loop does not take and an `accept` that fails are steps of their own.
`ObusLoop` has the table, the batch of
events and the two counters of `obus_loop_do_process`; between two iterations a handler
opens and closes connections at addresses and descriptors that are used again.
`ObusTimer` separates the expiration, the signal, the event in the loop's batch and the
callback. The two versions of loop and timers are one model each: `posix` and
`timerfd` say which was built.

### The examples

`ObusNet` and `ObusPs` take from the library what `ObusBus` shows of it: a client that
connects gets the registered objects and then the events, in order. A scan is one step
for the list of what there is and one for each interface or process in it, and the kernel
changes interfaces or processes in between. The system calls that read one interface
(`ScanOne`, `UpdateInterface`) or one process (`ReadOne`) are a single step: all of them
find it as it is then, or gone. `Stopped` ends the client at once, while the code lets it
process packets until it polls its pipe; the view of a stopped client is nobody's
concern. In `ObusPs` `used` is a history variable, the ticks of a process since it was
last read; the properties compare the published share with it.

### Failures

- A write to a peer fails: the choice of `lost` in a broadcast, `broken` for an
  acknowledgement, `ConnectionResponseLost` for a response.
- An allocation in the server fails (`Oom`, at most `MaxOom` times): the
  operations undo, half do, or drop, as the code does at each place.
- A read or a connection fails at any time: `PeerError`, `ClientError`.
- In the components below: system calls and allocations that fail are actions of their
  own (`...Fails`), at most `MaxFails` of them.
- A process stops: `ServerStop`, `ClientDestroy`, and starts again.

## Runs

| run | instance | checks |
|---|---|---|
| `BusSync` | 1 client, 1 connection, 2 objects, 2 values | `NoClientCrash`, `ReplicaFollowsServer` |
| `BusPeers` | 2 clients (1 incompatible), 3 connections, 1 object | `PeerCount`, `HandshakeAgrees`, `Converged` |
| `BusCalls` | 1 client, 1 object, 2 call handles, method enabled or not | `CallsFromConnectedPeers`, `PendingCallsHaveObjects`, `NoOrphanCall` |
| `BusFaults` | 1 client, 1 failed allocation, calls in remove callbacks | `Inductive`: the invariant of the proofs |
| `BusLive` | 1 client, 2 connections, 1 call handle, fairness | `CallsEnd`, `ClientsConnect` |
| `BusCallPeer` | 1 client, 1 connection, 1 object | violates `CallPeerUsable`: a finding |
| `IoFaults` | 2 connections, 5 buffers, 3 packets of 2 bytes, 1 fault | `NotReused`, `Watched`, `ChannelSpec` (refinement) |
| `IoLive` | 2 connections, 3 buffers, 2 packets, 1 fault, fairness | `QueueDrains` |
| `Objects` | the parts of `MCObusObjects` | see below |
| `Platform` | the parts of `MCObusPlatform` | see below |
| `Live` | decoder, sockets, loop, timers, fairness | `Delivered`, `ClientConnects`, `ServerListens`, `Served`, `Fires` |
| `ExamplesLive` | 1 interface, 1 process, failing scans, fairness | `MonitorFollows`, `ProcessesFollow` |

`Objects`:

| part | instance | checks |
|---|---|---|
| registry | 3 objects, 1 failure | `NoBadAccess`, `ObjectsOwned`, `NothingDangles` |
| hash | 3 keys, 2 buckets, every hash function | `MapSpec` (refinement) |
| peers | 3 peers, 3 packets, applications that do not send in the callback | `WalkSafe`: the walk is safe and packets are in order |
| merge | 2 infos, arrays of up to 2 strings, new or shared with the same field or with the other if that is not set too | `OwnedOnce`, `NothingLost`, `MergeKeepsValues` |
| merge faulty | 3 infos, null pointers, the object's own array, 1 failure | `OwnedOnce` |
| codec | fields of 8 kinds, 3 receivers with other descriptions, 1 failure | `RoundTrip`: the reader stays aligned and gets the values |

`Platform`:

| part | instance | checks |
|---|---|---|
| stream | 3 packets (good, bad or alien), a buffer smaller than the largest | `InOrder`, `NothingSkipped` |
| reconnect | 3 connections of 2 packets, other packets sent in between | `InOrder` |
| sockets | 1 client, 2 servers, 3 reconnections, 2 failures | `OneAttempt`: one attempt, no lost or closed descriptor in use |
| loop | 3 connections at 2 addresses, 2 changes per handler, epoll and poll | `CalledInTable`, `WalkInArray` |
| timers | 2 timers, each set twice, timerfd and signals | `NoLateCallback` (timerfd) |
| net | 2 interfaces, 2 changes, a client that calls `up`, a lost connection | `Published` |
| ps | 2 reused process numbers, 3 changes, clock steps, 1 failure | `ProcessesPublished` |
| tics | 2 process numbers, 4 changes, 1 lost event | `ProcessesPublished`, `TicsOfProcess` |

Deadlock is checked in the bus runs and in `ExamplesLive`. Elsewhere the bounds let a
behaviour end: all packets sent, all connections used.

### Bounds

`MaxInFlight` (1 or 2) bounds the packets on a connection *when user code
starts another operation*; handlers are not bounded. Two packets in flight are
enough for one to overtake the other's assumptions (a call crossing a removal
and a re-creation). Two objects are enough for a bus event that adds one and
removes the other. Three connections for two clients are enough for a client to
be back while its old peer is alive next to another client's. Connections,
objects and call handles are symmetric in the safety runs.

For the write queue, a packet of two bytes has every kind of partial write (none,
some, all). Two connections are enough for a shared buffer to finish on one and wait
on the other, three packets for a queue of two behind one that was begun. The ios and
the buffers are symmetric in the safety runs. The channel is checked up to the fault: `obus_io_write` that has written
a part and cannot allocate the node for the rest forgets the part (see below).

For the other components the bounds are the smallest at which each case they were built
for happens: a hash chain of two with a third key elsewhere; a peer before, at and
after the one whose write fails; a buffer that must grow, and one that must not; a
packet cut in its header, between header and payload and in its payload; an address and
a descriptor that are used again while an event for the former owner is in the batch;
a timer that is set again before, between and after signal, event and callback; a
process number that is reused within one scan and between two. Every action of every
module is taken in some run.

### Fairness

In `ObusBus` the server loop polls every descriptor in each
round, so each peer makes progress infinitely often even if other peers keep the
server busy (strong fairness per peer); callbacks return; a client reads what
arrives and retries to connect every half second; a stopped server is restarted.
User code need not do anything. `ClientsConnect` only speaks of behaviours in
which connections eventually stop failing. In `ObusIo`, handlers end and the loop
serves every descriptor and timer; a socket that was reported writable takes at least
one byte. Nothing makes a socket writable: the timer ends a queue that is stuck.

In the benches: a call of the decoder ends and the loop reports a readable socket
(the loop is level-triggered); the application keeps calling the loop and handlers
return; timers expire, signals are delivered; the kernel answers a connection attempt;
an interface that a server waits for comes up (`ServerListens` says nothing otherwise).
In the examples the main loops look at each descriptor in turn, so the scan of `netd.c`
and the calls of clients are not starved by each other (strong fairness); the scan of
`psd.c` runs whenever its timer fires. `MonitorFollows` and `ProcessesFollow` speak of
behaviours in which the kernel becomes quiet, which the bounds on changes ensure, and
`MonitorFollows` of those in which no interface is published without its byte counts
(`Blank`): the monitor would end on it, as the next section says. In
`Live` the packets can all be decoded and no system call fails: see the next section
for what happens otherwise.

## Where comments and code disagree

The run `BusCallPeer` shows one such place: `libobus.h:509` promises that the peer of a
call *can be used safely in a method handler*, but `obus_server_send_peers` destroys a
peer whose write fails, also the caller's.

The others were met while modelling. In each case the model does what the code does,
and TLC finds a counterexample to the property named when it is checked with the
constants given; the properties stand at the end of their modules. Where a property of
a run excludes the case, the exclusion is named.

| where | what the code does | property |
|---|---|---|
| `obus_client.c:331` | a call made in the callback that removes its object is aborted neither then nor at a disconnection (`libobus.h:183`: *call aborted (object removed or client disconnected ...)*) | `PendingCallsHaveObjects`, `CallsInRemove = TRUE` |
| `obus_server.c:754` | an object whose `ADD` cannot be allocated is registered all the same; its `REMOVE` is for an object that the clients do not have, and `obus_client.c:329` dereferences it | `NoClientCrash`, `MaxOom = 1` |
| `obus_bus.c:167` | the acknowledgement of an aborted call completes a new call with the same handle (`libobus.h:180`) | `AckAnswersCall`, two objects |
| `obus_io.c:341` | `obus_io_destroy` gives back the io's reference of a queued buffer, not the one its callback would (`obus_io.c:337`: *give back pending non written buffer*) | `GivenBack` |
| `obus_io.c:394` | a packet partly written whose queue entry cannot be allocated is forgotten, the next one follows its first half | `FramesWhole`; `ChannelSpec` holds up to the fault |
| `obus_buffer.h:154` | a buffer goes back to the pool with its read position; a later connection passes over its first packet | `NothingSkipped` with several connections, a buffer of 4 |
| `obus_packet.c:637` | after a packet that cannot be decoded the decoder waits for bytes with a whole packet in its buffer | `Delivered` with `Bad # {}` |
| `obus_field.c:615` | an array whose decoding fails is freed, its count stays | `ArraysConsistent` |
| `obus_field.c:865` | an array of an object that is passed back as it is loses its strings | `MergeKeepsValues`, `Whole = TRUE` |
| `obus_field.c:917` | the merge of an array with the object's string of the other field, which is set too, reads that string after it was freed (`obus_field.c:205`) | `OwnedOnce`, `MergeKeepsValues`, `Across = TRUE` |
| `obus_socket.c:925` | a reconnection attempt whose `socket()` fails, or whose descriptor the loop does not take (`obus_socket.c:943`), is the last | `ClientConnects`, `MaxFails = 1` |
| `obus_socket.c:1058` | a reconnection opens two sockets and forgets the first | `OneSocket` |
| `obus_socket.c:797` | a server that ends removes the file its successor has bound | `Found`, `Family = "unix"` |
| `obus_socket.c:256` | an address whose host or port cannot be parsed is accepted | `AddressParsed`, such `Addresses` |
| `obus_loop.c:227` | an event reaches a new `obus_fd` at the address of the one that raised it | `OwnEvent` |
| `obus_timer_posix.c:219` | a timer that was cleared calls back for what is in its pipe | `NoLateCallback` without `timerfd` |
| `obus_hash.c:108` | `obus_hash_init` returns 0 without a table | `InitReported` |
| `obus_server.c:209` | an application that sends in the DISCONNECTED callback frees the peer that the outer walk has saved | `WalkSafe`, `SendsInside = TRUE` |
| `obus_server.c:1052` | the objects of a bus event that could not be sent are nobody's (`obus_bus_event.c:149`: *owned by server*) | `ObjectsOwned` without `fails = 0` |
| `obus_bus.c:148` | the destruction of the server takes such an object out of a list it is not in, and any other that is not registered: one that was created only, or unregistered and not destroyed | `NoBadAccess` without `fails = 0`, or without `~careless` |
| `obus_server.c:925` | the refusal of a bus event with an unregistered object reads the wrong variable for its message | `NoBadAccess` without `~careless` |
| `netd.c:219` | a netmask or broadcast address that changes alone is not published | `PublishedAll` |
| `netclient.c:291` | a client that loses its connection after its call was acknowledged does not end | `ClientEnds`, `Cmd = "up"` |
| `netd.c:273` | a netmask without an address is not set | `NetmaskSet` |
| `netclient.c:232` | an interface that goes between being listed and being created is published without byte counts (`netd.c:371`), and the client reads them to print it | `NoNullBytes`, `Cmd = "list"`; `MonitorFollows` without the condition `~Blank` |
| `netclient.c:235` | the bytes sent are printed as received (`net.xml:17`) | `PrintedTraffic`, `Cmd = "list"` |
| `psd.c:393` | the ticks of a new process with an old number wrap around | `TicsOfProcess`, `Reuse = TRUE` |
| `psd.c:587` | after a failed `opendir` all ticks of a process count for one interval | `TicsOfProcess`, `Failures = {"opendir"}` |
| `psd.c:748` | the mode SOLARIS is published ahead of its shares (`psd.c:796`: *never be > 100%*) | `SolarisBound` |
| `psd.c:704` | a rate whose event cannot be allocated is in force and not shown | `SummaryTrue` (`ObusPs`), `Failures = {"event"}` |
| `psd.c:714` | a rate that cannot be set on the timer is shown and not in force | `SummaryTrue`, `Failures = {"settime"}` |
| `psd.c:333` | a clock that is set back divides by zero | `PcpuIsNumber`, `ClockSteps = TRUE` |

## Proofs

All proofs are for every value of the constants: any number of clients, connections,
objects, call handles, buffers, timers, peers, interfaces or processes, and every bound.
The constants satisfy the assumption of their module (`...Assumption`, and the
named assumptions of `ObusLink`, `ObusIo` and `ObusRegistry`), which TLC evaluates in the
runs. They say little: bounds are natural numbers, `None` and its like are none of
the things they stand for; `ObusBus` needs finitely many connections, `ObusPs` finitely
many process numbers, `ObusSocket` enough descriptors for the reconnections it counts, `ObusDecoder` packets
that are no shorter than their header.
Each inductive step has one step per action, and the lemmas are about the helpers that
the actions share.
A theorem about a component of a bench names the component's own definitions; the property
of the same name that the bench checks is made of those for its instances.

### The protocol (`ObusBusLemmas`, `ObusBusTheorems`)

*Types and count.* `Spec => []TypeOK` and `Spec => []PeerCount`. Neither is inductive
alone: the count needs the types, the type of the count needs the count
(it is decremented), and both need that the peer of a `CONNECTING` callback is
alive and not yet counted (`ConnectingPeer`), since the response increments.
`TypeStep` shows the types given the next count. `PeersStepAlways`
says how a step changes the set of connected peers together with the count, and
`PeerCountStep` draws the conclusion, the only place where cardinalities are reasoned
about.

*Handshake.* `Spec => []HandshakeAgrees` and `Spec => []CallsFromConnectedPeers`, from
the lemmas of `ObusBusLemmas`. The invariant `Shaken` adds to the types

- `CallbackPeers`: a callback is about a live peer, in the state its handler left it in;
- `Links`: a connection has one client, closed ends have nothing to read, a client
  that is not connected has an empty replica;
- `Answers`: what may be on its way to a client in each state of the two ends. A
  peer that has not been answered has sent nothing, a connection response is only
  ever the first packet, a refused client gets nothing else.

`Answers` is the strengthening that matters: `HandshakeAgrees` says that the ends
agree after the response was read, which only holds because of what the response said
while it was on its way.

*Replicas.* From the lemmas of `ObusBusLemmas`: `Spec => [](oom = 0 => Converged)`,
`Spec => [](oom = 0 => NoClientCrash)` and, for `MaxOom = 0`,
`Spec => ReplicaFollowsServer`. The invariant adds `Replication`: the packets on their
way to a client form a chain. The first leads from the client's replica to its
`after`, each next one from the `after` of the one before, and the last `after` is the
server's view. The lemmas `AddLeads` to `BusEventLeads` show that each broadcast
extends the chain by one link, `FollowsReceive` that a client takes off the first.
The restriction to `oom = 0` is needed: `obus_server_register_object` that fails to
allocate leaves the object registered and the peers untold. `Spec => []Inductive` is the
whole invariant, with failed allocations and calls from any callback: what `BusFaults`
checks on one instance.

*Calls.* If user code makes no call on an object from its own remove callback
(`~CallsInRemove`; with it the property is false, see above), `Spec =>
[]PendingCallsHaveObjects` and `Spec => [](oom = 0 => NoOrphanCall)`. The second says
where a pending call is: in the channel to the server, in the hands of the server
while its method runs, or completed by a packet on its way back (`InHand`). It is inductive with the
replicas' invariant and with the first. The difficult case is a call that the server
reads when its object has left the bus: `obus_call_decode` drops it in silence. Then
the client still has the object in its replica and the server has not, and the
packets on their way to the client must contain the removal (`Announced`), which
completes the call.

### The write queue (`ObusIoTheorems`, `ObusIoChannel`)

`Spec => []Watched`: a connection with a queue has its timer running, one without is not
watched for writing and has nothing half written, with faults. The property exempts the
io whose queue is being walked; the invariant adds what the walk keeps about it
meanwhile.

`Spec => []NotReused`: references are counted right. In `RefInv` the count of a buffer is
at least the number of those who hold it: two for each queue that has it (the io and
the completion callback give back one each), one for the broadcast under way, one for the decoder
that reads into it, which shares it with nobody. It is *at least*, since
`obus_io_destroy` loses a reference of a queued buffer. Each queue has a buffer at most once.

`Spec => ChannelSpec`: the queues implement channels that pass packets on whole, once
and in the order of the writes, until the first fault. The invariant `ChannelInv` says
that a connection in use has sent whole packets and then `written[i]` bytes of the packet
at the head of its queue. That a queued packet is not overwritten comes from `RefInv`.

### The packet decoder (`ObusDecoderTheorems`)

`Spec => [](HeaderAtStart /\ InOrder)`, for any packets, sizes, pieces in which they
arrive and reconnections, and `Spec => []NothingSkipped` if there is one connection: the
buffer of a later one may bring a read position along, and then the property is false (see
above). The invariant `ReadInv` takes the bytes in the buffer and those on the wire for one
stream (`Flow`): its bytes are in the order of their packets, a packet goes on to its
last byte unless the stream ends, and no byte is of a packet already returned. A header
that is remembered begins the buffer, and it is complete (`HeaderRead`). For the second
theorem the invariant also says that no packet that can be decoded begins before the read position
(`Clear`), and that each one is returned or begins in the stream (`Whole`). What
the search of `obus_packet_decode_header` removes when it finds no header is the delicate
case: the last `HdrSize - 1` bytes stay, and whatever began before them would have had a
whole header in the buffer.

### The event loop (`ObusLoopTheorems`)

`Spec => []CalledInTable`, with `Descriptors`, and `Spec => []WalkInArray`, for epoll and
poll. `TableOk` relates table and connections: each `obus_fd` in the table belongs to a
connection that is there, and no address or descriptor is used twice, so that the
`obus_fd` an event names, which the walk looks up again, is one. The second is the more surprising: the walk of
`obus_loop_do_process` is bounded by the length of a table that handlers enlarge, not by the
array the kernel has filled. It stays inside because it also stops when it has
met as many events as there are: `WalkInv` counts those before the place reached, and when
that place is past the end of the array it has counted them all.

### Components (`ObusComponentTheorems`)

*Registry.* `Spec => []NothingDangles`: whatever
fails, no table, list or bus event leads to a freed object. Inductive only together with
`held \cap registered = {}` and with the fact that events wait only in a bus event.
`Spec => []ObjectsOwned` and `Spec => []NoBadAccess`, which hold while nothing has
failed and, for the second, while the application has not been careless: the invariant
`Faultless` adds that the events of a bus event that is open are of registered objects
unless the application was careless, and that without a failure every object is the
application's or registered while a bus event is open. The end of the server is the step
that needs them: `obus_bus_clear` unlinks every object in the table, and only an
application that has destroyed its own objects before leaves none that is in no list.
Without that the theorem is false (see above).

*Timers.* `Spec => []NoLateCallback`: with a timerfd, an expiration that was collected
but not served yet is taken back when the timer is cleared or set again.

*Sockets.* `Spec => []OneAttempt`, with `WatchedOpen` and `ServerDescriptors`. The invariant
ties the state of the client to that of its descriptors. It counts the open
descriptors by the reconnections (a reconnection loses one), which is why the lowest free one
exists.

*Hash table.* `Spec => MapSpec`: the table implements an ordered map for every number of
buckets and every hash function. `HashInv` says that the chain of a bucket has
the entries of the list whose keys hash to it, and that keys occur once in both; so
what is found in the chain is what the map has, and destroying all chains empties the list.

*Walk over the peers.* If the application sends nothing in the DISCONNECTED callback
(`~SendsInside`; with it the property is false), `Spec => [](WalkSafe /\ SentInOrder)`.
The invariant says that the peer visited is in the list, that the saved
one is the next after it, and that no peer from there on has had the packet.

### Examples (`ObusExampleTheorems`)

*netd.c.* `Spec => [](Published /\ MethodsFollowState)`. `Scans` says for each stage of a
scan which interfaces agree already; what remains to do is all that keeps the others from it. The methods
of the client's view follow its state because the packets on their way carry objects
and changes whose methods do.

*psd.c.* `Spec => []ProcessesPublished`, for scans that could read `/proc/stat`, and, if no
event and no setting of the timer fails, `SummaryTrue`. `Gathered` says what the
scan has collected of the processes read so far, the counts included.
`Spec => TicsOfProcess` needs that numbers are not reused and that `/proc` can be opened, since
it is false otherwise (see above): `TicsInv` relates the ticks used to the
last reading, which is in one of the two history tables.

### How the proofs are written

Many leaves name `Zenon`. It proves them faster than the SMT solver, whose translation
of an obligation slows down over the length of a module; the SMT solver is left
the arithmetic, the records and the functions.

### Only model-checked

- Liveness: all properties of `BusLive`, `IoLive`, `Live` and `ExamplesLive`. The provers
  at hand do not reason about fairness.
- `RoundTrip` of `ObusCodec`, and `OwnedOnce`, `NothingLost` and `MergeKeepsValues` of
  `ObusStruct`. What is decoded, and what a merge leaves in memory, is computed by functions that
  recur over the items of arrays of any length. Their values need an induction over the items that
  the provers at hand cannot do.

## Not modelled

- The python and the java client: second and third implementations of the client side
  of the protocol, which `ObusClient` models for the C library. The socket wrapper of the
  java client is a thin layer over system calls.
- The generator and, but for the functions `ObusNet` uses, the code it generates:
  accessors and constant tables, a translation without state. `obus_bus_api.c` reads
  these tables.
- `psclient.c`, the viewer in python and the vala example: user interfaces.
- In `psd.c` the shares of each processor, memory and load; in `netclient.c` the
  formatting of byte counts; command lines.
- Logging, and the functions that print packets, objects and fields. `obus_utils.c` and
  `obus_platform.h`, which wrap the platform.
- Providers of a bus, a callback when an object is added, and `obus_loop_update`, which
  nothing calls.
- The deletion of a timer whose signal is pending (`obus_timer_posix.c:210` has a FIXME):
  what the signal handler then finds is unspecified.
- The contents of the buffer of `netif_read_file` after a read that fails.
- The mutual influence of components beyond what is said above: the protocol assumes
  channels (`ObusIo` and `ObusDecoder` show what they need for that), the examples assume
  the protocol. There is no model of all layers at once.
