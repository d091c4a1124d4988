----------------------- MODULE ObusComponentTheorems ------------------------
(***************************************************************************)
(* Proofs about components that stand alone, for every value of their      *)
(* constants: the life of the objects in the registry, timers, the sockets *)
(* of clients and servers, the hash table, and the list of the peers of a  *)
(* server.  They share no state.                                           *)
(***************************************************************************)
EXTENDS ObusRegistry, Integers, Sequences, FiniteSets, FiniteSetTheorems, SequenceTheorems,
        WellFoundedInduction, TLAPS

-----------------------------------------------------------------------------
(***************************************************************************)
(* The life of the objects.  Nothing that was freed can be reached,        *)
(* whatever fails; and if no bus event fails every object has an owner and *)
(* no list operation goes wrong.                                           *)
(***************************************************************************)

\* The variables have their types.
TypeOK ==
    /\ live \subseteq Objs /\ hash \subseteq Objs /\ registered \subseteq Objs
    /\ listed \subseteq Objs /\ events \subseteq Objs /\ held \subseteq Objs
    /\ node \in [Objs -> {"none", "add", "remove"}]
    /\ event \in {"none", "open", "sent"} /\ bad \in BOOLEAN

\* What makes NothingDangles inductive: the application owns allocated objects that
\* are not registered, and there are no events without a bus event.
Inv ==
    /\ TypeOK /\ NothingDangles
    /\ held \subseteq live /\ held \cap registered = {}
    /\ event = "none" => events = {}

LEMMA InitInv == Init => Inv
  BY Zenon DEF Init, Inv, TypeOK, NothingDangles

LEMMA StepInv == Inv /\ [Next]_vars => Inv'
<1> SUFFICES ASSUME Inv, [Next]_vars PROVE Inv'
  BY Zenon
<1> USE DEF Inv, TypeOK, NothingDangles
<1>1. CASE ServerDestroy
  BY <1>1, Zenon DEF ServerDestroy, BusUnregister, Free, Detach, Access, NotInTheList, NoEvent
<1>2. CASE EventNew
  BY <1>2, Zenon DEF EventNew
<1>3. CASE EventDestroy
  BY <1>3, Zenon DEF EventDestroy, Detach, Free, In, Access, NoEvent
<1>4. CASE SendBusEvent
  BY <1>4, Zenon DEF SendBusEvent, In, ObjectsFit, EventsFit, Access
<1>5. CASE SendBusEventFails
  BY <1>5, Zenon DEF SendBusEventFails, In, Access
<1>6. CASE SendBusEventRefused
  BY <1>6, Zenon DEF SendBusEventRefused, Access, ObjectsFit, EventsFit
<1>7. ASSUME NEW o \in Objs, NewObject(o) PROVE Inv'
  BY <1>7, Zenon DEF NewObject
<1>8. ASSUME NEW o \in Objs, RegisterObject(o) PROVE Inv'
  BY <1>8, Zenon DEF RegisterObject, BusRegister, Access, InTheList
<1>9. ASSUME NEW o \in Objs, UnregisterObject(o) PROVE Inv'
  BY <1>9, Zenon DEF UnregisterObject, BusUnregister, Access, NotInTheList
<1>10. ASSUME NEW o \in Objs, DestroyObject(o) PROVE Inv'
  BY <1>10, Zenon DEF DestroyObject, Free, Detach, Access, NoEvent
<1>11. ASSUME NEW o \in Objs, EventRegisterObject(o) PROVE Inv'
  BY <1>11, Zenon DEF EventRegisterObject
<1>12. ASSUME NEW o \in Objs, EventUnregisterObject(o) PROVE Inv'
  BY <1>12, Zenon DEF EventUnregisterObject
<1>13. ASSUME NEW o \in Objs, EventAddEvent(o) PROVE Inv'
  BY <1>13, Zenon DEF EventAddEvent
<1>14. CASE UNCHANGED vars
  BY <1>14, Zenon DEF vars
<1> QED
  BY <1>1, <1>2, <1>3, <1>4, <1>5, <1>6, <1>7, <1>8, <1>9, <1>10, <1>11, <1>12, <1>13, <1>14, Zenon
     DEF Next

LEMMA InvAlways == Spec => []Inv
  BY InitInv, StepInv, PTL DEF Spec

\* Nothing that was freed is in the table, the list of registered objects or a bus
\* event, for any number of objects and of failures, careless application or not.
THEOREM NothingDanglesCorrect == Spec => []NothingDangles
<1>1. Inv => NothingDangles
  BY Zenon DEF Inv
<1> QED
  BY <1>1, InvAlways, PTL

-----------------------------------------------------------------------------
\* What makes the two inductive: until a bus event is sent its events are of
\* registered objects, unless the application was careless, and every object is the
\* application's or registered.
Faultless ==
    /\ ObjectsOwned /\ NoBadAccess
    /\ careless \in BOOLEAN /\ fails \in Nat
    /\ event = "open" /\ server = "up" /\ ~careless => events \subseteq registered
    /\ event = "open" /\ fails = 0 => live \subseteq held \cup registered

LEMMA InitFaultless == Init => Faultless
<1> SUFFICES ASSUME Init PROVE Faultless
  BY Zenon
<1>1. fails \in Nat /\ ~bad /\ ~careless /\ careless \in BOOLEAN
  BY Zenon DEF Init
<1>2. ObjectsOwned /\ (event = "open" => events \subseteq registered)
  BY Zenon DEF Init, ObjectsOwned
<1>3. event # "open"
  BY Zenon DEF Init
<1> QED
  BY <1>1, <1>2, <1>3, Zenon DEF Faultless, NoBadAccess

LEMMA StepFaultless == Inv /\ Faultless /\ [Next]_vars => Faultless'
<1> SUFFICES ASSUME Inv, Faultless, [Next]_vars PROVE Faultless'
  BY Zenon
<1> USE DEF Inv, TypeOK, NothingDangles, Faultless, ObjectsOwned, NoBadAccess, In
<1>1. CASE ServerDestroy
  <2>1. fails' = fails /\ server' = "down" /\ live' = {}
    BY <1>1, Zenon DEF ServerDestroy, Free
  <2>2. careless' \in BOOLEAN /\ (~careless' => ~careless /\ ~Unfinished)
    BY <1>1, Zenon DEF ServerDestroy
  <2>3. ASSUME fails = 0, ~Unfinished PROVE hash \subseteq listed
    <3>1. SUFFICES ASSUME NEW o \in live, o \notin registered PROVE FALSE
      BY Zenon
    <3>2. o \notin held
      BY <2>3, Zenon DEF Unfinished
    <3>3. node[o] = "remove" /\ event # "none"
      BY <2>3, <3>1, <3>2, Zenon
    <3> QED
      BY <2>3, <3>1, <3>2, <3>3, Zenon DEF Unfinished
  <2>4. ~NoEvent(hash)
    BY Zenon DEF NoEvent
  <2>5. bad' = (bad \/ NotInTheList(hash) \/ NoEvent(hash))
    BY <1>1, Zenon DEF ServerDestroy, Access
  <2>6. NoBadAccess'
    BY <2>1, <2>2, <2>3, <2>4, <2>5, Zenon DEF NotInTheList
  <2> QED
    BY <2>1, <2>2, <2>6, Zenon
<1>2. CASE EventNew
  BY <1>2, Zenon DEF EventNew
<1>3. CASE EventDestroy
  BY <1>3, Zenon DEF EventDestroy, Detach, Free, Access, NoEvent
<1>4. CASE SendBusEvent
  BY <1>4, Zenon DEF SendBusEvent, ObjectsFit, EventsFit, Access, InTheList, NotInTheList
<1>5. CASE SendBusEventFails
  <2>1. fails' \in Nat /\ fails' # 0
    BY <1>5 DEF SendBusEventFails
  <2>2. UNCHANGED careless /\ event' = "sent"
    BY <1>5, Zenon DEF SendBusEventFails
  <2> QED
    BY <2>1, <2>2, Zenon
<1>6. CASE SendBusEventRefused
  BY <1>6, Zenon DEF SendBusEventRefused, Access, ObjectsFit, EventsFit
<1>7. ASSUME NEW o \in Objs, NewObject(o) PROVE Faultless'
  BY <1>7, Zenon DEF NewObject
<1>8. ASSUME NEW o \in Objs, RegisterObject(o) PROVE Faultless'
  BY <1>8, Zenon DEF RegisterObject, BusRegister, Access, InTheList
<1>9. ASSUME NEW o \in Objs, UnregisterObject(o) PROVE Faultless'
  BY <1>9, Zenon DEF UnregisterObject, BusUnregister, Access, NotInTheList
<1>10. ASSUME NEW o \in Objs, DestroyObject(o) PROVE Faultless'
  BY <1>10, Zenon DEF DestroyObject, Free, Detach, Access, NoEvent
<1>11. ASSUME NEW o \in Objs, EventRegisterObject(o) PROVE Faultless'
  BY <1>11, Zenon DEF EventRegisterObject
<1>12. ASSUME NEW o \in Objs, EventUnregisterObject(o) PROVE Faultless'
  BY <1>12, Zenon DEF EventUnregisterObject
<1>13. ASSUME NEW o \in Objs, EventAddEvent(o) PROVE Faultless'
  BY <1>13, Zenon DEF EventAddEvent
<1>14. CASE UNCHANGED vars
  BY <1>14, Zenon DEF vars
<1> QED
  BY <1>1, <1>2, <1>3, <1>4, <1>5, <1>6, <1>7, <1>8, <1>9, <1>10, <1>11, <1>12, <1>13, <1>14, Zenon
     DEF Next

\* As long as no bus event has failed for want of memory every object is the
\* application's, the server's or goes with a bus event, for any number of objects.
THEOREM ObjectsOwnedCorrect == Spec => []ObjectsOwned
<1>1. Faultless => ObjectsOwned
  BY Zenon DEF Faultless
<1> QED
  BY <1>1, InitFaultless, StepFaultless, InvAlways, PTL DEF Spec

\* As long as, moreover, no object was unregistered while one of its events waited in
\* a bus event, the server takes no node out of a list that it is not in and puts none
\* in twice.  This holds for its end too (obus_server_destroy), if the application has
\* destroyed what it owns before: no object is in the table that obus_bus_clear could
\* not unlink, although it looks at no object's is_registered.
THEOREM NoBadAccessCorrect == Spec => []NoBadAccess
<1>1. Faultless => NoBadAccess
  BY Zenon DEF Faultless
<1> QED
  BY <1>1, InitFaultless, StepFaultless, InvAlways, PTL DEF Spec

-----------------------------------------------------------------------------
(***************************************************************************)
(* Timers: obus_timer.c.                                                   *)
(***************************************************************************)

CONSTANTS Timers, MaxSets

VARIABLES timerfd, armed, signal, count, timerEvent, calling, sets, wanted

Clock == INSTANCE ObusTimer WITH event <- timerEvent

\* The types of the variables that the argument is about.
ClockTypes ==
    /\ timerfd \in BOOLEAN
    /\ {armed, signal, calling, wanted} \subseteq [Timers -> BOOLEAN]
    /\ count \in [Timers -> Nat]

\* With a timerfd no signals are raised, a timer that is running is wanted, and an
\* expiration that can be read, or is being served, is that of a timer that is wanted
\* and does not run again.
ClockInv ==
    /\ ClockTypes
    /\ timerfd => \A t \in Timers :
          /\ ~signal[t]
          /\ armed[t] => wanted[t]
          /\ count[t] > 0 \/ calling[t] => wanted[t] /\ ~armed[t]

\* A step of a timer keeps the types.
LEMMA ClockTyped == ClockTypes /\ [Clock!Next]_(Clock!vars) => ClockTypes'
<1> SUFFICES ASSUME ClockTypes, [Clock!Next]_(Clock!vars) PROVE ClockTypes'
  BY Zenon
<1> USE DEF ClockTypes
<1>1. ASSUME NEW t \in Timers, Clock!SetTimer(t) PROVE ClockTypes'
  BY <1>1 DEF Clock!SetTimer, Clock!Forget
<1>2. ASSUME NEW t \in Timers, Clock!ClearTimer(t) PROVE ClockTypes'
  BY <1>2 DEF Clock!ClearTimer, Clock!Forget
<1>3. ASSUME NEW t \in Timers, Clock!Expire(t) PROVE ClockTypes'
  BY <1>3 DEF Clock!Expire
<1>4. ASSUME NEW t \in Timers, Clock!SigHandler(t) PROVE ClockTypes'
  BY <1>4 DEF Clock!SigHandler
<1>5. ASSUME NEW t \in Timers, Clock!Collect(t) PROVE ClockTypes'
  BY <1>5, Zenon DEF Clock!Collect
<1>6. ASSUME NEW t \in Timers, Clock!Events(t) PROVE ClockTypes'
  <2>1. count[t] \in Nat
    BY Zenon
  <2>2. (CASE count[t] = 0 -> 0 [] timerfd -> 0 [] OTHER -> count[t] - 1) \in Nat
    BY <2>1
  <2>3. (count[t] > 0) \in BOOLEAN
    OBVIOUS
  <2> QED BY <1>6, <2>2, <2>3 DEF Clock!Events
<1>7. ASSUME NEW t \in Timers, Clock!Callback(t) PROVE ClockTypes'
  BY <1>7 DEF Clock!Callback, Clock!Forget
<1>8. CASE UNCHANGED Clock!vars
  BY <1>8, Zenon DEF Clock!vars
<1> QED BY <1>1, <1>2, <1>3, <1>4, <1>5, <1>6, <1>7, <1>8 DEF Clock!Next

\* A step of a timer keeps the invariant.
LEMMA ClockStep == ClockInv /\ [Clock!Next]_(Clock!vars) => ClockInv'
<1> SUFFICES ASSUME ClockInv, [Clock!Next]_(Clock!vars) PROVE ClockInv'
  BY Zenon
<1>1. ClockTypes /\ ClockTypes'
  BY ClockTyped, Zenon DEF ClockInv
<1>2. SUFFICES ASSUME timerfd', NEW u \in Timers
               PROVE  /\ ~signal'[u]
                      /\ armed'[u] => wanted'[u]
                      /\ count'[u] > 0 \/ calling'[u] => wanted'[u] /\ ~armed'[u]
  BY <1>1, Zenon DEF ClockInv
<1>3. timerfd' = timerfd
  BY Zenon DEF Clock!Next, Clock!vars, Clock!SetTimer, Clock!ClearTimer, Clock!Expire,
         Clock!SigHandler, Clock!Collect, Clock!Events, Clock!Callback
<1>4. \A t \in Timers : /\ ~signal[t]
                        /\ armed[t] => wanted[t]
                        /\ count[t] > 0 \/ calling[t] => wanted[t] /\ ~armed[t]
  BY <1>2, <1>3, Zenon DEF ClockInv
<1> USE <1>1, <1>2, <1>3, <1>4 DEF ClockTypes
<1>5. ASSUME NEW t \in Timers, \A v \in Timers : ~calling[v], Clock!SetTimer(t)
      PROVE  /\ ~signal'[u]
             /\ armed'[u] => wanted'[u]
             /\ count'[u] > 0 \/ calling'[u] => wanted'[u] /\ ~armed'[u]
  BY <1>5 DEF Clock!SetTimer, Clock!Forget
<1>6. ASSUME NEW t \in Timers, \A v \in Timers : ~calling[v], Clock!ClearTimer(t)
      PROVE  /\ ~signal'[u]
             /\ armed'[u] => wanted'[u]
             /\ count'[u] > 0 \/ calling'[u] => wanted'[u] /\ ~armed'[u]
  BY <1>6 DEF Clock!ClearTimer, Clock!Forget
<1>7. ASSUME NEW t \in Timers, Clock!Expire(t)
      PROVE  /\ ~signal'[u]
             /\ armed'[u] => wanted'[u]
             /\ count'[u] > 0 \/ calling'[u] => wanted'[u] /\ ~armed'[u]
  BY <1>7 DEF Clock!Expire
<1>8. ASSUME NEW t \in Timers, Clock!Events(t)
      PROVE  /\ ~signal'[u]
             /\ armed'[u] => wanted'[u]
             /\ count'[u] > 0 \/ calling'[u] => wanted'[u] /\ ~armed'[u]
  <2>0. (CASE count[t] = 0 -> 0 [] timerfd -> 0 [] OTHER -> count[t] - 1) = 0
    BY Zenon
  <2>1. wanted' = wanted /\ armed' = armed /\ signal' = signal /\ count' = [count EXCEPT ![t] = 0]
    BY <1>8, <2>0, Zenon DEF Clock!Events
  <2>2. calling'[u] => calling[u] \/ count[u] > 0
    BY <1>8, Zenon DEF Clock!Events
  <2> QED BY <2>1, <2>2
<1>9. ASSUME NEW t \in Timers, Clock!Callback(t)
      PROVE  /\ ~signal'[u]
             /\ armed'[u] => wanted'[u]
             /\ count'[u] > 0 \/ calling'[u] => wanted'[u] /\ ~armed'[u]
  BY <1>9 DEF Clock!Callback, Clock!Forget
<1>10. CASE \E t \in Timers : Clock!SigHandler(t) \/ Clock!Collect(t)
  BY <1>10, Zenon DEF Clock!SigHandler, Clock!Collect
<1>11. CASE UNCHANGED Clock!vars
  BY <1>11, Zenon DEF Clock!vars
<1> QED BY <1>5, <1>6, <1>7, <1>8, <1>9, <1>10, <1>11 DEF Clock!Next

\* With a timerfd a callback runs only for a timer that is set and has expired: one
\* that was cleared, or set again, after it had expired is not called back for it
\* (obus_timer_clear, obus_timer_set: timerfd_settime takes back the expiration),
\* however many timers there are and whatever the loop has collected before.
THEOREM NoLateCallbackCorrect == Clock!Spec => []Clock!NoLateCallback
<1>1. Clock!Init => ClockInv
  BY DEF Clock!Init, Clock!Off, ClockInv, ClockTypes
<1>2. ClockInv => Clock!NoLateCallback
  BY Zenon DEF ClockInv, Clock!NoLateCallback
<1> QED BY <1>1, <1>2, ClockStep, PTL DEF Clock!Spec

-----------------------------------------------------------------------------
(***************************************************************************)
(* Sockets: obus_socket.c.                                                 *)
(***************************************************************************)

CONSTANTS Servers, NONE, Family, Addresses, MaxFd, Backlog, MaxPeers, MaxReconnects,
          MaxStarts

VARIABLES cl, fds, sv, name, avail, n

\* MaxFails bounds the failures here as it does for the objects.
Sockets == INSTANCE ObusSocket

\* The states of a descriptor.
FdStates == {"closed", "idle", "progress", "connected", "failed"}

ClientTypes ==
    /\ cl \in [exists : BOOLEAN, addr : Addresses \cup {NONE}, timer : BOOLEAN,
               fd : 0..MaxFd, ofd : 0..MaxFd, up : BOOLEAN]
    /\ fds \in [1..MaxFd -> FdStates]
    /\ n \in [reconnects : Nat, starts : Nat, fails : Nat]

\* Of the timer, the loop and the connection a client has one at most, and one
\* as long as nothing has failed; its descriptor is open while the loop or the user
\* has it.
ClientInv ==
    /\ cl.timer => cl.ofd = 0 /\ ~cl.up
    /\ cl.ofd # 0 => ~cl.up /\ cl.ofd = cl.fd /\ fds[cl.fd] \in {"progress", "connected", "failed"}
    /\ cl.up => cl.fd # 0 /\ fds[cl.fd] = "connected"
    /\ cl.exists /\ n.fails = 0 => cl.timer \/ cl.ofd # 0 \/ cl.up
    /\ ~cl.exists => ~cl.timer /\ cl.fd = 0 /\ cl.ofd = 0 /\ ~cl.up

\* The descriptors that are in use.
InUse(d) == {f \in 1..MaxFd : d[f] # "closed"}

\* Only a reconnection makes a client forget a descriptor: the socket that it opens
\* is replaced when the timer expires.  So the descriptors never run out.
DescriptorsInv ==
    /\ n.reconnects <= MaxReconnects
    /\ Cardinality(InUse(fds) \ {cl.fd}) + (IF cl.timer /\ cl.fd # 0 THEN 1 ELSE 0) <= n.reconnects

\* The records of a server.
ServerType == [exists : BOOLEAN, timer : BOOLEAN, fd : {"closed", "open", "listening"},
               ofd : BOOLEAN, queue : Nat, peers : Nat, open : Int]

\* A server that does not exist, or waits for its address, does not listen.
ServerOk(r) ==
    /\ r \in ServerType
    /\ ~r.exists => r.fd = "closed" /\ ~r.timer /\ ~r.ofd /\ r.peers = 0
    /\ r.timer => r.fd # "listening"
    /\ r.open = r.peers + (IF r.fd = "listening" THEN 1 ELSE 0)

ServerInv ==
    /\ sv \in [Servers -> ServerType]
    /\ name \in Servers \cup {NONE}
    /\ \A s \in Servers : ServerOk(sv[s])

\* Numbers have a least one.
LEMMA LeastNumber ==
    ASSUME NEW S \in SUBSET Nat, S # {}
    PROVE  \E x \in S : \A y \in S : x <= y
<1> DEFINE R == OpToRel(<, Nat)
<1>1. IsWellFoundedOn(R, Nat)
  BY NatLessThanWellFounded, Zenon
<1>2. \A x, y \in Nat : x < y => <<x, y>> \in R
  BY Zenon DEF OpToRel
<1> HIDE DEF R
<1>3. PICK x \in S : \A y \in S : ~(<<y, x>> \in R)
  BY <1>1, WFMin, Zenon
<1>4. \A y \in S : y \in Nat /\ x \in Nat /\ ~(y < x)
  BY <1>2, <1>3, Zenon
<1>5. \A y \in S : x <= y
  BY <1>4
<1> QED BY <1>3, <1>5

\* As long as not all descriptors are in use the kernel finds one that is not.
LEMMA LowestFree ==
    ASSUME MaxFd \in Nat, NEW d, Cardinality(InUse(d)) < MaxFd
    PROVE  Sockets!LowestOf(d) \in 1..MaxFd /\ d[Sockets!LowestOf(d)] = "closed"
<1> DEFINE F == {f \in 1..MaxFd : d[f] = "closed"}
<1>1. F # {}
  <2>1. Cardinality(1..MaxFd) = MaxFd
    BY FS_Interval
  <2>2. F = {} => InUse(d) = 1..MaxFd
    BY Zenon DEF InUse
  <2> QED BY <2>1, <2>2
<1>2. F \in SUBSET Nat
  OBVIOUS
<1>3. \E f \in F : \A g \in F : f <= g
  <2> HIDE DEF F
  <2> QED BY <1>1, <1>2, LeastNumber
<1>4. \E f \in 1..MaxFd : d[f] = "closed" /\ \A g \in 1..MaxFd : d[g] = "closed" => f <= g
  BY <1>3, Zenon
<1> QED BY <1>4 DEF Sockets!LowestOf, Sockets!Fds

\* The invariant of the client.
Client == ClientTypes /\ ClientInv /\ DescriptorsInv

\* Descriptors in use are finitely many.
LEMMA InUseFinite == ASSUME MaxFd \in Nat, NEW d PROVE IsFiniteSet(InUse(d))
<1>1. IsFiniteSet(1..MaxFd)
  BY FS_Interval
<1> QED BY <1>1, FS_Subset DEF InUse

\* A timer that is set has a descriptor left for its connection.
LEMMA TimerHasDescriptor ==
    ASSUME Sockets!SocketAssumption, Client, cl.timer
    PROVE  /\ Sockets!Lowest \in 1..MaxFd /\ fds[Sockets!Lowest] = "closed"
           /\ Cardinality(InUse(fds)) <= n.reconnects
<1> USE DEF Client, ClientTypes, DescriptorsInv, Sockets!SocketAssumption
<1>1. MaxFd \in Nat /\ IsFiniteSet(InUse(fds)) /\ Cardinality(InUse(fds)) \in Nat
  BY InUseFinite, FS_CardinalityType, Zenon
<1>2. Cardinality(InUse(fds) \ {cl.fd}) =
        IF cl.fd \in InUse(fds) THEN Cardinality(InUse(fds)) - 1 ELSE Cardinality(InUse(fds))
  BY <1>1, FS_RemoveElement, Zenon
<1>3. cl.fd \in InUse(fds) => cl.fd # 0
  BY DEF InUse
<1>4. Cardinality(InUse(fds)) <= n.reconnects
  <2>1. CASE cl.fd # 0
    BY <1>1, <1>2, <2>1, SMTT(30)
  <2>2. CASE cl.fd = 0
    BY <1>1, <1>2, <1>3, <2>2
  <2> QED BY <2>1, <2>2
<1>5. Cardinality(InUse(fds)) < MaxFd
  BY <1>1, <1>4, SMTT(30)
<1> QED BY <1>1, <1>4, <1>5, LowestFree DEF Sockets!Lowest

\* The timer of the client expires: obus_socket_connect_timer_cb.
LEMMA ConnectTimerKeeps ==
    ASSUME Sockets!SocketAssumption, Client, Sockets!ConnectTimer
    PROVE  Client'
<1> SUFFICES ASSUME NEW L, L = Sockets!Lowest PROVE Client'
  BY Zenon
<1> DEFINE c == [cl EXCEPT !.timer = FALSE, !.fd = L]
<1>1. /\ MaxFd \in Nat /\ L \in 1..MaxFd /\ fds[L] = "closed" /\ cl.timer
      /\ Cardinality(InUse(fds)) <= n.reconnects /\ n' = n
      /\ Cardinality(InUse(fds)) \in Nat
  BY TimerHasDescriptor, InUseFinite, FS_CardinalityType, Zenon
  DEF Sockets!ConnectTimer, Sockets!SocketAssumption
<1>2. ASSUME NEW x \in FdStates \ {"closed"}, fds'[L] = x, fds' \in [1..MaxFd -> FdStates],
             \A f \in (1..MaxFd) \ {L} : fds'[f] = fds[f]
      PROVE  /\ Cardinality(InUse(fds') \ {L}) \in Nat
             /\ Cardinality(InUse(fds') \ {L}) <= n.reconnects
  <2>1. InUse(fds') \ {L} = InUse(fds)
    BY <1>1, <1>2, Zenon DEF InUse
  <2> QED BY <1>1, <2>1
<1>3. CASE cl' = [c EXCEPT !.up = TRUE] /\ fds' = [fds EXCEPT ![L] = "connected"]
  <2>1. cl' = [exists |-> cl.exists, addr |-> cl.addr, timer |-> FALSE, fd |-> L, ofd |-> 0,
               up |-> TRUE]
    BY <1>1, <1>3, Zenon DEF Client, ClientTypes, ClientInv
  <2>0. /\ fds'[L] = "connected" /\ fds' \in [1..MaxFd -> FdStates]
        /\ \A f \in (1..MaxFd) \ {L} : fds'[f] = fds[f]
    BY <1>1, <1>3, Zenon DEF Client, ClientTypes, FdStates
  <2>2. ClientTypes' /\ ClientInv'
    BY <1>1, <2>0, <2>1 DEF Client, ClientTypes, ClientInv
  <2>3. cl'.fd = L /\ ~cl'.timer
    BY <2>1, Zenon
  <2>4. DescriptorsInv'
    <3>1. /\ Cardinality(InUse(fds') \ {L}) \in Nat
          /\ Cardinality(InUse(fds') \ {L}) <= n.reconnects
      BY <1>2, <2>0, Zenon DEF FdStates
    <3> QED BY <1>1, <2>3, <3>1 DEF Client, DescriptorsInv
  <2> QED BY <2>2, <2>4 DEF Client
<1>4. CASE cl' = [c EXCEPT !.ofd = L] /\ fds' = [fds EXCEPT ![L] = "progress"]
  <2>1. cl' = [exists |-> cl.exists, addr |-> cl.addr, timer |-> FALSE, fd |-> L, ofd |-> L,
               up |-> FALSE] /\ cl.exists
    BY <1>1, <1>4, Zenon DEF Client, ClientTypes, ClientInv
  <2>0. /\ fds'[L] = "progress" /\ fds' \in [1..MaxFd -> FdStates]
        /\ \A f \in (1..MaxFd) \ {L} : fds'[f] = fds[f]
    BY <1>1, <1>4, Zenon DEF Client, ClientTypes, FdStates
  <2>2. ClientTypes' /\ ClientInv'
    BY <1>1, <2>0, <2>1 DEF Client, ClientTypes, ClientInv
  <2>3. cl'.fd = L /\ ~cl'.timer
    BY <2>1, Zenon
  <2>4. DescriptorsInv'
    <3>1. /\ Cardinality(InUse(fds') \ {L}) \in Nat
          /\ Cardinality(InUse(fds') \ {L}) <= n.reconnects
      BY <1>2, <2>0, Zenon DEF FdStates
    <3> QED BY <1>1, <2>3, <3>1 DEF Client, DescriptorsInv
  <2> QED BY <2>2, <2>4 DEF Client
<1>5. CASE cl' = [c EXCEPT !.fd = 0, !.ofd = 0, !.timer = TRUE] /\ fds' = fds
  <2>1. InUse(fds) \ {0} = InUse(fds)
    BY DEF InUse
  <2>2. cl' = [exists |-> cl.exists, addr |-> cl.addr, timer |-> TRUE, fd |-> 0, ofd |-> 0,
               up |-> FALSE] /\ cl.exists
    BY <1>1, <1>5, Zenon DEF Client, ClientTypes, ClientInv
  <2>3. ClientTypes' /\ ClientInv'
    BY <1>1, <1>5, <2>2, Zenon DEF Client, ClientTypes, ClientInv
  <2>4. cl'.fd = 0
    BY <2>2, Zenon
  <2>5. DescriptorsInv'
    BY <1>1, <1>5, <2>1, <2>4 DEF Client, DescriptorsInv
  <2> QED BY <2>3, <2>5 DEF Client
<1> QED BY <1>3, <1>4, <1>5 DEF Sockets!ConnectTimer, Sockets!Connected, Sockets!Retry

\* The attempt of the timer is not watched: obus_loop_add failed.
LEMMA ConnectTimerAddKeeps ==
    ASSUME Sockets!SocketAssumption, Client, Sockets!ConnectTimerAddFails
    PROVE  Client'
<1> SUFFICES ASSUME NEW L, L = Sockets!Lowest PROVE Client'
  BY Zenon
<1>1. /\ MaxFd \in Nat /\ L \in 1..MaxFd /\ fds[L] = "closed" /\ cl.timer
      /\ Cardinality(InUse(fds)) <= n.reconnects /\ Cardinality(InUse(fds)) \in Nat
  BY TimerHasDescriptor, InUseFinite, FS_CardinalityType, Zenon
  DEF Sockets!ConnectTimerAddFails, Sockets!SocketAssumption
<1>2. /\ fds'[L] = "progress" /\ fds' \in [1..MaxFd -> FdStates]
      /\ \A f \in (1..MaxFd) \ {L} : fds'[f] = fds[f]
  BY <1>1, Zenon DEF Client, ClientTypes, FdStates, Sockets!ConnectTimerAddFails
<1>3. cl' = [exists |-> cl.exists, addr |-> cl.addr, timer |-> FALSE, fd |-> L, ofd |-> 0,
             up |-> FALSE] /\ cl.exists
  BY <1>1, Zenon DEF Client, ClientTypes, ClientInv, Sockets!ConnectTimerAddFails
<1>4. /\ n' \in [reconnects : Nat, starts : Nat, fails : Nat]
      /\ n'.fails # 0 /\ n'.reconnects = n.reconnects
  BY SMTT(30) DEF Client, ClientTypes, Sockets!ConnectTimerAddFails, Sockets!Failing
<1>5. ClientTypes' /\ ClientInv'
  BY <1>1, <1>2, <1>3, <1>4 DEF Client, ClientTypes, ClientInv
<1>6. InUse(fds') \ {L} = InUse(fds) /\ cl'.fd = L /\ ~cl'.timer
  BY <1>1, <1>2, <1>3, Zenon DEF InUse
<1>7. DescriptorsInv'
  BY <1>1, <1>4, <1>6 DEF Client, DescriptorsInv
<1> QED BY <1>5, <1>7 DEF Client

\* The kernel ends an attempt to connect.
LEMMA EstablishedKeeps ==
    ASSUME Sockets!SocketAssumption, Client, NEW f \in 1..MaxFd, Sockets!Established(f)
    PROVE  Client'
<1> USE DEF Client, ClientTypes
<1>1. /\ MaxFd \in Nat /\ cl' = cl /\ fds[f] = "progress"
      /\ n' \in [reconnects : Nat, starts : Nat, fails : Nat]
      /\ n'.reconnects = n.reconnects /\ (n'.fails = 0 => n.fails = 0)
  BY SMTT(30) DEF Sockets!SocketAssumption, Sockets!Established, Sockets!Failing
<1>2. PICK x \in {"connected", "failed"} : fds' = [fds EXCEPT ![f] = x]
  BY Zenon DEF Sockets!Established
<1>3. fds' \in [1..MaxFd -> FdStates] /\ InUse(fds') = InUse(fds)
  BY <1>1, <1>2, Zenon DEF FdStates, InUse
<1>4. ClientInv'
  BY <1>1, <1>2, <1>3 DEF ClientInv
<1> QED BY <1>1, <1>3, <1>4 DEF DescriptorsInv

\* Closing the descriptor of the client leaves those it has forgotten.
LEMMA ClosedKeeps ==
    ASSUME Sockets!SocketAssumption, Client, NEW d, d = Sockets!Closed(cl, fds)
    PROVE  /\ d \in [1..MaxFd -> FdStates] /\ InUse(d) = InUse(fds) \ {cl.fd}
           /\ Cardinality(InUse(d)) \in Nat /\ Cardinality(InUse(d)) <= n.reconnects
<1> USE DEF Client, ClientTypes
<1>1. MaxFd \in Nat
  BY Zenon DEF Sockets!SocketAssumption
<1>2. d \in [1..MaxFd -> FdStates] /\ InUse(d) = InUse(fds) \ {cl.fd}
  <2>1. CASE cl.fd = 0
    BY <2>1 DEF Sockets!Closed, InUse
  <2>2. CASE cl.fd # 0
    <3>1. cl.fd \in 1..MaxFd /\ d = [fds EXCEPT ![cl.fd] = "closed"]
      BY <1>1, <2>2 DEF Sockets!Closed
    <3> QED BY <1>1, <3>1 DEF InUse, FdStates
  <2> QED BY <2>1, <2>2
<1>3. Cardinality(InUse(d)) \in Nat
  BY <1>1, InUseFinite, FS_CardinalityType, Zenon
<1> QED BY <1>2, <1>3 DEF DescriptorsInv

\* The other steps of the client, and the steps of others.
LEMMA ClientKeeps ==
    ASSUME Sockets!SocketAssumption, Client, [Sockets!Next]_(Sockets!vars)
    PROVE  Client'
<1>0. /\ MaxFd \in Nat /\ MaxReconnects \in Nat /\ MaxFd > MaxReconnects + 1
      /\ Sockets!Fds = 1..MaxFd
      /\ ClientTypes /\ ClientInv /\ DescriptorsInv
  BY Zenon DEF Sockets!SocketAssumption, Client, Sockets!Fds
<1>1. ASSUME NEW a \in Addresses, Sockets!ClientNew(a) PROVE Client'
  <2>1. /\ cl' = [exists |-> TRUE, addr |-> a, timer |-> TRUE, fd |-> 0, ofd |-> 0, up |-> FALSE]
        /\ fds' = fds /\ n' = n
    BY <1>1, Zenon DEF Sockets!ClientNew, Sockets!NoClient
  <2>2. ClientTypes' /\ ClientInv'
    BY <1>0, <2>1 DEF ClientTypes, ClientInv
  <2>3. ~cl.timer /\ cl.fd = 0
    BY <1>0, <1>1, Zenon DEF Sockets!ClientNew, ClientInv
  <2>4. DescriptorsInv'
    BY <1>0, <2>1, <2>3, Zenon DEF DescriptorsInv
  <2> QED BY <2>2, <2>4 DEF Client
<1>2. ASSUME Sockets!ConnectTimerOpenFails PROVE Client'
  <2>1. /\ cl' = [cl EXCEPT !.timer = FALSE] /\ fds' = fds
        /\ n' = [n EXCEPT !.fails = n.fails + 1] /\ cl.timer
    BY <1>2, Zenon DEF Sockets!ConnectTimerOpenFails, Sockets!Failing
  <2>2. ClientTypes' /\ ClientInv'
    <3>1. n' \in [reconnects : Nat, starts : Nat, fails : Nat] /\ n'.fails # 0
      BY <1>0, <2>1 DEF ClientTypes
    <3>2. cl' = [exists |-> cl.exists, addr |-> cl.addr, timer |-> FALSE, fd |-> cl.fd, ofd |-> 0,
                 up |-> FALSE] /\ cl.exists
      BY <1>0, <2>1, Zenon DEF ClientTypes, ClientInv
    <3> QED BY <1>0, <2>1, <3>1, <3>2 DEF ClientTypes, ClientInv
  <2>3. cl'.fd = cl.fd /\ ~cl'.timer /\ n'.reconnects = n.reconnects
    BY <1>0, <2>1, Zenon DEF ClientTypes
  <2>4. Cardinality(InUse(fds) \ {cl.fd}) \in Nat
    BY <1>0, InUseFinite, FS_RemoveElement, FS_CardinalityType, Zenon
  <2>5. DescriptorsInv'
    BY <1>0, <2>1, <2>3, <2>4, SMTT(30) DEF DescriptorsInv, ClientTypes
  <2> QED BY <2>2, <2>5 DEF Client
<1>3. ASSUME NEW d, d = Sockets!Closed(cl, fds),
             fds' = d, cl'.fd = 0, n'.reconnects >= n.reconnects,
             n'.reconnects \in Nat, n'.reconnects <= MaxReconnects
      PROVE  DescriptorsInv'
  <2>1. /\ Cardinality(InUse(d)) \in Nat /\ Cardinality(InUse(d)) <= n.reconnects
        /\ InUse(d) \ {0} = InUse(d)
    BY <1>3, ClosedKeeps DEF InUse
  <2>2. (IF cl'.timer /\ cl'.fd # 0 THEN 1 ELSE 0) = 0
    BY <1>3, Zenon
  <2>3. InUse(fds') \ {cl'.fd} = InUse(d)
    BY <1>3, <2>1, Zenon
  <2>4. n.reconnects \in Nat
    BY <1>0, Zenon DEF ClientTypes
  <2>5. Cardinality(InUse(d)) + 0 <= n'.reconnects
    BY <1>3, <2>1, <2>4
  <2> QED BY <1>3, <2>2, <2>3, <2>5 DEF DescriptorsInv
<1>4. ASSUME Sockets!ClientEvents PROVE Client'
  <2>1. /\ cl.ofd # 0 /\ cl.ofd = cl.fd /\ n' = n /\ ~cl.timer /\ ~cl.up /\ cl.exists
        /\ cl.fd \in 1..MaxFd
    BY <1>0, <1>4 DEF Sockets!ClientEvents, ClientInv, ClientTypes
  <2>2. CASE /\ fds[cl.ofd] = "connected" /\ fds' = fds
             /\ cl' = [[cl EXCEPT !.ofd = 0] EXCEPT !.up = TRUE]
    <3>0. cl' = [exists |-> TRUE, addr |-> cl.addr, timer |-> FALSE, fd |-> cl.fd, ofd |-> 0,
                 up |-> TRUE]
      BY <1>0, <2>1, <2>2, Zenon DEF ClientTypes
    <3>1. ClientTypes' /\ ClientInv'
      <4>0. fds' = fds /\ n' = n /\ cl.addr \in Addresses \cup {NONE} /\ cl.fd \in 0..MaxFd
        BY <1>0, <2>1, <2>2, Zenon DEF ClientTypes
      <4>1. ClientTypes'
        BY <1>0, <3>0, <4>0 DEF ClientTypes
      <4>2. fds'[cl'.fd] = "connected" /\ cl'.fd # 0
        BY <2>1, <2>2, <3>0, Zenon
      <4> QED BY <3>0, <4>1, <4>2 DEF ClientInv
    <3>2. cl'.fd = cl.fd /\ ~cl'.timer
      BY <1>0, <2>1, <2>2, Zenon DEF ClientTypes
    <3>3. DescriptorsInv'
      BY <1>0, <2>1, <2>2, <3>2, Zenon DEF DescriptorsInv
    <3> QED BY <3>1, <3>3 DEF Client
  <2>3. CASE /\ fds' = [fds EXCEPT ![cl.fd] = "closed"]
             /\ cl' = [cl EXCEPT !.fd = 0, !.ofd = 0, !.timer = TRUE]
    <3>1. fds' = Sockets!Closed(cl, fds)
      BY <2>1, <2>3, Zenon DEF Sockets!Closed
    <3>2. cl'.fd = 0
      BY <1>0, <2>3, Zenon DEF ClientTypes
    <3>3. DescriptorsInv'
      <4>1. n.reconnects \in Nat /\ n.reconnects <= MaxReconnects /\ n'.reconnects >= n.reconnects
        BY <1>0, <2>1 DEF DescriptorsInv, ClientTypes
      <4> QED BY <1>3, <2>1, <3>1, <3>2, <4>1
    <3>4. fds' \in [1..MaxFd -> FdStates]
      BY <3>1, ClosedKeeps, Zenon
    <3>5. cl' = [exists |-> TRUE, addr |-> cl.addr, timer |-> TRUE, fd |-> 0, ofd |-> 0,
                 up |-> FALSE]
      BY <1>0, <2>1, <2>3, Zenon DEF ClientTypes
    <3>6. ClientTypes' /\ ClientInv'
      BY <1>0, <2>1, <3>4, <3>5 DEF ClientTypes, ClientInv
    <3> QED BY <3>3, <3>6 DEF Client
  <2> QED BY <1>4, <2>2, <2>3 DEF Sockets!ClientEvents, Sockets!Connected, Sockets!Retry
<1>5. ASSUME Sockets!Reconnect PROVE Client'
  <2> SUFFICES ASSUME NEW d, d = Sockets!Closed(cl, fds), NEW L, L = Sockets!LowestOf(d)
               PROVE  Client'
    BY Zenon
  <2>1. /\ cl.up /\ n.reconnects < MaxReconnects /\ n' = [n EXCEPT !.reconnects = n.reconnects + 1]
        /\ fds' = [d EXCEPT ![L] = "idle"] /\ cl.exists
        /\ cl' = [cl EXCEPT !.up = FALSE, !.ofd = 0, !.fd = L, !.timer = TRUE]
    BY <1>0, <1>5, Zenon DEF Sockets!Reconnect, ClientInv
  <2>2. /\ d \in [1..MaxFd -> FdStates]
        /\ Cardinality(InUse(d)) \in Nat /\ Cardinality(InUse(d)) <= n.reconnects
    BY ClosedKeeps, Zenon
  <2>3. L \in 1..MaxFd /\ d[L] = "closed"
    <3>1. Cardinality(InUse(d)) < MaxFd
      BY <1>0, <2>1, <2>2 DEF ClientTypes
    <3> QED BY <1>0, <3>1, LowestFree
  <2>4. fds' \in [1..MaxFd -> FdStates] /\ InUse(fds') \ {L} = InUse(d)
    BY <2>1, <2>2, <2>3, Zenon DEF InUse, FdStates
  <2>5. ClientTypes' /\ ClientInv'
    <3>1. n' \in [reconnects : Nat, starts : Nat, fails : Nat]
      BY <1>0, <2>1, SMTT(30) DEF ClientTypes
    <3>2. cl' = [exists |-> cl.exists, addr |-> cl.addr, timer |-> TRUE, fd |-> L, ofd |-> 0,
                 up |-> FALSE]
      BY <1>0, <2>1, Zenon DEF ClientTypes
    <3>3. ClientTypes'
      BY <1>0, <2>3, <2>4, <3>1, <3>2, SMTT(30) DEF ClientTypes
    <3>4. cl.exists
      BY <2>1, Zenon
    <3> QED BY <3>2, <3>3, <3>4 DEF ClientInv
  <2>6. cl'.fd = L /\ cl'.timer /\ L # 0 /\ n'.reconnects = n.reconnects + 1 /\ n.reconnects \in Nat
    BY <1>0, <2>1, <2>3, SMTT(30) DEF ClientTypes
  <2>7. DescriptorsInv'
    <3>1. (IF cl'.timer /\ cl'.fd # 0 THEN 1 ELSE 0) = 1
      BY <2>6, Zenon
    <3>2. InUse(fds') \ {cl'.fd} = InUse(d)
      BY <2>4, <2>6, Zenon
    <3>3. Cardinality(InUse(d)) + 1 <= n'.reconnects /\ n'.reconnects <= MaxReconnects
      BY <1>0, <2>1, <2>2, <2>6, SMTT(30)
    <3> QED BY <3>1, <3>2, <3>3 DEF DescriptorsInv
  <2> QED BY <2>5, <2>7 DEF Client
<1>6. ASSUME Sockets!ReconnectOpenFails PROVE Client'
  <2>1. /\ n.reconnects < MaxReconnects
        /\ n' = [[n EXCEPT !.fails = n.fails + 1] EXCEPT !.reconnects = n.reconnects + 1]
        /\ fds' = Sockets!Closed(cl, fds) /\ cl.exists
        /\ cl' = [cl EXCEPT !.up = FALSE, !.ofd = 0, !.fd = 0, !.timer = FALSE]
    BY <1>0, <1>6, Zenon DEF Sockets!ReconnectOpenFails, Sockets!Failing, ClientInv, ClientTypes
  <2>2. fds' \in [1..MaxFd -> FdStates]
    BY <2>1, ClosedKeeps, Zenon
  <2>3. ClientTypes' /\ ClientInv'
    <3>0. /\ n' = [reconnects |-> n.reconnects + 1, starts |-> n.starts, fails |-> n.fails + 1]
          /\ n.fails \in Nat /\ n.reconnects \in Nat /\ n.starts \in Nat
      BY <1>0, <2>1, Zenon DEF ClientTypes
    <3>1. n' \in [reconnects : Nat, starts : Nat, fails : Nat] /\ n'.fails # 0
      BY <3>0
    <3>2. cl' = [exists |-> cl.exists, addr |-> cl.addr, timer |-> FALSE, fd |-> 0, ofd |-> 0,
                 up |-> FALSE]
      BY <1>0, <2>1, Zenon DEF ClientTypes
    <3>3. ClientTypes'
      BY <1>0, <2>2, <3>1, <3>2 DEF ClientTypes
    <3>4. cl.exists
      BY <2>1, Zenon
    <3> QED BY <3>1, <3>2, <3>3, <3>4 DEF ClientInv
  <2>4. cl'.fd = 0 /\ n'.reconnects = n.reconnects + 1 /\ n.reconnects \in Nat
    BY <1>0, <2>1, Zenon DEF ClientTypes
  <2>5. DescriptorsInv'
    BY <1>0, <1>3, <2>1, <2>4, SMTT(30)
  <2> QED BY <2>3, <2>5 DEF Client
<1>7. ASSUME Sockets!ClientDestroy PROVE Client'
  <2>1. /\ n' = n /\ fds' = Sockets!Closed(cl, fds)
        /\ cl' = [exists |-> FALSE, addr |-> NONE, timer |-> FALSE, fd |-> 0, ofd |-> 0, up |-> FALSE]
    BY <1>7, Zenon DEF Sockets!ClientDestroy, Sockets!NoClient
  <2>2. fds' \in [1..MaxFd -> FdStates]
    BY <2>1, ClosedKeeps, Zenon
  <2>3. ClientTypes' /\ ClientInv'
    BY <1>0, <2>1, <2>2 DEF ClientTypes, ClientInv
  <2>4. cl'.fd = 0 /\ n.reconnects \in Nat /\ n.reconnects <= MaxReconnects
    BY <1>0, <2>1, Zenon DEF ClientTypes, DescriptorsInv
  <2>5. DescriptorsInv'
    BY <1>0, <1>3, <2>1, <2>4, SMTT(30)
  <2> QED BY <2>3, <2>5 DEF Client
<1>8. ASSUME cl' = cl, fds' = fds, n' \in [reconnects : Nat, starts : Nat, fails : Nat],
             n'.reconnects = n.reconnects, n'.fails >= n.fails
      PROVE  Client'
  <2>1. ClientTypes' /\ ClientInv'
    BY <1>0, <1>8 DEF ClientTypes, ClientInv
  <2> QED BY <1>0, <1>8, <2>1 DEF Client, DescriptorsInv
<1>9. ASSUME NEW s \in Servers,
             \/ Sockets!ServerNew(s) \/ Sockets!ServerNewFails(s)
             \/ Sockets!BindTimer(s) \/ Sockets!BindTimerFails(s)
             \/ Sockets!Accept(s) \/ Sockets!ListenError(s) \/ Sockets!PeerDisconnect(s)
             \/ Sockets!ServerDestroy(s) \/ Sockets!ServerCrash(s)
      PROVE  Client'
  <2>1. \/ n' = n \/ n' = [n EXCEPT !.fails = n.fails + 1] \/ n' = [n EXCEPT !.starts = n.starts + 1]
        \/ n' = [[n EXCEPT !.fails = n.fails + 1] EXCEPT !.starts = @ + 1]
    BY <1>9, Zenon DEF Sockets!ServerNew, Sockets!ServerNewFails, Sockets!BindTimer,
       Sockets!BindTimerFails, Sockets!Accept,
       Sockets!ListenError, Sockets!PeerDisconnect, Sockets!ServerDestroy, Sockets!ServerCrash,
       Sockets!Failing
  <2>2. cl' = cl /\ fds' = fds
    BY <1>9, Zenon DEF Sockets!ServerNew, Sockets!ServerNewFails, Sockets!BindTimer,
       Sockets!BindTimerFails, Sockets!Accept, Sockets!ListenError, Sockets!PeerDisconnect, Sockets!ServerDestroy, Sockets!ServerCrash
  <2>3. /\ n' \in [reconnects : Nat, starts : Nat, fails : Nat]
        /\ n'.reconnects = n.reconnects /\ n'.fails >= n.fails
    <3>1. PICK f \in Nat, st \in Nat :
             n' = [reconnects |-> n.reconnects, starts |-> st, fails |-> f] /\ f >= n.fails
      <4>1. /\ n \in [reconnects : Nat, starts : Nat, fails : Nat]
            /\ n.fails + 1 \in Nat /\ n.starts + 1 \in Nat
            /\ n.fails >= n.fails /\ n.fails + 1 >= n.fails
        BY <1>0 DEF ClientTypes
      <4>2. \E f \in {n.fails, n.fails + 1}, st \in {n.starts, n.starts + 1} :
               n' = [reconnects |-> n.reconnects, starts |-> st, fails |-> f]
        BY <2>1, <4>1, ZenonT(40)
      <4> QED BY <4>1, <4>2, Zenon
    <3> QED BY <1>0, <3>1 DEF ClientTypes
  <2> QED BY <1>8, <2>2, <2>3
<1>10. CASE Sockets!InterfaceUp \/ UNCHANGED Sockets!vars
  <2>1. cl' = cl /\ fds' = fds /\ n' = n
    BY <1>10, Zenon DEF Sockets!InterfaceUp, Sockets!vars
  <2> QED BY <1>0, <1>8, <2>1 DEF ClientTypes
<1> QED BY <1>0, <1>1, <1>2, <1>4, <1>5, <1>6, <1>7, <1>9, <1>10, ConnectTimerKeeps,
           ConnectTimerAddKeeps, EstablishedKeeps DEF Sockets!Next

\* A step that changes one server well keeps the invariant.
LEMMA OneServer ==
    ASSUME ServerInv, NEW s \in Servers, NEW r, ServerOk(r),
           sv' = [sv EXCEPT ![s] = r],
           name' \in Servers \cup {NONE}
    PROVE  ServerInv'
BY Zenon DEF ServerInv, ServerOk

\* A connection that is accepted becomes a peer with a descriptor.
LEMMA Accepted ==
    ASSUME NEW r, ServerOk(r), r.ofd, r.queue > 0
    PROVE  ServerOk([r EXCEPT !.queue = r.queue - 1, !.peers = r.peers + 1, !.open = r.open + 1])
<1> DEFINE a == [r EXCEPT !.queue = r.queue - 1, !.peers = r.peers + 1, !.open = r.open + 1]
<1>1. r \in ServerType
  BY Zenon DEF ServerOk
<1>2. /\ a.exists = r.exists /\ a.timer = r.timer /\ a.fd = r.fd /\ a.ofd = r.ofd
      /\ a.peers = r.peers + 1 /\ a.open = r.open + 1
  BY <1>1, Zenon DEF ServerType
<1>3. a \in ServerType
  <2>1. r.queue - 1 \in Nat /\ r.peers + 1 \in Nat /\ r.open + 1 \in Int
    BY <1>1 DEF ServerType
  <2> QED BY <1>1, <2>1 DEF ServerType
<1> HIDE DEF a
<1>4. ServerOk(a)
  BY <1>1, <1>2, <1>3 DEF ServerOk, ServerType
<1> QED BY <1>4 DEF a

\* The steps of the servers, and of the kernel for them.
LEMMA ServerKeeps ==
    ASSUME Sockets!SocketAssumption, ServerInv, [Sockets!Next]_(Sockets!vars)
    PROVE  ServerInv'
<1>1. ASSUME NEW s \in Servers, NEW r, sv' = [sv EXCEPT ![s] = r], ServerOk(r),
             name' \in {name, s, NONE}
      PROVE  ServerInv'
  BY <1>1, OneServer, Zenon DEF ServerInv
<1>2. ASSUME sv' = sv, name' = name PROVE ServerInv'
  BY <1>2, Zenon DEF ServerInv
<1>3. ASSUME Sockets!Reachable, sv' = Sockets!Queued, name' = name PROVE ServerInv'
  <2>1. name \in Servers
    BY <1>3, Zenon DEF Sockets!Reachable, ServerInv
  <2>2. sv' = [sv EXCEPT ![name] = [sv[name] EXCEPT !.queue = sv[name].queue + 1]]
    BY <1>3, <2>1, Zenon DEF Sockets!Queued, ServerInv
  <2>3. ServerOk(sv[name]) /\ sv[name] \in ServerType
    BY <2>1, Zenon DEF ServerInv
  <2>4. ServerOk([sv[name] EXCEPT !.queue = sv[name].queue + 1])
    BY <2>3 DEF ServerOk, ServerType
  <2> QED BY <1>1, <1>3, <2>1, <2>2, <2>4
<1>4. ASSUME NEW s \in Servers, Sockets!BindListens(s), sv[s].timer \/ ~sv[s].exists
      PROVE  ServerInv'
  <2>1. ServerOk(sv[s]) /\ sv[s] \in ServerType /\ sv \in [Servers -> ServerType]
    BY Zenon DEF ServerInv
  <2> DEFINE r == [exists |-> TRUE, timer |-> FALSE, fd |-> "listening", ofd |-> TRUE,
                   queue |-> sv[s].queue, peers |-> sv[s].peers, open |-> sv[s].open + 1]
  <2>2. sv' = [sv EXCEPT ![s] = r]
    BY <1>4, <2>1 DEF Sockets!BindListens, Sockets!Bound, ServerType
  <2>3. sv[s].fd # "listening"
    BY <1>4, <2>1, Zenon DEF ServerOk
  <2>4. ServerOk(r)
    BY <2>1, <2>3 DEF ServerOk, ServerType
  <2>5. name' = s
    BY <1>4, Zenon DEF Sockets!BindListens
  <2> HIDE DEF r
  <2> QED BY <1>1, <2>2, <2>4, <2>5
<1>5. ASSUME NEW s \in Servers, Sockets!BindRetries(s), sv[s].timer \/ ~sv[s].exists
      PROVE  ServerInv'
  <2>1. ServerOk(sv[s]) /\ sv[s] \in ServerType /\ sv \in [Servers -> ServerType]
    BY Zenon DEF ServerInv
  <2> DEFINE r == [sv[s] EXCEPT !.exists = TRUE, !.timer = TRUE]
  <2>2. sv' = [sv EXCEPT ![s] = r]
    BY <1>5, <2>1, Zenon DEF Sockets!BindRetries
  <2>3. sv[s].fd # "listening"
    BY <1>5, <2>1, Zenon DEF ServerOk
  <2>4. ServerOk(r)
    BY <2>1, <2>3, Zenon DEF ServerOk, ServerType
  <2>5. name' = name
    BY <1>5, Zenon DEF Sockets!BindRetries
  <2> HIDE DEF r
  <2> QED BY <1>1, <2>2, <2>4, <2>5
<1>6. ASSUME NEW s \in Servers, Sockets!BindTimerFails(s) \/ Sockets!ListenError(s)
      PROVE  ServerInv'
  <2>1. ServerOk(sv[s]) /\ sv[s] \in ServerType /\ sv \in [Servers -> ServerType]
    BY Zenon DEF ServerInv
  <2>2. PICK r \in {[sv[s] EXCEPT !.timer = FALSE], [sv[s] EXCEPT !.ofd = FALSE]} :
           sv' = [sv EXCEPT ![s] = r]
    BY <1>6, <2>1, Zenon DEF Sockets!BindTimerFails, Sockets!ListenError
  <2>3. ServerOk(r)
    BY <2>1, <2>2, ZenonT(40) DEF ServerOk, ServerType
  <2>4. name' = name
    BY <1>6, Zenon DEF Sockets!BindTimerFails, Sockets!ListenError
  <2> QED BY <1>1, <2>2, <2>3, <2>4
<1>7. ASSUME NEW s \in Servers, Sockets!Accept(s) \/ Sockets!PeerDisconnect(s)
      PROVE  ServerInv'
  <2>1. ServerOk(sv[s]) /\ sv[s] \in ServerType /\ sv \in [Servers -> ServerType] /\ name' = name
    BY <1>7, Zenon DEF ServerInv, Sockets!Accept, Sockets!PeerDisconnect
  <2> DEFINE q(left) == [sv[s] EXCEPT !.queue = left]
             a == [sv[s] EXCEPT !.queue = sv[s].queue - 1, !.peers = sv[s].peers + 1,
                                !.open = sv[s].open + 1]
             d == [sv[s] EXCEPT !.peers = sv[s].peers - 1, !.open = sv[s].open - 1]
  <2>2. CASE Sockets!Accept(s) /\ sv' = [sv EXCEPT ![s] = a]
    <3>1. sv[s].queue > 0 /\ sv[s].ofd
      BY <2>2, Zenon DEF Sockets!Accept
    <3>2. ServerOk(a)
      BY <2>1, <3>1, Accepted, Zenon
    <3> HIDE DEF a
    <3> QED BY <1>1, <2>1, <2>2, <3>2
  <2>3. ASSUME NEW left \in {sv[s].queue - 1, sv[s].queue}, Sockets!Accept(s),
               sv' = [sv EXCEPT ![s] = q(left)]
        PROVE  ServerInv'
    <3>1. left \in Nat
      BY <2>1, <2>3 DEF ServerType, Sockets!Accept
    <3>2. ServerOk(q(left))
      BY <2>1, <3>1, SMTT(30) DEF ServerOk, ServerType
    <3> HIDE DEF q
    <3> QED BY <1>1, <2>1, <2>3, <3>2
  <2>4. CASE Sockets!PeerDisconnect(s) /\ sv' = [sv EXCEPT ![s] = d]
    <3>1. ServerOk(d)
      BY <2>1, <2>4 DEF ServerOk, ServerType, Sockets!PeerDisconnect
    <3> HIDE DEF d
    <3> QED BY <1>1, <2>1, <2>4, <3>1
  <2> QED BY <1>7, <2>1, <2>2, <2>3, <2>4 DEF Sockets!Accept, Sockets!PeerDisconnect
<1>8. ASSUME NEW s \in Servers, Sockets!ServerDestroy(s) \/ Sockets!ServerCrash(s)
      PROVE  ServerInv'
  <2>1. ServerOk(sv[s]) /\ name' \in {name, NONE}
    BY <1>8, Zenon DEF ServerInv, Sockets!ServerDestroy, Sockets!ServerCrash
  <2> DEFINE r == [exists |-> FALSE, timer |-> FALSE, fd |-> "closed", ofd |-> FALSE,
                   queue |-> 0, peers |-> 0, open |-> 0]
  <2>2. sv' = [sv EXCEPT ![s] = r]
    <3>1. CASE Sockets!ServerDestroy(s)
      <4>1. sv[s].open - (IF sv[s].fd = "listening" THEN 1 ELSE 0) = 0
        BY <2>1, <3>1 DEF ServerOk, ServerType, Sockets!ServerDestroy
      <4>2. [Sockets!NoServer EXCEPT !.open = 0] = r
        BY DEF Sockets!NoServer
      <4>3. sv' = [sv EXCEPT ![s] = [Sockets!NoServer EXCEPT !.open = 0]]
        BY <3>1, <4>1, Zenon DEF Sockets!ServerDestroy
      <4> QED BY <4>2, <4>3
    <3>2. CASE Sockets!ServerCrash(s)
      BY <3>2, Zenon DEF Sockets!ServerCrash, Sockets!NoServer
    <3> QED BY <1>8, <3>1, <3>2
  <2>3. ServerOk(r)
    BY DEF ServerOk, ServerType
  <2> HIDE DEF r
  <2> QED BY <1>1, <2>1, <2>2, <2>3
<1>9. CASE Sockets!ConnectTimer \/ \E f \in Sockets!Fds : Sockets!Established(f)
  BY <1>2, <1>3, <1>9, Zenon DEF Sockets!ConnectTimer, Sockets!Established
<1>10. CASE \/ \E a \in Addresses : Sockets!ClientNew(a)
            \/ Sockets!ConnectTimerOpenFails \/ Sockets!ConnectTimerAddFails
            \/ Sockets!ClientEvents \/ Sockets!Reconnect
            \/ Sockets!ReconnectOpenFails \/ Sockets!ClientDestroy \/ Sockets!InterfaceUp
            \/ UNCHANGED Sockets!vars
  BY <1>2, <1>10, Zenon DEF Sockets!ClientNew, Sockets!ConnectTimerOpenFails,
     Sockets!ConnectTimerAddFails, Sockets!ClientEvents,
     Sockets!Reconnect, Sockets!ReconnectOpenFails, Sockets!ClientDestroy, Sockets!InterfaceUp,
     Sockets!vars
<1>11. ASSUME NEW s \in Servers, Sockets!ServerNew(s) \/ Sockets!BindTimer(s) PROVE ServerInv'
  BY <1>4, <1>5, <1>11, Zenon DEF Sockets!ServerNew, Sockets!BindTimer
<1>12. ASSUME NEW s \in Servers, Sockets!ServerNewFails(s) PROVE ServerInv'
  BY <1>12, Zenon DEF Sockets!ServerNewFails, ServerInv
<1> QED BY <1>6, <1>7, <1>8, <1>9, <1>10, <1>11, <1>12 DEF Sockets!Next

\* A client that is not connected has one attempt to connect ahead of it or under way,
\* never two, until a system call fails; the descriptor that the loop watches for it,
\* or that it has given its user, is open and its own; and a server has a descriptor for
\* its address and one for each peer, whatever fails (obus_socket_client_do_connect,
\* obus_socket_client_events, obus_socket_client_reconnect, obus_socket_server_events).
THEOREM OneAttemptCorrect ==
    ASSUME Sockets!SocketAssumption
    PROVE  Sockets!Spec =>
             [](Sockets!OneAttempt /\ Sockets!WatchedOpen /\ Sockets!ServerDescriptors)
<1>1. Sockets!Init => Client /\ ServerInv
  <2> SUFFICES ASSUME Sockets!Init PROVE Client /\ ServerInv
    BY Zenon
  <2>1. MaxFd \in Nat /\ MaxReconnects \in Nat
    BY Zenon DEF Sockets!SocketAssumption
  <2>2. /\ cl = [exists |-> FALSE, addr |-> NONE, timer |-> FALSE, fd |-> 0, ofd |-> 0, up |-> FALSE]
        /\ n = [reconnects |-> 0, starts |-> 0, fails |-> 0]
        /\ fds = [f \in 1..MaxFd |-> "closed"]
        /\ name = NONE /\ sv = [s \in Servers |-> Sockets!NoServer]
    BY Zenon DEF Sockets!Init, Sockets!NoClient, Sockets!Fds
  <2>3. ClientTypes /\ ClientInv
    BY <2>1, <2>2 DEF ClientTypes, ClientInv, FdStates
  <2>4. InUse(fds) \ {cl.fd} = {}
    BY <2>2, Zenon DEF InUse
  <2>5. DescriptorsInv
    <3>1. Cardinality({}) = 0
      BY FS_EmptySet, Zenon
    <3>2. ~cl.timer /\ n.reconnects = 0
      BY <2>2, Zenon
    <3> QED BY <2>1, <2>4, <3>1, <3>2 DEF DescriptorsInv
  <2>6. ServerInv
    BY <2>2 DEF ServerInv, ServerOk, ServerType, Sockets!NoServer
  <2> QED BY <2>3, <2>5, <2>6 DEF Client
<1>2. Client /\ ServerInv /\ [Sockets!Next]_(Sockets!vars) => (Client /\ ServerInv)'
  BY ClientKeeps, ServerKeeps, Zenon
<1>3. Client => Sockets!OneAttempt
  <2> SUFFICES ASSUME Client, cl.exists PROVE Sockets!OneAttempt
    BY Zenon DEF Sockets!OneAttempt
  <2>1. \A x, y \in Sockets!Attempts : x = y
    BY Zenon DEF Client, ClientInv, ClientTypes, Sockets!Attempts
  <2>2. n.fails = 0 => Sockets!Attempts # {}
    <3>1. n.fails = 0 => cl.timer \/ cl.ofd # 0 \/ cl.up
      BY Zenon DEF Client, ClientInv
    <3> QED BY <3>1 DEF Sockets!Attempts
  <2> QED BY <2>1, <2>2 DEF Sockets!OneAttempt
<1>4. Client => Sockets!WatchedOpen
  BY Zenon DEF Client, ClientInv, Sockets!WatchedOpen
<1>5. ServerInv => Sockets!ServerDescriptors
  BY Zenon DEF ServerInv, ServerOk, Sockets!ServerDescriptors
<1> QED BY <1>1, <1>2, <1>3, <1>4, <1>5, PTL DEF Sockets!Spec

-----------------------------------------------------------------------------
(***************************************************************************)
(* The hash table of obus_hash.c implements a map.                         *)
(***************************************************************************)

CONSTANTS Keys, Data, Size

VARIABLES table, hashing, chains, entries, ret

Table == INSTANCE ObusHash WITH hash <- hashing

\* The entries of a sequence, and that no two of them have the same key.
Members(seq) == {seq[i] : i \in DOMAIN seq}
OneEach(seq) == \A i, j \in DOMAIN seq : seq[i].key = seq[j].key => i = j

\* The chain of a bucket has the entries of the list whose keys hash to it, and
\* keys are there once; only a table that is ready has entries.
HashInv ==
    /\ hashing \in [Keys -> 0..(Size - 1)]
    /\ chains \in [0..(Size - 1) -> Seq(Table!Map!Entries)]
    /\ entries \in Seq(Table!Map!Entries)
    /\ OneEach(entries) /\ \A b \in 0..(Size - 1) : OneEach(chains[b])
    /\ \A b \in 0..(Size - 1) : Members(chains[b]) = {e \in Members(entries) : hashing[e.key] = b}
    /\ table \in {"new", "ready", "broken", "gone"}
    /\ table # "ready" => entries = <<>>

\* A sequence without the element at a place.
Cut(seq, i) == SubSeq(seq, 1, i - 1) \o SubSeq(seq, i + 1, Len(seq))

\* What a sequence is when one place is cut out of it.
LEMMA CutOut ==
    ASSUME NEW S, NEW seq \in Seq(S), NEW i \in DOMAIN seq, NEW t, t = Cut(seq, i)
    PROVE  /\ t \in Seq(S) /\ Len(t) = Len(seq) - 1 /\ DOMAIN t = 1..(Len(seq) - 1)
           /\ \A x \in DOMAIN t : t[x] = IF x < i THEN seq[x] ELSE seq[x + 1]
<1> DEFINE u == SubSeq(seq, 1, i - 1)
           v == SubSeq(seq, i + 1, Len(seq))
<1>1. i \in Nat /\ Len(seq) \in Nat /\ 1 <= i /\ i <= Len(seq)
  OBVIOUS
<1>2. u \in Seq(S) /\ Len(u) = i - 1 /\ \A x \in 1..(i - 1) : u[x] = seq[x]
  BY <1>1, SMTT(30)
<1>3. v \in Seq(S) /\ Len(v) = Len(seq) - i /\ \A x \in 1..(Len(seq) - i) : v[x] = seq[x + i]
  BY <1>1
<1>4. t = u \o v
  BY Zenon DEF Cut
<1> HIDE DEF u, v
<1>5. t \in Seq(S) /\ Len(t) = Len(seq) - 1
  BY <1>1, <1>2, <1>3, <1>4, SMTT(30)
<1>6. ASSUME NEW x \in 1..(Len(seq) - 1) PROVE t[x] = IF x < i THEN seq[x] ELSE seq[x + 1]
  <2>1. CASE x < i
    BY <2>1, <1>1, <1>2, <1>3, <1>4, SMTT(30)
  <2>2. CASE x >= i
    <3>4. x - (i - 1) \in 1..(Len(seq) - i) /\ x \in 1..(Len(u) + Len(v)) /\ x > Len(u)
      BY <2>2, <1>1, <1>2, <1>3, SMTT(30)
    <3>6. \A z \in 1..(Len(u) + Len(v)) :
             (u \o v)[z] = IF z <= Len(u) THEN u[z] ELSE v[z - Len(u)]
      BY <1>2, <1>3, ConcatProperties, ZenonT(40)
    <3>7. ~(x <= Len(u))
      BY <3>4, <1>1, <1>2, SMTT(30)
    <3>5. (u \o v)[x] = v[x - Len(u)]
      BY <3>4, <3>6, <3>7, Zenon
    <3>1. t[x] = v[x - (i - 1)] /\ x - (i - 1) \in 1..(Len(seq) - i)
      BY <3>4, <3>5, <1>2, <1>4, Zenon
    <3>2. v[x - (i - 1)] = seq[(x - (i - 1)) + i]
      BY <1>3, <3>1, Zenon
    <3>3. (x - (i - 1)) + i = x + 1
      BY <1>1, SMTT(30)
    <3> QED
      BY <2>2, <1>1, <3>1, <3>2, <3>3, SMTT(30)
  <2> QED
    BY <1>1, <2>1, <2>2, SMTT(30)
<1> QED
  BY <1>5, <1>6, SMTT(30)

\* A new table is empty, in the detail and as a map.
LEMMA HashStart == Table!Init => HashInv /\ Table!Map!Init
<1> SUFFICES ASSUME Table!Init PROVE HashInv /\ Table!Map!Init
  BY Zenon
<1>1. /\ hashing \in [Keys -> 0..(Size - 1)] /\ entries = <<>> /\ table = "new" /\ ret = "none"
      /\ chains = [b \in 0..(Size - 1) |-> <<>>]
  BY Zenon DEF Table!Init, Table!NoChains
<1>2. chains \in [0..(Size - 1) -> Seq(Table!Map!Entries)]
  BY <1>1, SMTT(30)
<1> QED
  BY <1>1, <1>2 DEF HashInv, OneEach, Members, Table!Map!Init

\* A sequence that has each key once still does when one entry is cut out, and
\* it loses that entry alone.
LEMMA Taken ==
    ASSUME NEW seq \in Seq(Table!Map!Entries), OneEach(seq), NEW i \in DOMAIN seq, NEW t,
           t = Table!Unlinked(seq, i)
    PROVE  /\ t \in Seq(Table!Map!Entries) /\ OneEach(t)
           /\ Members(t) = Members(seq) \ {seq[i]}
<1>1. /\ t \in Seq(Table!Map!Entries) /\ DOMAIN t = 1..(Len(seq) - 1)
      /\ \A x \in DOMAIN t : t[x] = IF x < i THEN seq[x] ELSE seq[x + 1]
  <2>1. t = Cut(seq, i)
    BY Zenon DEF Cut, Table!Unlinked
  <2>2. PICK S : S = Table!Map!Entries
    BY Zenon
  <2>3. seq \in Seq(S)
    BY <2>2, Zenon
  <2>4. /\ t \in Seq(S) /\ DOMAIN t = 1..(Len(seq) - 1)
        /\ \A x \in DOMAIN t : t[x] = IF x < i THEN seq[x] ELSE seq[x + 1]
    BY <2>1, <2>3, CutOut, SMTT(30)
  <2> QED
    BY <2>2, <2>4, Zenon
<1>2. i \in Nat /\ Len(seq) \in Nat /\ 1 <= i /\ i <= Len(seq) /\ DOMAIN seq = 1..Len(seq)
  OBVIOUS
<1>6. ASSUME NEW x \in DOMAIN t
      PROVE  \E m \in DOMAIN seq : t[x] = seq[m] /\ m # i /\ m = IF x < i THEN x ELSE x + 1
  <2>1. CASE x < i
    <3>1. x \in DOMAIN seq /\ x # i /\ t[x] = seq[x]
      BY <2>1, <1>1, <1>2, SMTT(30)
    <3> QED
      BY <2>1, <3>1, Zenon
  <2>2. CASE ~(x < i)
    <3>1. x + 1 \in DOMAIN seq /\ x + 1 # i /\ t[x] = seq[x + 1]
      BY <2>2, <1>1, <1>2, SMTT(30)
    <3> QED
      BY <2>2, <3>1, Zenon
  <2> QED
    BY <2>1, <2>2, Zenon
<1>3. OneEach(t)
  <2> SUFFICES ASSUME NEW x \in DOMAIN t, NEW y \in DOMAIN t, t[x].key = t[y].key PROVE x = y
    BY Zenon DEF OneEach
  <2>1. PICK m \in DOMAIN seq : t[x] = seq[m] /\ m = IF x < i THEN x ELSE x + 1
    BY <1>6, Zenon
  <2>2. PICK z \in DOMAIN seq : t[y] = seq[z] /\ z = IF y < i THEN y ELSE y + 1
    BY <1>6, Zenon
  <2>3. m = z
    BY <2>1, <2>2, Zenon DEF OneEach
  <2> QED
    BY <1>1, <1>2, <2>1, <2>2, <2>3, SMTT(30)
<1>4. ASSUME NEW x \in DOMAIN t PROVE t[x] \in Members(seq) /\ t[x] # seq[i]
  <2>1. PICK m \in DOMAIN seq : t[x] = seq[m] /\ m # i
    BY <1>6, Zenon
  <2> QED
    BY <2>1, Zenon DEF OneEach, Members
<1>5. ASSUME NEW m \in DOMAIN seq, seq[m] # seq[i] PROVE seq[m] \in Members(t)
  <2>1. m # i
    BY <1>5, Zenon
  <2>2. PICK x \in 1..(Len(seq) - 1) : m = IF x < i THEN x ELSE x + 1
    <3>1. CASE m < i
      BY <3>1, <1>2
    <3>2. CASE m > i
      <4>1. m - 1 \in 1..(Len(seq) - 1) /\ ~(m - 1 < i) /\ m = (m - 1) + 1
        BY <3>2, <1>2, SMTT(30)
      <4> QED
        BY <4>1, Zenon
    <3> QED
      BY <2>1, <1>2, <3>1, <3>2, SMTT(30)
  <2>3. t[x] = seq[m] /\ x \in DOMAIN t
    BY <1>1, <2>2, Zenon
  <2> QED
    BY <2>3, Zenon DEF Members
<1> QED
  BY <1>1, <1>3, <1>4, <1>5, SMTT(30) DEF Members

\* An entry with a new key is put first in a chain.
LEMMA Chained ==
    ASSUME NEW seq \in Seq(Table!Map!Entries), OneEach(seq), NEW e \in Table!Map!Entries,
           \A i \in DOMAIN seq : seq[i].key # e.key, NEW t, t = <<e>> \o seq
    PROVE  t \in Seq(Table!Map!Entries) /\ OneEach(t) /\ Members(t) = Members(seq) \cup {e}
<1>1. t \in Seq(Table!Map!Entries) /\ Len(t) = Len(seq) + 1 /\ t[1] = e
  OBVIOUS
<1>2. \A x \in 1..Len(seq) : t[x + 1] = seq[x]
  OBVIOUS
<1>3. Len(seq) \in Nat /\ DOMAIN seq = 1..Len(seq) /\ DOMAIN t = 1..(Len(seq) + 1)
  BY <1>1
<1>4. \A x \in DOMAIN t : x # 1 => x - 1 \in DOMAIN seq /\ t[x] = seq[x - 1]
  BY <1>2, <1>3, SMTT(30)
<1>5. \A x \in DOMAIN seq : x + 1 \in DOMAIN t /\ t[x + 1] = seq[x]
  BY <1>2, <1>3
<1>6. OneEach(t)
  <2> SUFFICES ASSUME NEW x \in DOMAIN t, NEW y \in DOMAIN t, t[x].key = t[y].key PROVE x = y
    BY Zenon DEF OneEach
  <2>1. CASE x = 1 /\ y # 1
    BY <2>1, <1>1, <1>4, Zenon
  <2>2. CASE x # 1 /\ y = 1
    BY <2>2, <1>1, <1>4, Zenon
  <2>3. CASE x # 1 /\ y # 1
    <3>1. x - 1 = y - 1
      BY <2>3, <1>4, SMTT(30) DEF OneEach
    <3> QED
      BY <3>1, <1>3, SMTT(30)
  <2> QED
    BY <2>1, <2>2, <2>3, Zenon
<1>7. Members(t) \subseteq Members(seq) \cup {e}
  BY <1>1, <1>4, SMTT(30) DEF Members
<1>8. Members(seq) \subseteq Members(t)
  BY <1>5, ZenonT(40) DEF Members
<1>9. e \in Members(t)
  BY <1>1, <1>3 DEF Members
<1> QED
  BY <1>1, <1>6, <1>7, <1>8, <1>9, ZenonT(40)

\* An entry with a new key is put last in the list.
LEMMA Appended ==
    ASSUME NEW seq \in Seq(Table!Map!Entries), OneEach(seq), NEW e \in Table!Map!Entries,
           \A i \in DOMAIN seq : seq[i].key # e.key, NEW t, t = Append(seq, e)
    PROVE  t \in Seq(Table!Map!Entries) /\ OneEach(t) /\ Members(t) = Members(seq) \cup {e}
<1>1. t \in Seq(Table!Map!Entries) /\ Len(t) = Len(seq) + 1 /\ t[Len(t)] = e
  OBVIOUS
<1>2. Len(seq) \in Nat /\ DOMAIN seq = 1..Len(seq) /\ DOMAIN t = 1..(Len(seq) + 1)
  BY <1>1
<1>3. \A x \in DOMAIN seq : t[x] = seq[x] /\ x \in DOMAIN t
  BY <1>2, SMTT(30)
<1>4. \A x \in DOMAIN t : x # Len(t) => x \in DOMAIN seq
  BY <1>1, <1>2, SMTT(30)
<1>5. OneEach(t)
  BY <1>1, <1>3, <1>4, SMTT(30) DEF OneEach
<1>6. Members(t) \subseteq Members(seq) \cup {e}
  BY <1>1, <1>3, <1>4, SMTT(30) DEF Members
<1>7. Members(seq) \subseteq Members(t)
  BY <1>3, Zenon DEF Members
<1>8. Len(t) \in DOMAIN t
  BY <1>1, <1>2
<1>9. e \in Members(t)
  BY <1>1, <1>8, Zenon DEF Members
<1> QED
  BY <1>1, <1>5, <1>6, <1>7, <1>9, Zenon

\* Entries have keys, and keys have buckets.
LEMMA HashTypes ==
    ASSUME HashInv, NEW k \in Keys
    PROVE  /\ hashing[k] \in 0..(Size - 1) /\ chains[hashing[k]] \in Seq(Table!Map!Entries)
           /\ OneEach(chains[hashing[k]]) /\ entries \in Seq(Table!Map!Entries) /\ OneEach(entries)
           /\ \A i \in DOMAIN chains[hashing[k]] :
                chains[hashing[k]][i] \in Table!Map!Entries
           /\ \A z \in DOMAIN entries : entries[z] \in Table!Map!Entries
  BY DEF HashInv

\* An entry of the list is found in the chain of its key, and no other is.
LEMMA FoundOf ==
    ASSUME HashInv, NEW k \in Keys
    PROVE  /\ \A i \in Table!Found(k) : \E z \in Table!Map!Of(k) :
                 entries[z] = chains[hashing[k]][i]
           /\ \A z \in Table!Map!Of(k) : Table!Found(k) # {}
<1> PICK c : c = chains[hashing[k]]
  BY Zenon
<1>1. Members(c) = {e \in Members(entries) : hashing[e.key] = hashing[k]}
  BY HashTypes, Zenon DEF HashInv
<1>2. Table!Found(k) = {i \in DOMAIN c : c[i].key = k}
  BY Zenon DEF Table!Found
<1>3. ASSUME NEW i \in Table!Found(k)
      PROVE  \E z \in Table!Map!Of(k) : entries[z] = c[i]
  <2>1. c[i] \in Members(entries) /\ c[i].key = k
    BY <1>1, <1>2, Zenon DEF Members
  <2>2. PICK z \in DOMAIN entries : entries[z] = c[i]
    BY <2>1, Zenon DEF Members
  <2> QED
    BY <2>1, <2>2, Zenon DEF Table!Map!Of
<1>4. ASSUME NEW z \in Table!Map!Of(k) PROVE Table!Found(k) # {}
  <2>1. entries[z] \in Members(entries) /\ entries[z].key = k
    BY Zenon DEF Table!Map!Of, Members
  <2>2. entries[z] \in Members(c)
    BY <1>1, <2>1, Zenon
  <2>3. PICK i \in DOMAIN c : c[i] = entries[z]
    BY <2>2, Zenon DEF Members
  <2> QED
    BY <1>2, <2>1, <2>3, Zenon
<1> QED
  BY <1>3, <1>4, Zenon

\* obus_hash_insert puts the entry into the map, or refuses it where the map does.
LEMMA InsertKeeps ==
    ASSUME HashInv, NEW e \in Table!Map!Entries, Table!Insert(e)
    PROVE  HashInv' /\ Table!Map!Put(e)
<1>1. e.key \in Keys
  BY Zenon DEF Table!Map!Entries
<1>2. CASE Table!Found(e.key) # {}
  <2>1. UNCHANGED <<table, hashing, chains, entries>> /\ ret' = "EEXIST"
    BY <1>2, Zenon DEF Table!Insert
  <2>2. Table!Map!Of(e.key) # {}
    BY <1>1, <1>2, FoundOf, ZenonT(40)
  <2> QED
    BY <2>1, <2>2, Zenon DEF HashInv, Table!Map!Put
<1>3. CASE Table!Found(e.key) = {}
  <2> PICK b, c, t : b = hashing[e.key] /\ c = chains[b] /\ t = <<e>> \o c
    BY Zenon
  <2>1. /\ table = "ready" /\ table' = table /\ hashing' = hashing /\ ret' = "ok"
        /\ chains' = [chains EXCEPT ![b] = t] /\ entries' = Append(entries, e)
    BY <1>3, Zenon DEF Table!Insert
  <2>2. Table!Map!Of(e.key) = {}
    BY <1>1, <1>3, FoundOf, Zenon
  <2>3. \A z \in DOMAIN entries : entries[z].key # e.key
    BY <2>2, Zenon DEF Table!Map!Of
  <2>4. \A i \in DOMAIN c : c[i].key # e.key
    BY <1>3, Zenon DEF Table!Found
  <2>5. /\ b \in 0..(Size - 1) /\ c \in Seq(Table!Map!Entries) /\ OneEach(c)
        /\ entries \in Seq(Table!Map!Entries) /\ OneEach(entries)
    BY <1>1, HashTypes, Zenon
  <2>6. t \in Seq(Table!Map!Entries) /\ OneEach(t) /\ Members(t) = Members(c) \cup {e}
    BY <2>4, <2>5, Chained, Zenon
  <2>7. /\ entries' \in Seq(Table!Map!Entries) /\ OneEach(entries')
        /\ Members(entries') = Members(entries) \cup {e}
    BY <2>1, <2>3, <2>5, Appended, Zenon
  <2>8. chains' \in [0..(Size - 1) -> Seq(Table!Map!Entries)]
    BY <2>1, <2>5, <2>6, Zenon DEF HashInv
  <2>9. ASSUME NEW a \in 0..(Size - 1)
        PROVE  /\ OneEach(chains'[a])
               /\ Members(chains'[a]) = {x \in Members(entries') : hashing[x.key] = a}
    <3>1. OneEach(chains[a]) /\ Members(chains[a]) = {x \in Members(entries) : hashing[x.key] = a}
      BY Zenon DEF HashInv
    <3>2. CASE a = b
      <4>1. chains'[a] = t /\ chains[a] = c
        BY <3>2, <2>1, <2>5, Zenon DEF HashInv
      <4> QED
        BY <3>1, <3>2, <4>1, <2>6, <2>7, ZenonT(40)
    <3>3. CASE a # b
      <4>1. chains'[a] = chains[a]
        BY <3>3, <2>1, <2>5, Zenon DEF HashInv
      <4> QED
        BY <3>1, <3>3, <4>1, <2>7, ZenonT(40)
    <3> QED
      BY <3>2, <3>3, Zenon
  <2>10. HashInv'
    BY <2>1, <2>7, <2>8, <2>9, ZenonT(40) DEF HashInv
  <2> QED
    BY <2>1, <2>2, <2>10, ZenonT(40) DEF Table!Map!Put
<1> QED
  BY <1>2, <1>3, Zenon

\* obus_hash_remove takes the entry out of the chain and of the list, which are
\* the same entry, or does not find it where the map has none.
LEMMA RemoveKeeps ==
    ASSUME HashInv, NEW k \in Keys, Table!Remove(k)
    PROVE  HashInv' /\ Table!Map!Delete(k)
<1>1. CASE Table!Found(k) = {}
  <2>1. UNCHANGED <<table, hashing, chains, entries>> /\ ret' = "ENOENT"
    BY <1>1, Zenon DEF Table!Remove
  <2>2. Table!Map!Of(k) = {}
    BY <1>1, FoundOf, ZenonT(40)
  <2> QED
    BY <2>1, <2>2, Zenon DEF HashInv, Table!Map!Delete
<1>2. CASE Table!Found(k) # {}
  <2> PICK b, c : b = hashing[k] /\ c = chains[b]
    BY Zenon
  <2>1. /\ table = "ready" /\ table' = table /\ hashing' = hashing /\ ret' = "ok"
    BY <1>2, Zenon DEF Table!Remove
  <2>2. PICK i \in Table!Found(k), z \in DOMAIN entries :
           /\ entries[z] = c[i]
           /\ chains' = [chains EXCEPT ![b] = Table!Unlinked(@, i)]
           /\ entries' = Table!Unlinked(entries, z)
    BY <1>2, Zenon DEF Table!Remove
  <2>3. i \in DOMAIN c /\ c[i].key = k
    BY Zenon DEF Table!Found
  <2> PICK t : t = Table!Unlinked(c, i)
    BY Zenon
  <2>5. /\ b \in 0..(Size - 1) /\ c \in Seq(Table!Map!Entries) /\ OneEach(c)
        /\ entries \in Seq(Table!Map!Entries) /\ OneEach(entries)
    BY HashTypes, Zenon
  <2>6. t \in Seq(Table!Map!Entries) /\ OneEach(t) /\ Members(t) = Members(c) \ {c[i]}
    BY <2>3, <2>5, Taken, SMTT(30)
  <2>7. /\ entries' \in Seq(Table!Map!Entries) /\ OneEach(entries')
        /\ Members(entries') = Members(entries) \ {c[i]}
    BY <2>2, <2>5, Taken, SMTT(30)
  <2>4. chains' = [chains EXCEPT ![b] = t]
    BY <2>2, Zenon
  <2>8. chains' \in [0..(Size - 1) -> Seq(Table!Map!Entries)]
    BY <2>4, <2>5, <2>6, Zenon DEF HashInv
  <2>9. ASSUME NEW a \in 0..(Size - 1)
        PROVE  /\ OneEach(chains'[a])
               /\ Members(chains'[a]) = {x \in Members(entries') : hashing[x.key] = a}
    <3>1. OneEach(chains[a]) /\ Members(chains[a]) = {x \in Members(entries) : hashing[x.key] = a}
      BY Zenon DEF HashInv
    <3>2. CASE a = b
      <4>1. chains'[a] = t /\ chains[a] = c
        BY <3>2, <2>4, <2>5, Zenon DEF HashInv
      <4> QED
        BY <3>1, <3>2, <4>1, <2>6, <2>7, ZenonT(40)
    <3>3. CASE a # b
      <4>1. chains'[a] = chains[a]
        BY <3>3, <2>4, <2>5, Zenon DEF HashInv
      <4>2. hashing[c[i].key] # a
        BY <3>3, <2>3, ZenonT(40)
      <4> QED
        BY <3>1, <3>3, <4>1, <4>2, <2>7, ZenonT(40)
    <3> QED
      BY <3>2, <3>3, Zenon
  <2>10. HashInv'
    BY <2>1, <2>7, <2>8, <2>9, SMTT(30) DEF HashInv
  <2>11. z \in Table!Map!Of(k)
    BY <2>2, <2>3, Zenon DEF Table!Map!Of
  <2> QED
    BY <2>1, <2>2, <2>10, <2>11, ZenonT(40) DEF Table!Map!Delete, Table!Unlinked
<1> QED
  BY <1>1, <1>2, Zenon

\* obus_hash_lookup finds in the chain what the list has for the key.
LEMMA LookupGets ==
    ASSUME HashInv, NEW k \in Keys, NEW const \in BOOLEAN, Table!Lookup(k, const)
    PROVE  HashInv' /\ Table!Map!Get(k, const)
<1>1. UNCHANGED <<table, hashing, chains, entries>>
  BY Zenon DEF Table!Lookup
<1>2. HashInv'
  BY <1>1, Zenon DEF HashInv
<1>3. CASE Table!Found(k) = {}
  <2>1. ret' = "ENOENT" /\ Table!Map!Of(k) = {}
    BY <1>3, FoundOf, Zenon DEF Table!Lookup
  <2> QED
    BY <1>1, <1>2, <2>1, Zenon DEF Table!Map!Get
<1>4. CASE Table!Found(k) # {}
  <2>1. PICK i \in Table!Found(k) :
           ret' = IF chains[hashing[k]][i].const /\ ~const THEN "EPERM"
                  ELSE chains[hashing[k]][i].data
    BY <1>4, Zenon DEF Table!Lookup
  <2>2. PICK z \in Table!Map!Of(k) : entries[z] = chains[hashing[k]][i]
    BY FoundOf, Zenon
  <2> QED
    BY <1>1, <1>2, <2>1, <2>2, ZenonT(40) DEF Table!Map!Get
<1> QED
  BY <1>3, <1>4, Zenon

\* obus_hash_destroy leaves nothing: each entry of the list is in a chain.
LEMMA DestroyCloses ==
    ASSUME HashInv, Table!Destroy
    PROVE  HashInv' /\ Table!Map!Close
<1> PICK u : u = {z \in DOMAIN entries : Table!Found(entries[z].key) = {}}
  BY Zenon
<1>1. /\ table' = "gone" /\ ret' = "ok" /\ hashing' = hashing
      /\ entries' = Table!Kept(entries, u) /\ chains' = Table!NoChains
  BY Zenon DEF Table!Destroy
<1>2. u = {}
  <2> SUFFICES ASSUME NEW z \in DOMAIN entries PROVE Table!Found(entries[z].key) # {}
    BY Zenon
  <2>1. entries[z] \in Table!Map!Entries
    BY DEF HashInv
  <2>2. entries[z].key \in Keys /\ z \in Table!Map!Of(entries[z].key)
    BY <2>1, Zenon DEF Table!Map!Entries, Table!Map!Of
  <2> QED
    BY <2>2, FoundOf, Zenon
<1>3. Table!Kept(entries, u) = <<>>
  <2> PICK f : f = Table!Kept(entries, u)
    BY Zenon
  <2>1. f \in [{} -> {0}]
    BY <1>2, Zenon DEF Table!Kept
  <2>2. {} = 1..0
    OBVIOUS
  <2>3. f \in [1..0 -> {0}]
    BY <2>1, <2>2, Zenon
  <2>4. f \in Seq({0}) /\ Len(f) = 0
    BY <2>3
  <2> QED
    BY <2>4, EmptySeq, Zenon
<1>4. entries' = <<>>
  BY <1>1, <1>3, Zenon
<1>5. chains' = [b \in 0..(Size - 1) |-> <<>>]
  BY <1>1, Zenon DEF Table!NoChains
<1>6. chains' \in [0..(Size - 1) -> Seq(Table!Map!Entries)]
  BY <1>5
<1>7. OneEach(<<>>) /\ Members(<<>>) = {}
  BY DEF OneEach, Members
<1>8. \A b \in 0..(Size - 1) : chains'[b] = <<>>
  BY <1>5, Zenon
<1>9. hashing \in [Keys -> 0..(Size - 1)] /\ <<>> \in Seq(Table!Map!Entries)
  BY DEF HashInv
<1>10. HashInv'
  BY <1>1, <1>4, <1>6, <1>7, <1>8, <1>9, ZenonT(40) DEF HashInv
<1> QED
  BY <1>1, <1>4, <1>10, Zenon DEF Table!Map!Close

\* Every step of the table keeps the invariant and is a step of the map.
LEMMA HashStep ==
    ASSUME HashInv, [Table!Next]_(Table!vars)
    PROVE  HashInv' /\ [Table!Map!Next]_(Table!Map!vars)
<1>1. CASE Table!HashInit \/ Table!HashInitFails
  BY <1>1, Zenon DEF Table!HashInit, Table!HashInitFails, HashInv, Table!Map!Next, Table!Map!Open
<1>2. ASSUME NEW k \in Keys, NEW c \in BOOLEAN, NEW d \in Data, Table!InsertNoMemory
      PROVE  HashInv' /\ Table!Map!Next
  <2>1. ret' = "ENOMEM" /\ UNCHANGED <<table, hashing, chains, entries>>
    BY <1>2, Zenon DEF Table!InsertNoMemory
  <2>2. Table!Entry(k, d, c) \in Table!Map!Entries
    BY Zenon DEF Table!Entry, Table!Map!Entries
  <2>3. HashInv'
    BY <2>1, Zenon DEF HashInv
  <2>4. Table!Map!Put(Table!Entry(k, d, c))
    BY <2>1, Zenon DEF Table!Map!Put
  <2> QED
    BY <2>2, <2>3, <2>4, ZenonT(40) DEF Table!Map!Next
<1>3. CASE Table!Destroy
  BY <1>3, DestroyCloses, Zenon DEF Table!Map!Next
<1>4. ASSUME NEW k \in Keys, Table!Remove(k) PROVE HashInv' /\ Table!Map!Next
  BY <1>4, RemoveKeeps, Zenon DEF Table!Map!Next
<1>5. ASSUME NEW k \in Keys, NEW c \in BOOLEAN, Table!Lookup(k, c)
      PROVE  HashInv' /\ Table!Map!Next
  BY <1>5, LookupGets, Zenon DEF Table!Map!Next
<1>6. ASSUME NEW k \in Keys, NEW c \in BOOLEAN, NEW d \in Data, Table!Insert(Table!Entry(k, d, c))
      PROVE  HashInv' /\ Table!Map!Next
  <2>1. Table!Entry(k, d, c) \in Table!Map!Entries
    BY Zenon DEF Table!Entry, Table!Map!Entries
  <2> QED
    BY <1>6, <2>1, InsertKeeps, Zenon DEF Table!Map!Next
<1>7. CASE UNCHANGED Table!vars
  BY <1>7, Zenon DEF Table!vars, Table!Map!vars, HashInv
<1> QED
  BY <1>1, <1>2, <1>3, <1>4, <1>5, <1>6, <1>7, ZenonT(40) DEF Table!Next

\* The hash table of obus_hash.c implements the map of ObusMap, for every number
\* of buckets and every hash function: insert, lookup, remove and destroy answer
\* as on one list of entries, whichever keys share a bucket.
THEOREM MapCorrect ==
    Table!Spec => Table!MapSpec
<1>1. Table!Init => HashInv /\ Table!Map!Init
  BY HashStart, Zenon
<1>2. HashInv /\ [Table!Next]_(Table!vars) => HashInv' /\ [Table!Map!Next]_(Table!Map!vars)
  BY HashStep, Zenon
<1> QED
  BY <1>1, <1>2, PTL DEF Table!Spec, Table!MapSpec, Table!Map!Spec

-----------------------------------------------------------------------------
(***************************************************************************)
(* The walk of a server over its peers.                                    *)
(***************************************************************************)

CONSTANTS Peers, SendsInside, MaxSends

VARIABLES list, state, connected, walks, got, sends, astray

PeerWalk == INSTANCE ObusPeers WITH bad <- astray, count <- connected

\* What follows the peer at a place in the list.
Succ(k) == IF k = Len(list) THEN PeerWalk!Head_ ELSE list[k + 1]

\* Those from a place in the list on have not been sent a packet.
Waiting(k, packet) ==
    \A m \in DOMAIN list : m >= k => \A i \in DOMAIN got[list[m]] : got[list[m]][i] < packet

\* A walk: the peer at which it is and the one after it are in the list.
Visit(w) ==
    /\ w \in [packet : Nat, peer : Peers \cup {PeerWalk!Head_}, tmp : Peers \cup {PeerWalk!Head_},
              inside : BOOLEAN]
    /\ w.packet < sends
    /\ w.inside => w.peer # PeerWalk!Head_
    /\ w.peer # PeerWalk!Head_ =>
         \E k \in DOMAIN list : list[k] = w.peer /\ w.tmp = Succ(k) /\ Waiting(k, w.packet)

PeerStates == {"none", "connecting", "connected", "disconnected", "freed"}

\* The list has each peer once, and only those that there are.
ListInv ==
    /\ list \in Seq(Peers) /\ state \in [Peers -> PeerStates]
    /\ \A i, j \in DOMAIN list : list[i] = list[j] => i = j
    /\ \A i \in DOMAIN list : state[list[i]] \notin {"none", "freed"}

\* What peers have got was sent, in the order in which it was sent.
GotInv ==
    /\ got \in [Peers -> Seq(Nat)] /\ sends \in Nat
    /\ \A p \in Peers : \A i \in DOMAIN got[p] : got[p][i] < sends
    /\ PeerWalk!SentInOrder

PeersInv ==
    /\ ListInv /\ GotInv /\ astray = FALSE
    /\ walks = <<>> \/ \E w : walks = <<w>> /\ Visit(w)

\* The peer after one in the list is at the next place.
LEMMA AfterAt ==
    ASSUME PeerWalk!PeersAssumption, ListInv, NEW k \in DOMAIN list
    PROVE  PeerWalk!After(list[k]) = Succ(k) /\ list[k] \in Peers /\ list[k] # PeerWalk!Head_
<1>1. list[k] \in Peers /\ list[k] # PeerWalk!Head_
  BY DEF ListInv, PeerWalk!PeersAssumption
<1>2. PeerWalk!Place(list[k]) \in DOMAIN list /\ list[PeerWalk!Place(list[k])] = list[k]
  BY Zenon DEF PeerWalk!Place
<1>3. PeerWalk!Place(list[k]) = k
  BY <1>2, Zenon DEF ListInv
<1> QED
  BY <1>1, <1>3, Zenon DEF PeerWalk!After, Succ

\* What follows is a peer or the head of the list.
LEMMA SuccIs ==
    ASSUME PeerWalk!PeersAssumption, ListInv, NEW k \in DOMAIN list
    PROVE  /\ k \in 1..Len(list) /\ Len(list) \in Nat /\ DOMAIN list = 1..Len(list)
           /\ k = Len(list) => Succ(k) = PeerWalk!Head_
           /\ k # Len(list) => /\ k + 1 \in DOMAIN list /\ Succ(k) = list[k + 1]
                               /\ Succ(k) \in Peers /\ Succ(k) # PeerWalk!Head_
           /\ Succ(k) \in Peers \cup {PeerWalk!Head_}
<1>1. k \in 1..Len(list) /\ Len(list) \in Nat /\ DOMAIN list = 1..Len(list)
  BY DEF ListInv
<1>2. k # Len(list) => k + 1 \in DOMAIN list
  BY <1>1, SMTT(30)
<1>3. k # Len(list) => list[k + 1] \in Peers /\ list[k + 1] # PeerWalk!Head_
  BY <1>2, AfterAt, ZenonT(40)
<1> QED
  BY <1>1, <1>2, <1>3, ZenonT(40) DEF Succ

\* A walk begins.
LEMMA SendKeeps ==
    ASSUME PeerWalk!PeersAssumption, ~SendsInside, PeersInv, PeerWalk!Send
    PROVE  PeersInv'
<1> PICK h, t : h = PeerWalk!After(PeerWalk!Head_) /\ t = PeerWalk!After(h)
  BY Zenon
<1> PICK w : w = [packet |-> sends, peer |-> h, tmp |-> t, inside |-> FALSE]
  BY Zenon
<1>1. /\ walks = <<>> /\ sends' = sends + 1 /\ UNCHANGED <<list, state, connected, got, astray>>
      /\ walks' = IF connected = 0 THEN walks ELSE <<w>> \o walks
  BY Zenon DEF PeerWalk!Send
<1>2. <<w>> \o <<>> = <<w>>
  <2>1. <<w>> \in Seq({w})
    OBVIOUS
  <2> QED
    BY <2>1, ConcatEmptySeq, ZenonT(40)
<1>3. ListInv' /\ astray' = FALSE
  BY <1>1, Zenon DEF PeersInv, ListInv
<1>4. sends \in Nat /\ got \in [Peers -> Seq(Nat)]
      /\ \A p \in Peers : \A i \in DOMAIN got[p] : got[p][i] < sends
  BY Zenon DEF PeersInv, GotInv
<1>5. \A p \in Peers : \A i \in DOMAIN got[p] : got[p][i] < sends + 1
  <2> SUFFICES ASSUME NEW p \in Peers, NEW i \in DOMAIN got[p] PROVE got[p][i] < sends + 1
    BY Zenon
  <2>1. got[p] \in Seq(Nat)
    BY <1>4, ZenonT(40)
  <2>2. got[p][i] \in Nat
    BY <2>1, SMTT(30)
  <2> QED
    BY <1>4, <2>2, SMTT(30)
<1>6. GotInv'
  BY <1>1, <1>4, <1>5, SMTT(30) DEF PeersInv, GotInv, PeerWalk!SentInOrder
<1>7. CASE connected = 0
  BY <1>1, <1>3, <1>6, <1>7, ZenonT(40) DEF PeersInv
<1>8. CASE connected # 0
  <2>1. walks' = <<w>>
    BY <1>1, <1>2, <1>8, ZenonT(40)
  <2>2. /\ w.packet = sends /\ w.peer = h /\ w.tmp = t /\ w.inside = FALSE
        /\ DOMAIN w = {"packet", "peer", "tmp", "inside"}
    BY Zenon
  <2>3. CASE list = <<>>
    <3>1. h = PeerWalk!Head_
      BY <2>3, Zenon DEF PeerWalk!After
    <3>2. t = PeerWalk!Head_
      BY <2>3, <3>1, ZenonT(40) DEF PeerWalk!After
    <3>3. Visit(w)'
      BY <1>1, <1>4, <3>1, <3>2, SMTT(30) DEF Visit
    <3> QED
      BY <1>3, <1>6, <2>1, <3>3, ZenonT(40) DEF PeersInv
  <2>4. CASE list # <<>>
    <3>1. 1 \in DOMAIN list /\ ListInv
      BY <2>4 DEF PeersInv, ListInv
    <3>2. h = list[1]
      BY <2>4, Zenon DEF PeerWalk!After
    <3>3. t = Succ(1) /\ h \in Peers
      BY <3>1, <3>2, AfterAt, Zenon
    <3>4. t \in Peers \cup {PeerWalk!Head_}
      BY <3>1, <3>3, SuccIs, ZenonT(40)
    <3>5. w \in [packet : Nat, peer : Peers \cup {PeerWalk!Head_},
                 tmp : Peers \cup {PeerWalk!Head_}, inside : BOOLEAN]
      BY <1>4, <3>3, <3>4, ZenonT(40)
    <3>6. Waiting(1, w.packet)
      <4>1. \A m \in DOMAIN list : list[m] \in Peers
        BY <3>1, AfterAt, Zenon
      <4> QED
        BY <1>4, <2>2, <4>1, Zenon DEF Waiting
    <3>7. Waiting(1, w.packet)' /\ Succ(1)' = Succ(1)
      BY <1>1, <3>6, ZenonT(40) DEF Waiting, Succ
    <3>8. w.packet < sends'
      BY <1>1, <1>4, <2>2, SMTT(30)
    <3>9. Visit(w)'
      BY <1>1, <2>2, <3>1, <3>2, <3>3, <3>5, <3>7, <3>8, ZenonT(40) DEF Visit
    <3> QED
      BY <1>3, <1>6, <2>1, <3>9, Zenon DEF PeersInv
  <2> QED
    BY <2>3, <2>4, Zenon
<1> QED
  BY <1>7, <1>8, ZenonT(40)

\* A walk that runs is the only one.
LEMMA TopVisit ==
    ASSUME PeersInv, walks # <<>>
    PROVE  walks = <<PeerWalk!top>> /\ Visit(PeerWalk!top)
<1>1. PICK w : walks = <<w>> /\ Visit(w)
  BY Zenon DEF PeersInv
<1>2. PeerWalk!top = w
  BY <1>1, Zenon DEF PeerWalk!top
<1> QED
  BY <1>1, <1>2, ZenonT(40)

\* A change of the innermost of one walk.
LEMMA OnlyOne == ASSUME NEW a, NEW b PROVE [<<a>> EXCEPT ![1] = b] = <<b>>
  OBVIOUS

\* The walk goes on to the saved peer, which is still there, in the list as it was or
\* without the peer at which the walk was.
LEMMA AdvanceKeeps ==
    ASSUME PeerWalk!PeersAssumption, PeersInv, walks # <<>>, PeerWalk!top.peer # PeerWalk!Head_,
           ListInv', GotInv', PeerWalk!Advance, sends' = sends,
           \A p \in Peers : p # PeerWalk!top.peer => state'[p] = state[p] /\ got'[p] = got[p],
           NEW k \in DOMAIN list, list[k] = PeerWalk!top.peer,
           list' = list \/ list' = Cut(list, k)
    PROVE  PeersInv'
<1> PICK w, u : w = PeerWalk!top /\ u = PeerWalk!After(w.tmp)
  BY Zenon
<1> PICK v : v = [w EXCEPT !.peer = w.tmp, !.inside = FALSE, !.tmp = u]
  BY Zenon
<1>1. walks = <<w>> /\ Visit(w)
  BY TopVisit, ZenonT(40)
<1>2. ListInv /\ astray = FALSE
  BY Zenon DEF PeersInv
<1>3. w.tmp = Succ(k) /\ Waiting(k, w.packet)
  <2>1. PICK j \in DOMAIN list : list[j] = w.peer /\ w.tmp = Succ(j) /\ Waiting(j, w.packet)
    BY <1>1, Zenon DEF Visit
  <2>2. j = k
    BY <1>2, <2>1, SMTT(30) DEF ListInv
  <2> QED
    BY <2>1, <2>2, ZenonT(40)
<1>4. w \in [packet : Nat, peer : Peers \cup {PeerWalk!Head_},
             tmp : Peers \cup {PeerWalk!Head_}, inside : BOOLEAN] /\ w.packet < sends
  BY <1>1, Zenon DEF Visit
<1>5. w.tmp # PeerWalk!Head_ => /\ k # Len(list) /\ k + 1 \in DOMAIN list /\ w.tmp = list[k + 1]
                                /\ w.tmp \in Peers /\ w.tmp # w.peer
  <2> SUFFICES ASSUME w.tmp # PeerWalk!Head_
               PROVE  /\ k # Len(list) /\ k + 1 \in DOMAIN list /\ w.tmp = list[k + 1]
                      /\ w.tmp \in Peers /\ w.tmp # w.peer
    BY Zenon
  <2>1. /\ k # Len(list) /\ k + 1 \in DOMAIN list /\ w.tmp = list[k + 1]
        /\ w.tmp \in Peers /\ k \in Nat
    BY <1>2, <1>3, SuccIs, SMTT(30)
  <2>2. k # k + 1
    BY <2>1, SMTT(30)
  <2> QED
    BY <1>2, <2>1, <2>2, ZenonT(40) DEF ListInv
<1>6. w.tmp # PeerWalk!Head_ => state'[w.tmp] # "freed"
  BY <1>2, <1>5, SMTT(30) DEF ListInv
<1>7. astray' = FALSE /\ walks' = [walks EXCEPT ![1] = v]
  BY <1>1, <1>2, <1>6, ZenonT(40) DEF PeerWalk!Advance, PeerWalk!top
<1>8. walks' = <<v>>
  BY <1>1, <1>7, OnlyOne, ZenonT(30)
<1>9. v.packet = w.packet /\ v.peer = w.tmp /\ v.tmp = u /\ v.inside = FALSE
  BY <1>4, Zenon
<1>10. CASE w.tmp = PeerWalk!Head_
  <2>1. u \in Peers \cup {PeerWalk!Head_}
    <3>1. 1 \in DOMAIN list /\ list # <<>>
      BY <1>2, SuccIs, SMTT(30)
    <3>2. u = list[1]
      BY <1>10, <3>1, ZenonT(40) DEF PeerWalk!After
    <3> QED
      BY <1>2, <3>1, <3>2, AfterAt, ZenonT(40)
  <2>2. v \in [packet : Nat, peer : Peers \cup {PeerWalk!Head_},
               tmp : Peers \cup {PeerWalk!Head_}, inside : BOOLEAN]
    BY <1>4, <2>1, ZenonT(40)
  <2>3. Visit(v)'
    BY <1>4, <1>9, <1>10, <2>2, ZenonT(40) DEF Visit
  <2> QED
    BY <1>7, <1>8, <2>3, Zenon DEF PeersInv
<1>11. CASE w.tmp # PeerWalk!Head_
  <2>1. u = Succ(k + 1) /\ u \in Peers \cup {PeerWalk!Head_}
    BY <1>2, <1>5, <1>11, AfterAt, SuccIs, SMTT(30)
  <2>2. v \in [packet : Nat, peer : Peers \cup {PeerWalk!Head_},
               tmp : Peers \cup {PeerWalk!Head_}, inside : BOOLEAN]
    BY <1>4, <2>1, ZenonT(40)
  <2>3. k \in Nat /\ k >= 1 /\ k < Len(list) /\ Len(list) \in Nat /\ DOMAIN list = 1..Len(list)
    BY <1>2, <1>5, <1>11, SuccIs, SMTT(30)
  <2>4. \A m \in DOMAIN list : m > k => list[m] \in Peers /\ list[m] # w.peer
    BY <1>2, <2>3, SMTT(30) DEF ListInv
  <2>5. \A m \in DOMAIN list : m > k =>
           \A i \in DOMAIN got'[list[m]] : got'[list[m]][i] < w.packet
    BY <1>3, <2>3, <2>4, SMTT(30) DEF Waiting
  <2>6. PICK l \in DOMAIN list' :
           /\ list'[l] = list[k + 1] /\ Succ(l)' = Succ(k + 1)
           /\ \A m \in DOMAIN list' : m >= l =>
                 \E x \in DOMAIN list : x > k /\ list'[m] = list[x]
    <3>1. CASE list' = list
      <4>1. k + 1 \in DOMAIN list' /\ Succ(k + 1)' = Succ(k + 1)
        BY <1>5, <1>11, <3>1, ZenonT(40) DEF Succ
      <4>2. \A m \in DOMAIN list' : m >= k + 1 => m > k
        BY <2>3, <3>1, SMTT(30)
      <4> QED
        BY <3>1, <4>1, <4>2, ZenonT(40)
    <3>2. CASE list' = Cut(list, k)
      <4>1. /\ Len(list') = Len(list) - 1 /\ DOMAIN list' = 1..(Len(list) - 1)
            /\ \A x \in DOMAIN list' : list'[x] = IF x < k THEN list[x] ELSE list[x + 1]
        BY <1>2, <3>2, CutOut, SMTT(30) DEF ListInv
      <4>2. k \in DOMAIN list' /\ list'[k] = list[k + 1]
        BY <2>3, <4>1, SMTT(30)
      <4>3. Succ(k)' = Succ(k + 1)
        <5>1. CASE k + 1 = Len(list)
          <6>1. k = Len(list')
            BY <2>3, <4>1, <5>1, SMTT(30)
          <6> QED
            BY <5>1, <6>1, ZenonT(40) DEF Succ
        <5>2. CASE k + 1 # Len(list)
          <6>1. k # Len(list') /\ k + 1 \in DOMAIN list' /\ ~(k + 1 < k)
            BY <2>3, <4>1, <5>2, SMTT(30)
          <6>2. list'[k + 1] = list[(k + 1) + 1]
            BY <4>1, <6>1, Zenon
          <6> QED
            BY <5>2, <6>1, <6>2, ZenonT(40) DEF Succ
        <5> QED
          BY <5>1, <5>2, ZenonT(40)
      <4>4. ASSUME NEW m \in DOMAIN list', m >= k
            PROVE  \E x \in DOMAIN list : x > k /\ list'[m] = list[x]
        <5>1. m + 1 \in DOMAIN list /\ m + 1 > k /\ ~(m < k)
          BY <2>3, <4>1, <4>4, SMTT(30)
        <5>2. list'[m] = list[m + 1]
          BY <4>1, <5>1, ZenonT(40)
        <5> QED
          BY <5>1, <5>2, ZenonT(40)
      <4> QED
        BY <4>2, <4>3, <4>4, ZenonT(40)
    <3> QED
      BY <3>1, <3>2, ZenonT(40)
  <2>7. Waiting(l, w.packet)'
    BY <2>5, <2>6, ZenonT(40) DEF Waiting
  <2>8. Visit(v)'
    BY <1>4, <1>5, <1>9, <1>11, <2>1, <2>2, <2>6, <2>7, SMTT(30) DEF Visit
  <2> QED
    BY <1>7, <1>8, <2>8, ZenonT(40) DEF PeersInv
<1> QED
  BY <1>10, <1>11, ZenonT(40)

\* Every step of a server whose application does not send from a callback.
LEMMA PeersStep ==
    ASSUME PeerWalk!PeersAssumption, ~SendsInside, PeersInv, [PeerWalk!Next]_(PeerWalk!vars)
    PROVE  PeersInv'
<1>0. ListInv /\ GotInv /\ astray = FALSE
  BY Zenon DEF PeersInv
<1>1. ASSUME NEW p \in Peers, PeerWalk!Accept(p) PROVE PeersInv'
  <2>1. /\ walks = <<>> /\ walks' = <<>> /\ state[p] = "none" /\ list' = Append(list, p)
        /\ state' = [state EXCEPT ![p] = "connecting"] /\ UNCHANGED <<got, sends, astray>>
    BY <1>1, Zenon DEF PeerWalk!Accept
  <2>2. list \in Seq(Peers) /\ state \in [Peers -> PeerStates]
    BY <1>0, Zenon DEF ListInv
  <2>3. /\ list' \in Seq(Peers) /\ DOMAIN list' = 1..(Len(list) + 1) /\ DOMAIN list = 1..Len(list)
        /\ Len(list) \in Nat /\ list'[Len(list) + 1] = p
        /\ \A i \in 1..Len(list) : list'[i] = list[i]
    BY <2>1, <2>2, SMTT(30)
  <2>4. state' \in [Peers -> PeerStates] /\ state'[p] = "connecting"
        /\ \A x \in Peers : x # p => state'[x] = state[x]
    BY <2>1, <2>2, ZenonT(40) DEF PeerStates
  <2>5. \A i \in DOMAIN list : list[i] # p /\ list[i] \in Peers
    BY <1>0, <2>1, <2>2, SMTT(30) DEF ListInv
  <2>6. \A i \in DOMAIN list' : i = Len(list) + 1 \/ i \in DOMAIN list
    BY <2>3
  <2>7. \A i, j \in DOMAIN list' : list'[i] = list'[j] => i = j
    BY <1>0, <2>3, <2>5, <2>6, ZenonT(40) DEF ListInv
  <2>8. \A i \in DOMAIN list' : state'[list'[i]] \notin {"none", "freed"}
    BY <1>0, <2>3, <2>4, <2>5, <2>6, SMTT(30) DEF ListInv
  <2> QED
    BY <1>0, <2>1, <2>3, <2>4, <2>7, <2>8, ZenonT(40) DEF PeersInv, ListInv, GotInv, PeerWalk!SentInOrder
<1>2. ASSUME NEW p \in Peers, PeerWalk!Connected(p) PROVE PeersInv'
  <2>1. /\ walks = <<>> /\ walks' = <<>> /\ state' = [state EXCEPT ![p] = "connected"]
        /\ UNCHANGED <<list, got, sends, astray>>
    BY <1>2, ZenonT(40) DEF PeerWalk!Connected
  <2>2. list \in Seq(Peers) /\ state \in [Peers -> PeerStates]
    BY <1>0, Zenon DEF ListInv
  <2>3. state' \in [Peers -> PeerStates] /\ state'[p] = "connected"
        /\ \A x \in Peers : x # p => state'[x] = state[x]
    BY <2>1, <2>2, ZenonT(40) DEF PeerStates
  <2>4. \A i \in DOMAIN list : list[i] \in Peers /\ state'[list[i]] \notin {"none", "freed"}
    BY <1>0, <2>2, <2>3, SMTT(30) DEF ListInv
  <2> QED
    BY <1>0, <2>1, <2>3, <2>4, ZenonT(40) DEF PeersInv, ListInv, GotInv, PeerWalk!SentInOrder
<1>3. CASE PeerWalk!Send
  BY <1>3, SendKeeps, Zenon
<1>4. ASSUME walks # <<>>, PeerWalk!top.peer # PeerWalk!Head_
      PROVE  /\ PeerWalk!top.peer \in Peers /\ walks = <<PeerWalk!top>> /\ Visit(PeerWalk!top)
             /\ \E k \in DOMAIN list : /\ list[k] = PeerWalk!top.peer
                                       /\ Waiting(k, PeerWalk!top.packet)
  BY <1>4, TopVisit, Zenon DEF Visit
<1>5. CASE PeerWalk!Skip
  <2>1. /\ walks # <<>> /\ PeerWalk!top.peer # PeerWalk!Head_ /\ PeerWalk!Advance
        /\ UNCHANGED <<list, state, got, sends>>
    BY <1>5, Zenon DEF PeerWalk!Skip, PeerWalk!AtPeer
  <2>2. ListInv' /\ GotInv'
    BY <1>0, <2>1, Zenon DEF ListInv, GotInv, PeerWalk!SentInOrder
  <2>3. PICK k \in DOMAIN list : list[k] = PeerWalk!top.peer
    BY <1>4, <2>1, ZenonT(40)
  <2> QED
    BY <2>1, <2>2, <2>3, AdvanceKeeps, ZenonT(40)
<1>6. CASE PeerWalk!Write
  <2> PICK p, z : p = PeerWalk!top.peer /\ z = PeerWalk!top.packet
    BY Zenon
  <2>1. /\ walks # <<>> /\ p # PeerWalk!Head_ /\ PeerWalk!Advance
        /\ got' = [got EXCEPT ![p] = Append(@, z)] /\ UNCHANGED <<list, state, sends>>
    BY <1>6, Zenon DEF PeerWalk!Write, PeerWalk!AtPeer
  <2>2. PICK k \in DOMAIN list : list[k] = p /\ Waiting(k, z)
    BY <1>4, <2>1, Zenon
  <2>3. p \in Peers /\ z \in Nat /\ z < sends
    BY <1>4, <2>1, Zenon DEF Visit
  <2>4. got \in [Peers -> Seq(Nat)] /\ got[p] \in Seq(Nat) /\ sends \in Nat
    BY <1>0, <2>3, ZenonT(40) DEF GotInv
  <2>5. k \in Int /\ \A i \in DOMAIN got[p] : got[p][i] < z
    BY <1>0, <2>2, SMTT(30) DEF Waiting, ListInv
  <2>6. /\ got' \in [Peers -> Seq(Nat)] /\ got'[p] = Append(got[p], z)
        /\ \A x \in Peers : x # p => got'[x] = got[x]
    BY <2>1, <2>3, <2>4, SMTT(30)
  <2> PICK g, h : g = got[p] /\ h = got'[p]
    BY Zenon
  <2>7. /\ DOMAIN h = 1..(Len(g) + 1) /\ DOMAIN g = 1..Len(g) /\ Len(g) \in Nat
        /\ h[Len(g) + 1] = z /\ \A i \in 1..Len(g) : h[i] = g[i] /\ g[i] \in Nat
    BY <2>4, <2>6, SMTT(30)
  <2>8. \A i \in DOMAIN h : h[i] < sends
    <3>1. \A i \in DOMAIN g : g[i] < sends
      BY <1>0, <2>3, ZenonT(40) DEF GotInv
    <3>2. \A i \in DOMAIN h : i = Len(g) + 1 \/ i \in 1..Len(g)
      BY <2>7, SMTT(30)
    <3> QED
      BY <2>3, <2>7, <3>1, <3>2, SMTT(30)
  <2>9. ASSUME NEW i \in DOMAIN h, NEW j \in DOMAIN h, i < j PROVE h[i] < h[j]
    <3>1. i \in DOMAIN g /\ h[i] = g[i]
      BY <2>7, <2>9, SMTT(30)
    <3>2. CASE j = Len(g) + 1
      BY <2>5, <2>7, <3>1, <3>2, ZenonT(40)
    <3>3. CASE j # Len(g) + 1
      <4>1. j \in DOMAIN g /\ h[j] = g[j]
        BY <2>7, <3>3, SMTT(30)
      <4> QED
        BY <1>0, <2>3, <2>9, <3>1, <4>1, ZenonT(40) DEF GotInv, PeerWalk!SentInOrder
    <3> QED
      BY <3>2, <3>3, ZenonT(40)
  <2>10. GotInv'
    BY <1>0, <2>1, <2>6, <2>8, <2>9, ZenonT(40) DEF GotInv, PeerWalk!SentInOrder
  <2>11. ListInv'
    BY <1>0, <2>1, ZenonT(40) DEF ListInv
  <2> QED
    BY <2>1, <2>2, <2>6, <2>10, <2>11, AdvanceKeeps, ZenonT(40)
<1>7. CASE PeerWalk!WriteFails
  <2> PICK w : w = PeerWalk!top
    BY Zenon
  <2>1. /\ walks # <<>> /\ w.peer # PeerWalk!Head_ /\ UNCHANGED <<list, got, sends, astray>>
        /\ state' = [state EXCEPT ![w.peer] = "disconnected"]
        /\ walks' = [walks EXCEPT ![1] = [@ EXCEPT !.inside = TRUE]]
    BY <1>7, Zenon DEF PeerWalk!WriteFails, PeerWalk!AtPeer
  <2>2. walks = <<w>> /\ Visit(w) /\ w.peer \in Peers
    BY <1>4, <2>1, Zenon
  <2> PICK v : v = [w EXCEPT !.inside = TRUE]
    BY Zenon
  <2>12. walks' = [walks EXCEPT ![1] = v]
    BY <2>1, <2>2, Zenon
  <2>3. walks' = <<v>>
    BY <2>2, <2>12, OnlyOne, ZenonT(40)
  <2>4. /\ v \in [packet : Nat, peer : Peers \cup {PeerWalk!Head_},
                  tmp : Peers \cup {PeerWalk!Head_}, inside : BOOLEAN]
        /\ v.packet = w.packet /\ v.peer = w.peer /\ v.tmp = w.tmp /\ v.inside = TRUE
    BY <2>2, Zenon DEF Visit
  <2>5. PICK k \in DOMAIN list : list[k] = w.peer /\ w.tmp = Succ(k) /\ Waiting(k, w.packet)
    BY <2>1, <2>2, Zenon DEF Visit
  <2>6. Succ(k)' = Succ(k) /\ Waiting(k, w.packet)'
    BY <2>1, <2>5, ZenonT(40) DEF Succ, Waiting
  <2>7. w.packet < sends
    BY <2>2, Zenon DEF Visit
  <2>8. Visit(v)'
    BY <2>1, <2>4, <2>5, <2>6, <2>7, ZenonT(40) DEF Visit
  <2>9. list \in Seq(Peers) /\ state \in [Peers -> PeerStates]
    BY <1>0, Zenon DEF ListInv
  <2>10. state' \in [Peers -> PeerStates] /\ state'[w.peer] = "disconnected"
         /\ \A x \in Peers : x # w.peer => state'[x] = state[x]
    BY <2>1, <2>2, <2>9, ZenonT(40) DEF PeerStates
  <2>11. \A i \in DOMAIN list : list[i] \in Peers /\ state'[list[i]] \notin {"none", "freed"}
    BY <1>0, <2>9, <2>10, SMTT(30) DEF ListInv
  <2> QED
    BY <1>0, <2>1, <2>3, <2>8, <2>10, <2>11, ZenonT(40) DEF PeersInv, ListInv, GotInv, PeerWalk!SentInOrder
<1>8. CASE PeerWalk!CallbackReturns
  <2> PICK p : p = PeerWalk!top.peer
    BY Zenon
  <2>1. /\ walks # <<>> /\ PeerWalk!top.inside /\ PeerWalk!Advance /\ UNCHANGED <<got, sends>>
        /\ state' = [state EXCEPT ![p] = "freed"]
    BY <1>8, Zenon DEF PeerWalk!CallbackReturns
  <2>2. PICK k \in DOMAIN list : list[k] = p /\ list' = Cut(list, k)
    BY <1>8, Zenon DEF PeerWalk!CallbackReturns, Cut
  <2>3. p # PeerWalk!Head_
    BY <2>1, TopVisit, Zenon DEF Visit
  <2>4. p \in Peers
    BY <1>4, <2>1, <2>3, ZenonT(40)
  <2>5. list \in Seq(Peers) /\ state \in [Peers -> PeerStates]
    BY <1>0, ZenonT(40) DEF ListInv
  <2>6. /\ list' \in Seq(Peers) /\ DOMAIN list' = 1..(Len(list) - 1)
        /\ \A x \in DOMAIN list' : list'[x] = IF x < k THEN list[x] ELSE list[x + 1]
    BY <2>2, <2>5, CutOut, SMTT(30)
  <2>7. Len(list) \in Nat /\ DOMAIN list = 1..Len(list) /\ k \in 1..Len(list)
    BY <2>5
  <2>8. ASSUME NEW x \in DOMAIN list'
        PROVE  \E m \in DOMAIN list : list'[x] = list[m] /\ m # k /\ m = IF x < k THEN x ELSE x + 1
    <3>1. CASE x < k
      <4>1. x \in DOMAIN list /\ x # k /\ list'[x] = list[x]
        BY <2>6, <2>7, <3>1, SMTT(30)
      <4> QED
        BY <3>1, <4>1, ZenonT(40)
    <3>2. CASE ~(x < k)
      <4>1. x + 1 \in DOMAIN list /\ x + 1 # k /\ list'[x] = list[x + 1]
        BY <2>6, <2>7, <3>2, SMTT(30)
      <4> QED
        BY <3>2, <4>1, ZenonT(40)
    <3> QED
      BY <3>1, <3>2, Zenon
  <2>9. ASSUME NEW x \in DOMAIN list', NEW y \in DOMAIN list', list'[x] = list'[y] PROVE x = y
    <3>1. PICK m \in DOMAIN list : list'[x] = list[m] /\ m = IF x < k THEN x ELSE x + 1
      BY <2>8, Zenon
    <3>2. PICK z \in DOMAIN list : list'[y] = list[z] /\ z = IF y < k THEN y ELSE y + 1
      BY <2>8, Zenon
    <3>3. m = z
      BY <1>0, <2>9, <3>1, <3>2, ZenonT(40) DEF ListInv
    <3> QED
      BY <2>6, <2>7, <3>1, <3>2, <3>3, SMTT(30)
  <2>10. state' \in [Peers -> PeerStates] /\ \A x \in Peers : x # p => state'[x] = state[x]
    BY <2>1, <2>4, <2>5, ZenonT(40) DEF PeerStates
  <2>11. ASSUME NEW x \in DOMAIN list' PROVE state'[list'[x]] \notin {"none", "freed"}
    <3>1. PICK m \in DOMAIN list : list'[x] = list[m] /\ m # k
      BY <2>8, ZenonT(40)
    <3>2. list[m] # p /\ list[m] \in Peers /\ state[list[m]] \notin {"none", "freed"}
      BY <1>0, <2>2, <2>5, <3>1, SMTT(30) DEF ListInv
    <3> QED
      BY <2>10, <3>1, <3>2, ZenonT(40)
  <2>12. ListInv'
    BY <2>6, <2>9, <2>10, <2>11, ZenonT(40) DEF ListInv
  <2>13. GotInv'
    BY <1>0, <2>1, ZenonT(40) DEF GotInv, PeerWalk!SentInOrder
  <2> QED
    BY <2>1, <2>2, <2>3, <2>10, <2>12, <2>13, AdvanceKeeps, ZenonT(40)
<1>9. CASE PeerWalk!WalkEnds
  <2>1. walks # <<>> /\ walks' = Tail(walks) /\ UNCHANGED <<list, state, got, sends, astray>>
    BY <1>9, Zenon DEF PeerWalk!WalkEnds
  <2>2. PICK w : walks = <<w>>
    BY <2>1, TopVisit, Zenon
  <2>3. Tail(<<w>>) = <<>>
    OBVIOUS
  <2> QED
    BY <1>0, <2>1, <2>2, <2>3, ZenonT(40) DEF PeersInv, ListInv, GotInv, PeerWalk!SentInOrder
<1>10. CASE UNCHANGED PeerWalk!vars
  <2>1. UNCHANGED <<list, state, walks, got, sends, astray>>
    BY <1>10, ZenonT(40) DEF PeerWalk!vars
  <2>2. \A w : Visit(w)' <=> Visit(w)
    BY <2>1, SMTT(30) DEF Visit, Succ, Waiting
  <2> QED
    BY <1>0, <2>1, <2>2, ZenonT(40) DEF PeersInv, ListInv, GotInv, PeerWalk!SentInOrder
<1> QED
  BY <1>1, <1>2, <1>3, <1>5, <1>6, <1>7, <1>8, <1>9, <1>10, ZenonT(40) DEF PeerWalk!Next

\* A server without peers satisfies the invariant.
LEMMA PeersStart == ASSUME PeerWalk!Init PROVE PeersInv
<1>1. /\ list = <<>> /\ state = [p \in Peers |-> "none"] /\ walks = <<>> /\ sends = 0
      /\ got = [p \in Peers |-> <<>>] /\ astray = FALSE
  BY Zenon DEF PeerWalk!Init
<1>2. state \in [Peers -> PeerStates] /\ got \in [Peers -> Seq(Nat)]
  BY <1>1, SMTT(30) DEF PeerStates
<1>3. \A p \in Peers : DOMAIN got[p] = {}
  BY <1>1, SMTT(30)
<1> QED
  BY <1>1, <1>2, <1>3, SMTT(30) DEF PeersInv, ListInv, GotInv, PeerWalk!SentInOrder

\* While the DISCONNECTED callback sends nothing, the walk of obus_server_send_event
\* over any number of peers reads no freed peer although it destroys those whose
\* write fails, and each peer gets packets in the order in which they were sent.
THEOREM WalkSafeCorrect ==
    ASSUME PeerWalk!PeersAssumption, ~SendsInside
    PROVE  PeerWalk!Spec => [](PeerWalk!WalkSafe /\ PeerWalk!SentInOrder)
<1>1. PeerWalk!Init => PeersInv
  BY PeersStart, Zenon
<1>2. PeersInv /\ [PeerWalk!Next]_(PeerWalk!vars) => PeersInv'
  BY PeersStep, Zenon
<1>3. PeersInv => PeerWalk!WalkSafe /\ PeerWalk!SentInOrder
  BY Zenon DEF PeersInv, GotInv, PeerWalk!WalkSafe
<1> QED
  BY <1>1, <1>2, <1>3, PTL DEF PeerWalk!Spec

=============================================================================
