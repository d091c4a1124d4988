---------------------------- MODULE ObusRegistry ----------------------------
(***************************************************************************)
(* The life of the objects of a server: who may still reach an object, in  *)
(* the table of handles, the list of registered objects and the lists of a *)
(* bus event, and who frees it.  An object is in a list if its node is;    *)
(* taking a node out of a list it is not in writes to a poisoned address.  *)
(*                                                                         *)
(* The application owns an object from its creation until it has registered*)
(* it or handed it to a bus event that is sent, and again once it has      *)
(* unregistered it.  It uses only objects that are registered or its own,  *)
(* sends a bus event once, and destroys no object whose event waits in one.*)
(* Two things that the code does not forgive it may do: they are recorded  *)
(* in careless.                                                            *)
(***************************************************************************)
EXTENDS Naturals

CONSTANTS
    Objs,      \* objects, by their addresses
    MaxFails   \* bound: allocations that fail

ASSUME RegistryAssumption == MaxFails \in Nat

VARIABLES
    live,        \* objects that are allocated
    hash,        \* bus.objects_hash
    registered,  \* objects with is_registered
    listed,      \* bus.objects
    node,        \* event_node: in which list of the bus event an object is
    event,       \* the bus event: "none", "open" or "sent"
    events,      \* obj_events, by their objects
    held,        \* objects of the application
    server,      \* "up" or "down"
    bad,         \* has memory been accessed that is not there
    careless,    \* was an object unregistered whose event is in a bus event, or
                 \* the server ended before what the application had to do first
    fails        \* allocations that have failed

vars == <<live, hash, registered, listed, node, event, events, held, server, bad, careless, fails>>

In(list) == {o \in Objs : node[o] = list}

Init ==
    /\ live = {} /\ hash = {} /\ registered = {} /\ listed = {}
    /\ node = [o \in Objs |-> "none"] /\ event = "none" /\ events = {}
    /\ held = {} /\ server = "up" /\ bad = FALSE
    /\ careless = FALSE /\ fails = 0

-----------------------------------------------------------------------------
(***************************************************************************)
(* The lists and the bus.                                                  *)
(***************************************************************************)

\* What a step does to the lists is wrong if one of these holds.
Access(wrong) == bad' = (bad \/ wrong)

\* obus_list_del of the event nodes: the bus event has to be there.
Detach(objects) == node' = [o \in Objs |-> IF o \in objects THEN "none" ELSE node[o]]
NoEvent(objects) == event = "none" /\ \E o \in objects : node[o] # "none"

\* obus_bus_register_object, of objects that are in no list yet, and
\* obus_bus_unregister_object, of objects that are in the list
BusRegister(objects) == registered' = registered \cup objects /\ listed' = listed \cup objects
BusUnregister(objects) == registered' = registered \ objects /\ listed' = listed \ objects
InTheList(objects) == objects \cap listed # {}
NotInTheList(objects) == ~(objects \subseteq listed)

\* obus_object_destroy of objects that are not registered.
Free(objects) == live' = live \ objects /\ hash' = hash \ objects /\ held' = held \ objects

-----------------------------------------------------------------------------
(***************************************************************************)
(* The server's interface.                                                 *)
(***************************************************************************)

NewObject(o) ==
    /\ server = "up" /\ o \notin live
    /\ live' = live \cup {o} /\ hash' = hash \cup {o} /\ held' = held \cup {o}
    /\ node' = [node EXCEPT ![o] = "none"]
    /\ UNCHANGED <<registered, listed, event, events, server, bad, careless, fails>>

\* An object stays registered if the packet cannot be allocated.
RegisterObject(o) ==
    /\ o \in held \ registered
    /\ BusRegister({o}) /\ Access(InTheList({o})) /\ held' = held \ {o}
    /\ UNCHANGED <<live, hash, node, event, events, server, careless, fails>>

UnregisterObject(o) ==
    /\ o \in registered
    /\ BusUnregister({o}) /\ Access(NotInTheList({o})) /\ held' = held \cup {o}
    /\ careless' = (careless \/ o \in events)
    /\ UNCHANGED <<live, hash, node, event, events, server, fails>>

\* Mutant: a registered object is destroyed, too.
DestroyObjectAny(o) ==
    /\ o \in (held \cup registered) \ events
    /\ Free({o}) /\ Detach({o}) /\ Access(NoEvent({o}))
    /\ UNCHANGED <<registered, listed, event, events, server, careless, fails>>

DestroyObject(o) ==
    /\ o \in held \ (registered \cup events)
    /\ Free({o}) /\ Detach({o}) /\ Access(NoEvent({o}))
    /\ UNCHANGED <<registered, listed, event, events, server, careless, fails>>

\* What the application has to do before it ends the server: destroy the objects
\* that it owns, and the bus event whose removed objects go with it.
Unfinished == held # {} \/ (event = "sent" /\ In("remove") # {})

\* obus_server_destroy, whose obus_bus_clear unregisters and destroys what is in
\* the table, registered or not.
ServerDestroy ==
    /\ server = "up" /\ server' = "down"
    /\ BusUnregister(hash) /\ Free(hash) /\ Detach(hash)
    /\ Access(NotInTheList(hash) \/ NoEvent(hash))
    /\ careless' = (careless \/ Unfinished)
    /\ UNCHANGED <<event, events, fails>>

-----------------------------------------------------------------------------
(***************************************************************************)
(* Bus events.                                                             *)
(***************************************************************************)

EventNew ==
    /\ server = "up" /\ event = "none" /\ event' = "open"
    /\ UNCHANGED <<live, hash, registered, listed, node, events, held, server, bad, careless, fails>>

EventRegisterObject(o) ==
    /\ event = "open" /\ o \in held \cup registered /\ node[o] = "none"
    /\ node' = [node EXCEPT ![o] = "add"]
    /\ UNCHANGED <<live, hash, registered, listed, event, events, held, server, bad, careless, fails>>

EventUnregisterObject(o) ==
    /\ event = "open" /\ o \in held \cup registered /\ node[o] = "none"
    /\ node' = [node EXCEPT ![o] = "remove"]
    /\ UNCHANGED <<live, hash, registered, listed, event, events, held, server, bad, careless, fails>>

EventAddEvent(o) ==
    /\ event = "open" /\ o \in registered
    /\ events' = events \cup {o}
    /\ UNCHANGED <<live, hash, registered, listed, node, event, held, server, bad, careless, fails>>

\* obus_server_check_bus_event, first for the objects and then for the events
ObjectsFit == In("add") \cap registered = {} /\ In("remove") \subseteq registered
EventsFit == events \subseteq registered

\* Mutant: what is added is not checked.
SendBusEventUnchecked ==
    /\ server = "up" /\ event = "open" /\ In("remove") \subseteq registered /\ EventsFit
    /\ event' = "sent" /\ held' = held \ In("add")
    /\ registered' = (registered \cup In("add")) \ In("remove")
    /\ listed' = (listed \cup In("add")) \ In("remove")
    /\ Access(InTheList(In("add")) \/ NotInTheList(In("remove")))
    /\ UNCHANGED <<live, hash, node, events, server, careless, fails>>

\* obus_server_send_bus_event: what it adds is the server's, what it removes will
\* go with the event.
SendBusEvent ==
    /\ server = "up" /\ event = "open" /\ ObjectsFit /\ EventsFit
    /\ event' = "sent" /\ held' = held \ In("add")
    /\ registered' = (registered \cup In("add")) \ In("remove")
    /\ listed' = (listed \cup In("add")) \ In("remove")
    /\ Access(InTheList(In("add")) \/ NotInTheList(In("remove")))
    /\ UNCHANGED <<live, hash, node, events, server, careless, fails>>

\* Its packet cannot be allocated: what was registered is unregistered again.
SendBusEventFails ==
    /\ server = "up" /\ event = "open" /\ ObjectsFit /\ EventsFit
    /\ fails < MaxFails /\ fails' = fails + 1
    /\ event' = "sent" /\ held' = held \ In("add")
    /\ Access(InTheList(In("add")))
    /\ UNCHANGED <<live, hash, registered, listed, node, events, server, careless>>

\* An event of an object that is not registered is refused, with a message whose
\* object is the head of the list of removed ones: it is read as if it were one.
SendBusEventRefused ==
    /\ server = "up" /\ event = "open" /\ ~(ObjectsFit /\ EventsFit)
    /\ \E wild \in {FALSE, ObjectsFit} : Access(wild)
    /\ UNCHANGED <<live, hash, registered, listed, node, event, events, held, server, careless, fails>>

\* Mutant: removed objects are only taken out of the event.
EventDestroyKeeps ==
    /\ event # "none" /\ event' = "none" /\ events' = {}
    /\ Detach(Objs) /\ Access(NoEvent(Objs))
    /\ UNCHANGED <<live, hash, held, registered, listed, server, careless, fails>>

\* obus_bus_event_destroy, also of one that was not sent: a removed object that is
\* registered is not destroyed.
EventDestroy ==
    /\ event # "none" /\ event' = "none" /\ events' = {}
    /\ Free(In("remove") \ registered) /\ Detach(Objs) /\ Access(NoEvent(Objs))
    /\ UNCHANGED <<registered, listed, server, careless, fails>>

-----------------------------------------------------------------------------
Next ==
    \/ ServerDestroy \/ EventNew \/ EventDestroy
    \/ SendBusEvent \/ SendBusEventFails \/ SendBusEventRefused
    \/ \E o \in Objs :
         \/ NewObject(o) \/ RegisterObject(o) \/ UnregisterObject(o) \/ DestroyObject(o)
         \/ EventRegisterObject(o) \/ EventUnregisterObject(o) \/ EventAddEvent(o)

Spec == Init /\ [][Next]_vars

-----------------------------------------------------------------------------
(***************************************************************************)
(* Properties.                                                             *)
(***************************************************************************)

\* Whatever the order in which objects are made, registered, put in bus events and
\* destroyed, no node is taken out of a list that it is not in or that is gone, and
\* none is put in the list twice, the end of the server included: as long as no
\* allocation has failed, no object was unregistered while a bus event held one of
\* its events, and the server was not ended while the application owned an object
\* that is not registered or had not destroyed a bus event that removed one.
\* obus_bus_clear unlinks what is in the table without asking whether it is
\* registered (obus_bus.c:148), so the last of these has to be asked for.
NoBadAccess == fails = 0 /\ ~careless => ~bad

\* What can be reached has not been freed: every object in the table, in the list
\* of registered objects or in a list of the bus event is allocated, every allocated
\* object can be found by its handle, and the events of a bus event have their
\* objects as long as there is a server to send it.
NothingDangles ==
    /\ hash = live /\ registered \subseteq hash /\ listed = registered
    /\ server = "up" => events \subseteq live
    /\ \A o \in Objs : node[o] # "none" => o \in live /\ event # "none"

\* Objects added to or removed in a bus event are the server's: one that is not
\* registered is still the application's, or goes with the event, as long as no
\* allocation has failed.
ObjectsOwned == fails = 0 => live \subseteq held \cup registered \cup In("remove")

=============================================================================
