------------------------------- MODULE ObusLoop -----------------------------
(***************************************************************************)
(* The event loop (obus_loop.c with epoll, obus_loop_posix.c with poll),   *)
(* whose handlers change the table they are called from.                   *)
(*                                                                         *)
(* The descriptors in the table are those of connections: a connection is  *)
(* at an address, has a socket and an obus_fd to read, and while it has    *)
(* something to write a second obus_fd for the same socket, which the loop *)
(* gives a duplicate (obus_io.c).  Addresses and descriptors are used      *)
(* again.  With epoll an event names the obus_fd by its address, with poll *)
(* by its descriptor.                                                      *)
(***************************************************************************)
EXTENDS Integers, Sequences, SequencesExt

CONSTANTS
    Addr,       \* addresses of connections, a set of numbers
    MaxConns,   \* bound: connections in the course of time
    MaxChanges  \* bound: changes that a handler makes

LoopAssumption ==
    Addr \subseteq Nat /\ MaxConns \in Nat /\ MaxChanges \in Nat

VARIABLES
    posix,   \* is the loop built with poll, or with epoll
    conns,   \* the connections there were: exists, addr, fd and dup (0 for -1)
    table,   \* the obus_fds in the loop, a sequence of <<connection, "r" or "w">>
    ready,   \* the sequence of those that are ready, in the order they became so
    hup,     \* the connections whose other end has gone
    batch,   \* the events of the call of obus_loop_do_process
    i, j,    \* its counters, and
    ret,     \* the result of epoll_wait or poll
    pc,      \* "idle", "walk", "call" or "handler"
    cur,     \* the obus_fd whose handler runs, the event and who raised it
    changes  \* changes the handler has made

vars == <<posix, conns, table, ready, hup, batch, i, j, ret, pc, cur, changes>>
walkVars == <<batch, i, j, ret>>

Nobody == [of |-> <<0, "r">>, err |-> FALSE, from |-> 0]

Init ==
    /\ posix \in BOOLEAN
    /\ conns = <<>> /\ table = <<>> /\ ready = <<>> /\ hup = {}
    /\ batch = <<>> /\ i = 0 /\ j = 0 /\ ret = 0
    /\ pc = "idle" /\ cur = Nobody /\ changes = 0

Live == {c \in 1..Len(conns) : conns[c].exists}
InTable == ToSet(table)

\* The kernel gives the lowest descriptor that is not in use.
Used == {conns[c].fd : c \in Live} \cup {conns[c].dup : c \in Live}
Descriptor == CHOOSE f \in 1..(2 * MaxConns) :
                f \notin Used /\ \A g \in 1..(f - 1) : g \in Used
Address == CHOOSE a \in Addr : /\ \A c \in Live : conns[c].addr # a
                               /\ \A b \in Addr : b < a => \E c \in Live : conns[c].addr = b

-----------------------------------------------------------------------------
(***************************************************************************)
(* What handlers, and the application between them, do.                    *)
(***************************************************************************)

Running ==
    \/ pc = "idle" /\ UNCHANGED changes
    \/ pc = "handler" /\ changes < MaxChanges /\ changes' = changes + 1

\* obus_io_new: a connection, with an obus_fd to read.
Open ==
    /\ Running /\ Len(conns) < MaxConns /\ \E a \in Addr : \A c \in Live : conns[c].addr # a
    /\ conns' = Append(conns, [exists |-> TRUE, addr |-> Address, fd |-> Descriptor, dup |-> 0])
    /\ table' = Append(table, <<Len(conns) + 1, "r">>)
    /\ UNCHANGED <<posix, ready, hup, walkVars, pc, cur>>

\* obus_loop_add of the obus_fd to write: the socket is in the table already.
AddWrite(c) ==
    /\ Running /\ c \in Live /\ conns[c].dup = 0
    /\ conns' = [conns EXCEPT ![c].dup = Descriptor]
    /\ table' = Append(table, <<c, "w">>)
    /\ UNCHANGED <<posix, ready, hup, walkVars, pc, cur>>

\* obus_loop_remove of it: the duplicate is closed.
RemoveWrite(c) ==
    /\ Running /\ <<c, "w">> \in InTable
    /\ conns' = [conns EXCEPT ![c].dup = 0]
    /\ table' = RemoveFirst(table, <<c, "w">>) /\ ready' = RemoveFirst(ready, <<c, "w">>)
    /\ UNCHANGED <<posix, hup, walkVars, pc, cur>>

\* obus_io_destroy, and the socket is closed.
Drop(seq, c) == RemoveFirst(RemoveFirst(seq, <<c, "r">>), <<c, "w">>)
Closing(c) ==
    /\ conns' = [conns EXCEPT ![c] = [exists |-> FALSE, addr |-> 0, fd |-> 0, dup |-> 0]]
    /\ table' = Drop(table, c) /\ ready' = Drop(ready, c)
    /\ hup' = hup \ {c}
Close(c) ==
    /\ Running /\ c \in Live
    /\ Closing(c)
    /\ UNCHANGED <<posix, walkVars, pc, cur>>

-----------------------------------------------------------------------------
(***************************************************************************)
(* The other end, and the kernel.  What happens during a walk is seen by   *)
(* the next one, and is left for the time between them.                    *)
(***************************************************************************)

\* Something arrives, or there is room to write.
Signal(e) ==
    /\ pc = "idle" /\ e \in InTable \ ToSet(ready)
    /\ ready' = Append(ready, e)
    /\ UNCHANGED <<posix, conns, table, hup, walkVars, pc, cur, changes>>

HangUp(c) ==
    /\ pc = "idle" /\ c \in Live \ hup /\ <<c, "r">> \in InTable
    /\ hup' = hup \cup {c}
    /\ ready' = IF <<c, "r">> \in ToSet(ready) THEN ready ELSE Append(ready, <<c, "r">>)
    /\ UNCHANGED <<posix, conns, table, walkVars, pc, cur, changes>>

-----------------------------------------------------------------------------
(***************************************************************************)
(* obus_loop_do_process.                                                   *)
(***************************************************************************)

\* What names an obus_fd in an event.
Key(e) ==
    IF posix THEN IF e[2] = "r" THEN conns[e[1]].fd ELSE conns[e[1]].dup
    ELSE <<conns[e[1]].addr, e[2]>>

Event(e) == [key |-> Key(e), ready |-> e \in ToSet(ready), err |-> e[1] \in hup, from |-> e[1]]

\* epoll_wait fills the array with the events, poll that of obus_loop_posix_get_fds.
Process ==
    /\ pc = "idle" /\ ready # <<>>
    /\ LET src == IF posix THEN table ELSE ready
       IN  batch' = [k \in 1..Len(src) |-> Event(src[k])]
    /\ i' = 1 /\ j' = 0 /\ ret' = Len(ready)
    /\ pc' = "walk"
    /\ UNCHANGED <<posix, conns, table, ready, hup, cur, changes>>

\* Mutant: the event is passed to the obus_fd it was raised for, removed or not.
FoundUnchecked(ev) ==
    {e \in {<<c, d>> : c \in 1..Len(conns), d \in {"r", "w"}} : e[1] = ev.from /\ e[2] = "r"}

\* The obus_fd in the table that an event names, if there is one.
Found(ev) == {e \in InTable : Key(e) = ev.key}

\* Mutant: events are not counted.
WalkUncounted ==
    /\ pc = "walk" /\ i <= Len(table) /\ j < ret
    /\ LET ev == batch[i] IN
        /\ i' = i + 1 /\ UNCHANGED j
        /\ \/ /\ ev.ready
              /\ \E e \in Found(ev) :
                   pc' = "call" /\ cur' = [of |-> e, err |-> ev.err, from |-> ev.from]
           \/ /\ ev.ready => Found(ev) = {}
              /\ UNCHANGED <<pc, cur>>
    /\ UNCHANGED <<posix, conns, table, ready, hup, batch, ret, changes>>

\* Mutant: only the first event is processed.
WalkFirst ==
    /\ pc = "walk" /\ i <= Len(table) /\ j < ret
    /\ LET ev == batch[i] IN
        /\ i' = i + 1
        /\ j' = IF ev.ready THEN ret ELSE j
        /\ \/ /\ ev.ready
              /\ \E e \in Found(ev) :
                   pc' = "call" /\ cur' = [of |-> e, err |-> ev.err, from |-> ev.from]
           \/ /\ ev.ready => Found(ev) = {}
              /\ UNCHANGED <<pc, cur>>
    /\ UNCHANGED <<posix, conns, table, ready, hup, batch, ret, changes>>

\* One turn of the walk, bounded by nfds, which is the length of the table now.
Walk ==
    /\ pc = "walk" /\ i <= Len(table) /\ j < ret
    /\ LET ev == batch[i] IN
        /\ i' = i + 1
        /\ j' = IF ev.ready THEN j + 1 ELSE j
        /\ \/ /\ ev.ready
              /\ \E e \in Found(ev) :
                   pc' = "call" /\ cur' = [of |-> e, err |-> ev.err, from |-> ev.from]
           \/ /\ ev.ready => Found(ev) = {}
              /\ UNCHANGED <<pc, cur>>
    /\ UNCHANGED <<posix, conns, table, ready, hup, batch, ret, changes>>

WalkEnd ==
    /\ pc = "walk" /\ ~(i <= Len(table) /\ j < ret)
    /\ pc' = "idle"
    /\ batch' = <<>> /\ i' = 0 /\ j' = 0 /\ ret' = 0
    /\ UNCHANGED <<posix, conns, table, ready, hup, cur, changes>>

\* The handler begins: it takes what is there, and on an error it destroys the
\* connection it is called for.
Call ==
    /\ pc = "call"
    /\ \/ /\ cur.err /\ Closing(cur.of[1])
       \/ /\ ~cur.err
          /\ ready' = IF cur.of[1] \in hup THEN ready ELSE RemoveFirst(ready, cur.of)
          /\ UNCHANGED <<conns, table, hup>>
    /\ pc' = "handler"
    /\ UNCHANGED <<posix, walkVars, cur, changes>>

Return ==
    /\ pc = "handler"
    /\ pc' = "walk" /\ cur' = Nobody /\ changes' = 0
    /\ UNCHANGED <<posix, conns, table, ready, hup, walkVars>>

Conns == 1..MaxConns

Next ==
    \/ Open
    \/ \E c \in Conns : AddWrite(c) \/ RemoveWrite(c) \/ Close(c) \/ HangUp(c)
    \/ \E c \in Conns, d \in {"r", "w"} : Signal(<<c, d>>)
    \/ Process \/ Walk \/ WalkEnd \/ Call \/ Return

Spec == Init /\ [][Next]_vars

\* The application calls the loop when it is ready, and handlers return.
Fairness == WF_vars(Process) /\ WF_vars(Walk) /\ WF_vars(WalkEnd)
            /\ WF_vars(Call) /\ WF_vars(Return)

FairSpec == Spec /\ Fairness

-----------------------------------------------------------------------------
(***************************************************************************)
(* Properties.                                                             *)
(***************************************************************************)

\* A handler is called for an obus_fd that is in the table at that moment, not
\* for one that an earlier handler of the same walk has removed.
CalledInTable == pc = "call" => cur.of \in InTable

\* Every obus_fd in the table has an open descriptor of its own, which no other
\* has, and every duplicate belongs to one: none is left open, or closed too soon.
Descriptors ==
    /\ \A c \in Live : conns[c].dup # 0 <=> <<c, "w">> \in InTable
    /\ \A d, e \in InTable : Key(d) = Key(e) => d = e
    /\ \A e \in InTable : e[1] \in Live

\* The walk stays inside the array that the kernel has filled, although the
\* bound it uses follows the table while handlers add to it.
WalkInArray == pc = "walk" /\ i <= Len(table) /\ j < ret => i <= Len(batch)

\* An obus_fd that is ready gets its turn, or is removed or taken care of by
\* another, although the walk may stop short of it when the table shrinks.
Served ==
    \A c \in Conns, d \in {"r", "w"} :
        <<c, d>> \in ToSet(ready) ~> (<<c, d>> \notin ToSet(ready) \/ cur.of = <<c, d>>)

-----------------------------------------------------------------------------
(***************************************************************************)
(* What the code does not do, although its comments suggest it: TLC finds  *)
(* a counterexample to each of these (see the README).                     *)
(***************************************************************************)

\* An event reaches the obus_fd whose descriptor raised it.
OwnEvent == pc = "call" => cur.from = cur.of[1]

=============================================================================
