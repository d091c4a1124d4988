----------------------------- MODULE ObusChannel ----------------------------
(***************************************************************************)
(* What the rest of obus expects of its writes: a connection takes packets *)
(* in, and passes them on whole, once and in the order of the writes,      *)
(* until it is closed.  Packets that wait when it is closed are dropped.   *)
(***************************************************************************)
EXTENDS Sequences

CONSTANTS
    Io,     \* the connections
    Packet  \* the packets

VARIABLES
    up,    \* the open connections
    wire,  \* wire[i]: the packets passed on
    pend   \* pend[i]: the packets that wait

vars == <<up, wire, pend>>

Init ==
    /\ up = {}
    /\ wire = [i \in Io |-> <<>>]
    /\ pend = [i \in Io |-> <<>>]

Open(i) ==
    /\ i \notin up
    /\ up' = up \cup {i}
    /\ wire' = [wire EXCEPT ![i] = <<>>]
    /\ UNCHANGED pend

\* A packet overtakes none that waits.
SendNow(i, p) ==
    /\ i \in up /\ pend[i] = <<>>
    /\ wire' = [wire EXCEPT ![i] = Append(@, p)]
    /\ UNCHANGED <<up, pend>>

SendLater(i, p) ==
    /\ i \in up
    /\ pend' = [pend EXCEPT ![i] = Append(@, p)]
    /\ UNCHANGED <<up, wire>>

Pass(i) ==
    /\ pend[i] # <<>>
    /\ wire' = [wire EXCEPT ![i] = Append(@, Head(pend[i]))]
    /\ pend' = [pend EXCEPT ![i] = Tail(@)]
    /\ UNCHANGED up

Close(i) ==
    /\ i \in up
    /\ up' = up \ {i}
    /\ pend' = [pend EXCEPT ![i] = <<>>]
    /\ UNCHANGED wire

Next ==
    \E i \in Io :
        \/ Open(i) \/ Pass(i) \/ Close(i)
        \/ \E p \in Packet : SendNow(i, p) \/ SendLater(i, p)

Spec == Init /\ [][Next]_vars

=============================================================================
