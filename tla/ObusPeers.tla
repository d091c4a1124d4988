------------------------------ MODULE ObusPeers -----------------------------
(***************************************************************************)
(* The walk over the peers of a server, step by step: a peer whose write   *)
(* fails is destroyed inside the walk, after the application has been told *)
(* that it is disconnected.  If the application answers by sending, a      *)
(* second walk runs inside the first.                                      *)
(***************************************************************************)
EXTENDS Naturals, Sequences

CONSTANTS
    Peers,         \* peers
    SendsInside,   \* may the DISCONNECTED callback send
    MaxSends       \* bound: packets sent

Head_ == "head"  \* the list itself

PeersAssumption == SendsInside \in BOOLEAN /\ MaxSends \in Nat /\ Head_ \notin Peers

VARIABLES
    list,   \* srv->peers
    state,  \* of each peer: "none", "connecting", "connected", "disconnected" or "freed"
    count,  \* srv->n_peers_connected
    walks,  \* the walks that run, the innermost first: packet, peer, tmp, and
            \* whether the callback for peer runs
    got,    \* the packets written to each peer
    sends,  \* packets sent
    bad     \* has a walk read a freed peer

vars == <<list, state, count, walks, got, sends, bad>>

Place(p) == CHOOSE i \in DOMAIN list : list[i] = p

\* The peer after p in the list; a freed peer is in no list.
After(p) ==
    CASE p = Head_ -> IF list = <<>> THEN Head_ ELSE list[1]
      [] OTHER -> IF Place(p) = Len(list) THEN Head_ ELSE list[Place(p) + 1]

Init ==
    /\ list = <<>>
    /\ state = [p \in Peers |-> "none"] /\ count = 0
    /\ walks = <<>> /\ got = [p \in Peers |-> <<>>] /\ sends = 0 /\ bad = FALSE

\* obus_server_accept: a new peer is the last in the list, outside of any walk.
Accept(p) ==
    /\ walks = <<>> /\ state[p] = "none"
    /\ state' = [state EXCEPT ![p] = "connecting"] /\ list' = Append(list, p)
    /\ UNCHANGED <<count, walks, got, sends, bad>>

\* The request of a peer is answered, outside of any walk.
Connected(p) ==
    /\ walks = <<>> /\ state[p] = "connecting"
    /\ state' = [state EXCEPT ![p] = "connected"] /\ count' = count + 1
    /\ UNCHANGED <<list, walks, got, sends, bad>>

\* obus_server_send_event and its like: no walk without a connected peer.
Send ==
    /\ ~bad /\ sends < MaxSends /\ sends' = sends + 1
    /\ walks # <<>> => SendsInside /\ walks[1].inside
    /\ walks' = IF count = 0 THEN walks
                ELSE <<[packet |-> sends, peer |-> After(Head_),
                        tmp |-> After(After(Head_)), inside |-> FALSE]>> \o walks
    /\ UNCHANGED <<list, state, count, got, bad>>

top == walks[1]
AtPeer == walks # <<>> /\ ~bad /\ ~top.inside /\ top.peer # Head_

\* Mutant: the next peer is read when the walk goes on.
AdvanceUnsaved ==
    IF state'[top.peer] = "freed" THEN bad' = TRUE /\ UNCHANGED walks
    ELSE /\ walks' = [walks EXCEPT ![1] = [@ EXCEPT !.peer = After(top.peer), !.inside = FALSE]]
         /\ UNCHANGED bad

\* The next round of the innermost walk, which reads the saved next peer.
Advance ==
    IF top.tmp # Head_ /\ state'[top.tmp] = "freed"
    THEN bad' = TRUE /\ UNCHANGED walks
    ELSE /\ walks' = [walks EXCEPT ![1] = [@ EXCEPT !.peer = top.tmp, !.inside = FALSE,
                                            !.tmp = After(top.tmp)]]
         /\ UNCHANGED bad

Skip ==
    /\ AtPeer /\ state[top.peer] # "connected"
    /\ UNCHANGED <<list, state, count, got, sends>>
    /\ Advance

Write ==
    /\ AtPeer /\ state[top.peer] = "connected"
    /\ got' = [got EXCEPT ![top.peer] = Append(@, top.packet)]
    /\ UNCHANGED <<list, state, count, sends>>
    /\ Advance

\* obus_peer_destroy up to the callback.
WriteFails ==
    /\ AtPeer /\ state[top.peer] = "connected"
    /\ state' = [state EXCEPT ![top.peer] = "disconnected"] /\ count' = count - 1
    /\ walks' = [walks EXCEPT ![1] = [@ EXCEPT !.inside = TRUE]]
    /\ UNCHANGED <<list, got, sends, bad>>

\* The rest of it, and the walk goes on.
CallbackReturns ==
    /\ walks # <<>> /\ ~bad /\ top.inside
    /\ state' = [state EXCEPT ![top.peer] = "freed"]
    /\ \E i \in DOMAIN list :
          list[i] = top.peer /\ list' = SubSeq(list, 1, i - 1) \o SubSeq(list, i + 1, Len(list))
    /\ Advance
    /\ UNCHANGED <<count, got, sends>>

WalkEnds ==
    /\ walks # <<>> /\ ~bad /\ ~top.inside /\ top.peer = Head_
    /\ walks' = Tail(walks)
    /\ UNCHANGED <<list, state, count, got, sends, bad>>

Next ==
    \/ Send \/ Skip \/ Write \/ WriteFails \/ CallbackReturns \/ WalkEnds
    \/ \E p \in Peers : Accept(p) \/ Connected(p)

Spec == Init /\ [][Next]_vars

-----------------------------------------------------------------------------
(***************************************************************************)
(* Properties.                                                             *)
(***************************************************************************)

\* A walk reads no peer that it, or a walk inside it, has freed.
WalkSafe == ~bad

\* All peers get packets in the order in which they were sent, as a replica
\* needs them: none gets the packet of a callback before the one whose write
\* has failed.
SentInOrder == \A p \in Peers : \A i, j \in DOMAIN got[p] : i < j => got[p][i] < got[p][j]

=============================================================================
