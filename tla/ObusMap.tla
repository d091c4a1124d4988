------------------------------- MODULE ObusMap ------------------------------
(***************************************************************************)
(* What the hash table promises: a list of entries with different keys, in *)
(* the order in which they were inserted, and a result of every operation. *)
(***************************************************************************)
EXTENDS Naturals, Sequences

CONSTANTS Keys, Data

VARIABLES
    pairs,  \* the entries: key, data and whether the data is constant
    ret     \* the result of the last operation

vars == <<pairs, ret>>

Entries == [key : Keys, data : Data, const : BOOLEAN]
Of(k) == {i \in DOMAIN pairs : pairs[i].key = k}

Init == pairs = <<>> /\ ret = "none"

Open == pairs = <<>> /\ ret' = "ok" /\ UNCHANGED pairs

Put(e) ==
    \/ Of(e.key) = {} /\ pairs' = Append(pairs, e) /\ ret' = "ok"
    \/ Of(e.key) # {} /\ ret' = "EEXIST" /\ UNCHANGED pairs
    \/ ret' = "ENOMEM" /\ UNCHANGED pairs

\* Constant data is not given to those who might change it.
Get(k, const) ==
    /\ UNCHANGED pairs
    /\ \/ Of(k) = {} /\ ret' = "ENOENT"
       \/ \E i \in Of(k) : ret' = IF pairs[i].const /\ ~const THEN "EPERM" ELSE pairs[i].data

Delete(k) ==
    \/ Of(k) = {} /\ ret' = "ENOENT" /\ UNCHANGED pairs
    \/ /\ ret' = "ok"
       /\ \E i \in Of(k) : pairs' = SubSeq(pairs, 1, i - 1) \o SubSeq(pairs, i + 1, Len(pairs))

Close == pairs' = <<>> /\ ret' = "ok"

Next ==
    \/ Open \/ Close
    \/ \E e \in Entries : Put(e)
    \/ \E k \in Keys : Delete(k) \/ \E const \in BOOLEAN : Get(k, const)

Spec == Init /\ [][Next]_vars

=============================================================================
